---------------------------- MODULE Verification ----------------------------
(***************************************************************************)
(* runVerificationStage of src/verification-stage.ts, and verifyCommit of  *)
(* src/commit-verification.ts that it shares with code-review remediation. *)
(***************************************************************************)
EXTENDS RunState

(* The branch must be at exactly the commit implementation recorded. *)
StartVerification ==
  /\ MayStart("verification", "implementation")
  /\ tree.exists
  /\ \E g \in gate.implementation :
       /\ AtCleanCommit(g.head)
       /\ mem' = [mem EXCEPT !.base = g.base, !.commit = g.head]
  /\ Goto("verif_open")
  /\ UNCHANGED <<runVars, fileVars, gitVars, reviewedSpec>>

OpenVerification ==
  /\ pc = "verif_open"
  /\ InsertStage("verification")
  /\ Goto("verif_begin")
  /\ UNCHANGED <<mem, status, gate, approval, answers, fileVars, gitVars, reviewedSpec>>

BeginVerification ==
  /\ pc = "verif_begin"
  /\ SetLast("in_progress")
  /\ Goto("verif_entry")
  /\ UNCHANGED <<mem, status, gate, approval, answers, fileVars, gitVars, reviewedSpec>>

(* verifyCommit: the state before the first command must be the commit under *)
(* test, at a clean worktree.                                                *)
CheckEntry(here, command, block) ==
  /\ pc = here
  /\ Goto(IF AtCleanCommit(mem.commit) THEN command ELSE block)
  /\ mem' = [mem EXCEPT !.count = 0]
  /\ UNCHANGED <<runVars, fileVars, gitVars, reviewedSpec>>

(* Not the code: the outcome of the last command is not looked at. *)
RunCommandRegardless(here, done, block, leaves) ==
  /\ pc = here
  /\ \E ok \in BOOLEAN, d \in leaves \cup {tree.dirt} :
       /\ tree' = [tree EXCEPT !.dirt = d]
       /\ LET last == mem.count + 1 = Commands
          IN /\ Goto(IF last THEN done ELSE here)
             /\ verified' = IF ok /\ last THEN verified \cup {mem.commit} ELSE verified
  /\ mem' = [mem EXCEPT !.count = @ + 1]
  /\ UNCHANGED <<runVars, fileVars, reviewed, reviewedSpec>>

(* verifyCommit: one frozen command.  It may fail and may leave files behind; *)
(* the state after it must still be the commit under test.                    *)
RunCommand(here, done, block, leaves) ==
  /\ pc = here
  /\ \E ok \in BOOLEAN, d \in leaves \cup {tree.dirt} :
       /\ tree' = [tree EXCEPT !.dirt = d]
       /\ LET passed == ok /\ tree.head = mem.commit /\ d \in {"clean", "ignored"}
              all == passed /\ mem.count + 1 = Commands
          IN /\ Goto(IF ~passed THEN block ELSE IF all THEN done ELSE here)
             /\ verified' = IF all THEN verified \cup {mem.commit} ELSE verified
  /\ mem' = [mem EXCEPT !.count = @ + 1]
  /\ UNCHANGED <<runVars, fileVars, reviewed, reviewedSpec>>

(* result.json is written before the stage row refers to it. *)
WriteVerification ==
  /\ pc = "verif_write"
  /\ records' = [records EXCEPT !.verification = {[base |-> mem.base, head |-> mem.commit]}]
  /\ Goto("verif_complete")
  /\ UNCHANGED <<mem, runVars, disk, gitVars, reviewedSpec>>

CompleteVerification ==
  /\ pc = "verif_complete"
  /\ SetLast("passed")
  /\ Goto("verif_record")
  /\ UNCHANGED <<mem, status, gate, approval, answers, fileVars, gitVars, reviewedSpec>>

RecordVerification ==
  /\ pc = "verif_record"
  /\ RecordGate("verification", mem.commit)
  /\ Return
  /\ UNCHANGED <<status, chain, approval, answers, fileVars, gitVars, reviewedSpec>>

VerificationNext(leaves) ==
  \/ StartVerification \/ OpenVerification \/ BeginVerification
  \/ CheckEntry("verif_entry", "verif_command", "verif_block")
  \/ RunCommand("verif_command", "verif_write", "verif_block", leaves)
  \/ WriteVerification
  \/ CompleteVerification \/ RecordVerification

VerificationBody == {"verif_open", "verif_begin", "verif_entry", "verif_command",
                     "verif_write", "verif_complete", "verif_record", "verif_block"}

(* A block writes its record (which no later stage accepts), completes the   *)
(* row blocked and then blocks the run, as an abort does.                    *)
VerificationAborts == {"verif_block"}
=============================================================================
