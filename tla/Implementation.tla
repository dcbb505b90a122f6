--------------------------- MODULE Implementation ---------------------------
(***************************************************************************)
(* runImplementationStage of src/implementation-stage.ts and the commits   *)
(* applyProposedPatches of src/patch-application.ts makes for it.          *)
(***************************************************************************)
EXTENDS PlanStages

(* Crash residue is refused: the worktree must not exist. *)
StartImplementation ==
  /\ MayStart("implementation", "plan_review")
  /\ DocumentsAreGated
  /\ ~tree.exists
  /\ mem' = [mem EXCEPT !.spec = disk.spec, !.plan = disk.plan]
  /\ Goto("impl_open")
  /\ UNCHANGED <<runVars, fileVars, gitVars, reviewedSpec>>

OpenImplementation ==
  /\ pc = "impl_open"
  /\ InsertStage("implementation")
  /\ Goto("impl_worktree")
  /\ UNCHANGED <<mem, status, gate, approval, answers, fileVars, gitVars, reviewedSpec>>

(* git worktree add <path> -b <branch> <starting commit> *)
CreateWorktree ==
  /\ pc = "impl_worktree"
  /\ tree' = [exists |-> TRUE, head |-> StartingCommit, dirt |-> "clean"]
  /\ Goto("impl_project")
  /\ UNCHANGED <<mem, runVars, fileVars, verified, reviewed, reviewedSpec>>

(* The branch's first commit holds the spec and the plan that were read. *)
CommitProjections ==
  /\ pc = "impl_project"
  /\ \E s \in mem.spec, p \in mem.plan :
       tree' = [tree EXCEPT !.head = Append(@, Projections(s, p))]
  /\ Goto("impl_base")
  /\ UNCHANGED <<mem, runVars, fileVars, verified, reviewed, reviewedSpec>>

(* Clean before the dispatch; the head read here is the patches' base. *)
ReadBase ==
  /\ pc = "impl_base"
  /\ FullyClean
  /\ mem' = [mem EXCEPT !.base = tree.head]
  /\ Goto("impl_dispatch")
  /\ UNCHANGED <<runVars, fileVars, gitVars, reviewedSpec>>

(* After the implementer returned, the worktree must still be clean. *)
FinishDispatch ==
  /\ pc = "impl_dispatch"
  /\ FullyClean
  /\ mem' = [mem EXCEPT !.count = 0]
  /\ Goto("impl_apply")
  /\ UNCHANGED <<runVars, fileVars, gitVars, reviewedSpec>>

(* applyProposedPatches: one proposed patch becomes one commit on whatever  *)
(* the head is, as long as no path of it moved since the proposal.          *)
ApplyPatch(here, by) ==
  /\ pc = here
  /\ mem.count < MaxPatches
  /\ tree' = [tree EXCEPT !.head = Append(@, Change(by))]
  /\ mem' = [mem EXCEPT !.count = @ + 1]
  /\ UNCHANGED <<pc, runVars, fileVars, verified, reviewed, reviewedSpec>>

(* applyProposedPatches: clean after the last patch; the head read then is  *)
(* the resulting commit.                                                    *)
FinishPatches(here, done) ==
  /\ pc = here
  /\ mem.count > 0
  /\ FullyClean
  /\ mem' = [mem EXCEPT !.commit = tree.head]
  /\ Goto(done)
  /\ UNCHANGED <<runVars, fileVars, gitVars, reviewedSpec>>

CompleteImplementation ==
  /\ pc = "impl_complete"
  /\ SetLast("passed")
  /\ Goto("impl_record")
  /\ UNCHANGED <<mem, status, gate, approval, answers, fileVars, gitVars, reviewedSpec>>

(* implementation.gate.pass: formatImplementationGate of base and head. *)
RecordImplementation ==
  /\ pc = "impl_record"
  /\ RecordGate("implementation", [base |-> mem.base, head |-> mem.commit])
  /\ Return
  /\ UNCHANGED <<status, chain, approval, answers, fileVars, gitVars, reviewedSpec>>

ImplementationNext ==
  \/ StartImplementation \/ OpenImplementation \/ CreateWorktree \/ CommitProjections
  \/ ReadBase \/ FinishDispatch
  \/ ApplyPatch("impl_apply", "patch") \/ FinishPatches("impl_apply", "impl_complete")
  \/ CompleteImplementation \/ RecordImplementation

ImplementationBody == {"impl_open", "impl_worktree", "impl_project", "impl_base",
                       "impl_dispatch", "impl_apply", "impl_complete", "impl_record"}

ImplementationAborts == {"impl_worktree", "impl_project", "impl_base",
                         "impl_dispatch", "impl_apply"}
=============================================================================
