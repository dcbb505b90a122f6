----------------------------- MODULE CodeReview -----------------------------
(***************************************************************************)
(* runCodeReviewStage of src/code-review-stage.ts: a panel reviews the     *)
(* verified commit; whatever it finds is remediated by the implementer,    *)
(* verified again and reviewed again, within a budget of rounds, and the   *)
(* last round blocks on the findings at the threshold.  mem.commit is the  *)
(* stage's currentCommit.  ReviewPanel has the panel itself.               *)
(***************************************************************************)
EXTENDS Implementation, Verification

(* The verification record names the stage that wrote it, so the last row   *)
(* must be that stage's own: the first verification row.                    *)
IsFirstOfItsKind(i) == \A j \in 1..(i - 1) : chain[j].kind # chain[i].kind

StartCodeReview ==
  /\ MayStart("code_review", "verification")
  /\ IsFirstOfItsKind(Len(chain))
  /\ gate.verification # {}
  /\ DocumentsAreGated
  /\ tree.exists /\ FullyClean
  /\ \E v \in records.verification :
       /\ tree.head = v.head
       /\ v.base # v.head
       /\ mem' = [mem EXCEPT !.base = v.base, !.commit = v.head]
  /\ Goto("review_open")
  /\ UNCHANGED <<runVars, fileVars, gitVars, reviewedSpec>>

OpenCodeReview ==
  /\ pc = "review_open"
  /\ InsertStage("code_review")
  /\ Goto("review_begin")
  /\ UNCHANGED <<mem, status, gate, approval, answers, fileVars, gitVars, reviewedSpec>>

BeginCodeReview ==
  /\ pc = "review_begin"
  /\ SetLast("in_progress")
  /\ Goto("review_panel")
  /\ UNCHANGED <<mem, status, gate, approval, answers, fileVars, gitVars, reviewedSpec>>

(* The round's range is not empty, every reviewer has settled, the worktree  *)
(* is where it was, and decideCodeReviewRound has decided: a round without    *)
(* findings passes, one with any is remediated while rounds remain, and the  *)
(* last one passes or blocks by the severity of what it found.               *)
SettlePanel ==
  /\ pc = "review_panel"
  /\ mem.commit # mem.base
  /\ tree.head = mem.commit
  /\ FullyClean
  /\ mem' = [mem EXCEPT !.round = @ + 1, !.count = 0]
  /\ \/ Goto("review_write") /\ reviewed' = reviewed \cup {mem.commit}
     \/ Goto(IF mem.round + 1 < ReviewRounds THEN "review_remedy" ELSE "review_block")
        /\ UNCHANGED reviewed
  /\ UNCHANGED <<runVars, fileVars, tree, verified, reviewedSpec>>

(* The implementer's dispatch must leave the head and the worktree alone.   *)
FinishRemedy ==
  /\ pc = "review_remedy"
  /\ tree.head = mem.commit
  /\ FullyClean
  /\ Goto("review_apply")
  /\ UNCHANGED <<mem, runVars, fileVars, gitVars, reviewedSpec>>

(* result.json: the range that was reviewed, to its final commit. *)
WriteCodeReview ==
  /\ pc = "review_write"
  /\ records' = [records EXCEPT !.review = {[base |-> mem.base, head |-> mem.commit]}]
  /\ Goto("review_complete")
  /\ UNCHANGED <<mem, runVars, disk, gitVars, reviewedSpec>>

CompleteCodeReview ==
  /\ pc = "review_complete"
  /\ SetLast("passed")
  /\ Goto("review_record")
  /\ UNCHANGED <<mem, status, gate, approval, answers, fileVars, gitVars, reviewedSpec>>

RecordCodeReview ==
  /\ pc = "review_record"
  /\ RecordGate("review", mem.commit)
  /\ Return
  /\ UNCHANGED <<status, chain, approval, answers, fileVars, gitVars, reviewedSpec>>

(* Remediation commits patches, whose resulting commit must be a new one, and *)
(* verifies it before the next round's panel sees it.                        *)
CodeReviewNext(leaves) ==
  \/ StartCodeReview \/ OpenCodeReview \/ BeginCodeReview \/ SettlePanel \/ FinishRemedy
  \/ ApplyPatch("review_apply", "remediation")
  \/ tree.head # mem.commit /\ FinishPatches("review_apply", "review_entry")
  \/ CheckEntry("review_entry", "review_command", "review_block")
  \/ RunCommand("review_command", "review_panel", "review_block", leaves)
  \/ WriteCodeReview \/ CompleteCodeReview \/ RecordCodeReview

CodeReviewBody == {"review_open", "review_begin", "review_panel", "review_remedy",
                   "review_apply", "review_entry", "review_command", "review_write",
                   "review_complete", "review_record", "review_block"}

CodeReviewAborts == {"review_panel", "review_remedy", "review_apply", "review_block"}
=============================================================================
