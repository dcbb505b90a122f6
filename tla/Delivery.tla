------------------------------ MODULE Delivery ------------------------------
(***************************************************************************)
(* runDeliveryStage of src/delivery-stage.ts: every record is read again,  *)
(* compared with the others and with the worktree, and one transaction     *)
(* closes the run.                                                         *)
(***************************************************************************)
EXTENDS CodeReview

(* Not the code: the code_review.gate.pass event is not asked for. *)
RecordsAgreeWithoutEvent ==
  /\ EndsWithPassed("code_review")
  /\ IsFirstOfItsKind(Len(chain))
  /\ gate.verification # {}
  /\ \E v \in records.verification, r \in records.review : v.base = r.base

(* The checks over the rows, the two records and the two gate events. *)
RecordsAgree ==
  /\ EndsWithPassed("code_review")
  /\ IsFirstOfItsKind(Len(chain))
  /\ \E i \in DOMAIN chain :
       IsFirstOfItsKind(i) /\ chain[i] = [kind |-> "verification", status |-> "passed"]
  /\ gate.verification # {}
  /\ \E v \in records.verification, r \in records.review :
       v.base = r.base /\ gate.review = {r.head}

(* The checks over the worktree: only tracked changes can leave the branch  *)
(* with bytes nobody verified.                                              *)
BranchAgrees(r) ==
  /\ tree.exists
  /\ tree.head = r.head
  /\ tree.dirt # "tracked"
  /\ r.base # StartingCommit
  /\ IsPrefix(r.base, r.head)

CheckDelivery ==
  /\ MayStart("delivery_check", "code_review")
  /\ approval # {}
  /\ RecordsAgree
  /\ \E r \in records.review :
       /\ BranchAgrees(r)
       /\ mem' = [mem EXCEPT !.base = r.base, !.commit = r.head]
  /\ Goto("deliver")
  /\ UNCHANGED <<runVars, fileVars, gitVars, reviewedSpec>>

(* The transaction: a declared artifact that no change of the range touches, *)
(* or that the commit's tree does not hold, blocks the run.  It reads the    *)
(* run and the chain again, which cannot differ while the lock is held.      *)
FinalizeDelivery ==
  /\ pc = "deliver"
  /\ \/ /\ chain' = Append(chain, [kind |-> "delivery_check", status |-> "passed"])
        /\ status' = "completed"
        /\ RecordGate("delivery", [base |-> mem.base, head |-> mem.commit])
     \/ /\ chain' = Append(chain, [kind |-> "delivery_check", status |-> "blocked"])
        /\ status' = "blocked"
        /\ UNCHANGED gate
  /\ Return
  /\ UNCHANGED <<approval, answers, fileVars, gitVars, reviewedSpec>>

(* A throw inside it rolls everything back, and the command can be retried. *)
RollBackDelivery ==
  /\ pc = "deliver"
  /\ Return
  /\ UNCHANGED <<runVars, fileVars, gitVars, reviewedSpec>>
=============================================================================
