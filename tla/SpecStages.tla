----------------------------- MODULE SpecStages -----------------------------
(***************************************************************************)
(* runSpecStage of src/spec-stage.ts: the spec and spec_review stages, and *)
(* the spec_decision row it passes itself when the review asked nothing.   *)
(* One action per write of the store, of the audit chain or of a document; *)
(* the agent dispatches in between are where time passes.                  *)
(***************************************************************************)
EXTENDS RunState

(* Not the code: the spec stage may run again in the same run. *)
RestartSpec ==
  /\ pc = "idle"
  /\ status = "in_progress"
  /\ Goto("spec_open")
  /\ UNCHANGED <<mem, runVars, fileVars, gitVars, reviewedSpec>>

(* The preconditions; profile, executor and agent checks can only refuse. *)
StartSpec ==
  /\ pc = "idle"
  /\ status = "in_progress"
  /\ chain = <<>>
  /\ Goto("spec_open")
  /\ UNCHANGED <<mem, runVars, fileVars, gitVars, reviewedSpec>>

OpenSpec ==
  /\ pc = "spec_open"
  /\ InsertStage("spec")
  /\ Goto("spec_draft")
  /\ UNCHANGED <<mem, status, gate, approval, answers, fileVars, gitVars, reviewedSpec>>

(* writeSpecDoc of a document the author dispatch returned. *)
WriteSpec(s) ==
  /\ disk' = [disk EXCEPT !.spec = {s}]
  /\ UNCHANGED <<runVars, records, gitVars, reviewedSpec>>

(* The author's draft. *)
DraftSpec ==
  /\ pc = "spec_draft"
  /\ \E s \in Specs : WriteSpec(s) /\ mem' = [mem EXCEPT !.spec = {s}]
  /\ Goto("spec_critique")

(* The self-critique's revision. *)
CritiqueSpec ==
  /\ pc = "spec_critique"
  /\ \E s \in Specs : WriteSpec(s) /\ mem' = [mem EXCEPT !.spec = {s}]
  /\ Goto("spec_complete")

CompleteSpec ==
  /\ pc = "spec_complete"
  /\ SetLast("passed")
  /\ Goto("spec_review_open")
  /\ UNCHANGED <<mem, status, gate, approval, answers, fileVars, gitVars, reviewedSpec>>

(* The risk is computed here, once, from the self-critiqued document. *)
OpenSpecReview ==
  /\ pc = "spec_review_open"
  /\ InsertStage("spec_review")
  /\ mem' = [mem EXCEPT !.risk = {RiskOf[s] : s \in mem.spec}]
  /\ Goto("spec_round")
  /\ UNCHANGED <<status, gate, approval, answers, fileVars, gitVars, reviewedSpec>>

(* Not the code: the gate will record the document before the revision. *)
ReconcileSpecStale ==
  /\ pc = "spec_round"
  /\ \E s \in Specs, blocks \in BOOLEAN, asked \in SUBSET Questions :
       /\ mem' = [mem EXCEPT !.round = @ + 1, !.blocking = @ \/ blocks]
       /\ answers' = [q \in Questions |-> IF q \in asked THEN "open" ELSE answers[q]]
       /\ disk' = [disk EXCEPT !.spec = {s}]
  /\ Goto(IF mem.round + 1 = SpecRounds THEN "spec_gate" ELSE "spec_round")
  /\ UNCHANGED <<status, chain, gate, approval, records, gitVars, reviewedSpec>>

(* One round: the panel's findings and one reconciliation of them.  The      *)
(* revision is written first; then each finding gets its decision, which may *)
(* block, or may block on a question for the operator.                       *)
ReconcileSpec ==
  /\ pc = "spec_round"
  /\ \E s \in Specs, blocks \in BOOLEAN, asked \in SUBSET Questions :
       /\ mem' = [mem EXCEPT !.spec = {s}, !.round = @ + 1, !.blocking = @ \/ blocks]
       /\ answers' = [q \in Questions |-> IF q \in asked THEN "open" ELSE answers[q]]
       /\ disk' = [disk EXCEPT !.spec = {s}]
  /\ Goto(IF mem.round + 1 = SpecRounds THEN "spec_gate" ELSE "spec_round")
  /\ UNCHANGED <<status, chain, gate, approval, records, gitVars, reviewedSpec>>

(* specReviewGate over every round's decisions: spec.gate.pass is appended. *)
PassSpecGate ==
  /\ pc = "spec_gate"
  /\ ~mem.blocking
  /\ \E s \in mem.spec, r \in mem.risk :
       /\ RecordGate("spec", [spec |-> s, risk |-> r])
       /\ reviewedSpec' = reviewedSpec \cup {s}
  /\ Goto("spec_review_complete")
  /\ UNCHANGED <<mem, status, chain, approval, answers, fileVars, gitVars>>

(* With questions open the stage returns and the run awaits the operator. *)
CompleteSpecReview ==
  /\ pc = "spec_review_complete"
  /\ SetLast("passed")
  /\ IF \E q \in Questions : answers[q] = "open"
       THEN Return
       ELSE Goto("spec_decision_open") /\ UNCHANGED mem
  /\ UNCHANGED <<status, gate, approval, answers, fileVars, gitVars, reviewedSpec>>

OpenPassedDecision ==
  /\ pc = "spec_decision_open"
  /\ InsertStage("spec_decision")
  /\ Goto("spec_decision_complete")
  /\ UNCHANGED <<mem, status, gate, approval, answers, fileVars, gitVars, reviewedSpec>>

CompletePassedDecision ==
  /\ pc = "spec_decision_complete"
  /\ SetLast("passed")
  /\ Goto("spec_decision_record")
  /\ UNCHANGED <<mem, status, gate, approval, answers, fileVars, gitVars, reviewedSpec>>

(* spec_decision.gate.pass: the reconciled hash with the earlier risk. *)
RecordPassedDecision ==
  /\ pc = "spec_decision_record"
  /\ \E s \in mem.spec, r \in mem.risk : RecordGate("decision", [spec |-> s, risk |-> r])
  /\ Return
  /\ UNCHANGED <<status, chain, approval, answers, fileVars, gitVars, reviewedSpec>>

SpecNext ==
  \/ StartSpec \/ OpenSpec \/ DraftSpec \/ CritiqueSpec \/ CompleteSpec
  \/ OpenSpecReview \/ ReconcileSpec \/ PassSpecGate \/ CompleteSpecReview
  \/ OpenPassedDecision \/ CompletePassedDecision \/ RecordPassedDecision

(* Where the try block of the stage is running, and where it may abort: a    *)
(* failed or refused dispatch, an unstaffable panel, a blocking decision.    *)
SpecBody == {"spec_open", "spec_draft", "spec_critique", "spec_complete",
             "spec_review_open", "spec_round", "spec_gate", "spec_review_complete",
             "spec_decision_open", "spec_decision_complete", "spec_decision_record"}

SpecAborts == {"spec_draft", "spec_critique", "spec_complete", "spec_round"}
                \cup IF mem.blocking THEN {"spec_gate"} ELSE {}
=============================================================================
