---------------------------- MODULE SpecDecision ----------------------------
(***************************************************************************)
(* src/spec-decision-stage.ts: the operator answers the questions the spec *)
(* review opened, and the decision group folds the answers into the spec.  *)
(* The group is only reached through advanceRun of src/run-command.ts,     *)
(* which proves the recorded boundary before it calls the stage.           *)
(***************************************************************************)
EXTENDS RunState

(* openDecisionStage.  The spec stage runs on an empty chain only, so the    *)
(* spec_review row its questions belong to is the second one.                *)
DecisionIsOpen ==
  /\ ~HasStage("spec_decision")
  /\ EndsWithPassed("spec_review")
  /\ Len(chain) = 2

(* answerQuestion: one transaction, and an answer is never replaced. *)
AnswerQuestion(q) ==
  /\ pc = "idle"
  /\ status = "in_progress"
  /\ DecisionIsOpen
  /\ answers[q] = "open"
  /\ \E a \in {"approve", "deny", "modify"} : answers' = [answers EXCEPT ![q] = a]
  /\ UNCHANGED <<status, chain, gate, approval, ctlVars, fileVars, gitVars, reviewedSpec>>

(* advanceRun observes the boundary under the lock: both rows passed, every  *)
(* question answered, and the file is the one spec.gate.pass recorded.       *)
ObserveDecision ==
  /\ pc = "idle"
  /\ status = "in_progress"
  /\ Len(chain) = 2
  /\ \A i \in 1..2 : chain[i] = [kind |-> STAGES[i], status |-> "passed"]
  /\ \E q \in Questions : answers[q] # "none"
  /\ \A q \in Questions : answers[q] # "open"
  /\ \E g \in gate.spec : disk.spec = {g.spec}
  /\ Goto("decision_start")
  /\ UNCHANGED <<mem, runVars, fileVars, gitVars, reviewedSpec>>

(* runSpecDecisionStage's own preconditions, and its own read of the file:   *)
(* it is validated, but not compared with the recorded hash again.           *)
StartDecision ==
  /\ pc = "decision_start"
  /\ DecisionIsOpen
  /\ disk.spec # {}
  /\ mem' = [mem EXCEPT !.spec = disk.spec]
  /\ Goto("decision_open")
  /\ UNCHANGED <<runVars, fileVars, gitVars, reviewedSpec>>

(* A precondition refuses: the invocation returns. *)
RefuseDecision ==
  /\ pc = "decision_start"
  /\ disk.spec = {}
  /\ Return
  /\ UNCHANGED <<runVars, fileVars, gitVars, reviewedSpec>>

OpenDecision ==
  /\ pc = "decision_open"
  /\ InsertStage("spec_decision")
  /\ Goto("decision_fold")
  /\ UNCHANGED <<mem, status, gate, approval, answers, fileVars, gitVars, reviewedSpec>>

ToFold == {q \in Questions : answers[q] \in {"approve", "modify"}}

(* Every answer is deny: the reviewed specification passes as it was read. *)
PassAllDenied ==
  /\ pc = "decision_fold"
  /\ ToFold = {}
  /\ Goto("decision_complete")
  /\ UNCHANGED <<mem, runVars, fileVars, gitVars, reviewedSpec>>

(* One dispatch folds the answers into a new specification. *)
FoldAnswers ==
  /\ pc = "decision_fold"
  /\ ToFold # {}
  /\ \E s \in Specs :
       /\ disk' = [disk EXCEPT !.spec = {s}]
       /\ mem' = [mem EXCEPT !.spec = {s}]
       /\ reviewedSpec' = IF mem.spec \subseteq reviewedSpec
                            THEN reviewedSpec \cup {s} ELSE reviewedSpec
  /\ Goto("decision_complete")
  /\ UNCHANGED <<runVars, records, gitVars>>

CompleteDecision ==
  /\ pc = "decision_complete"
  /\ SetLast("passed")
  /\ Goto("decision_record")
  /\ UNCHANGED <<mem, status, gate, approval, answers, fileVars, gitVars, reviewedSpec>>

(* spec_decision.gate.pass, with the risk of the document that passed. *)
RecordDecision ==
  /\ pc = "decision_record"
  /\ \E s \in mem.spec : RecordGate("decision", [spec |-> s, risk |-> RiskOf[s]])
  /\ Return
  /\ UNCHANGED <<status, chain, approval, answers, fileVars, gitVars, reviewedSpec>>

DecisionNext ==
  \/ \E q \in Questions : AnswerQuestion(q)
  \/ ObserveDecision \/ StartDecision \/ RefuseDecision \/ OpenDecision
  \/ PassAllDenied \/ FoldAnswers \/ CompleteDecision \/ RecordDecision

DecisionBody == {"decision_open", "decision_fold", "decision_complete", "decision_record"}

DecisionAborts == {"decision_fold"}
=============================================================================
