----------------------------- MODULE PlanStages -----------------------------
(***************************************************************************)
(* runPlanStage of src/plan-stage.ts: the plan and plan_review stages,     *)
(* written from the approved specification.                                *)
(***************************************************************************)
EXTENDS RunState

(* Not the code: the specification is not compared with the gate's record. *)
StartPlanFromDisk ==
  /\ MayStart("plan", "awaiting_approval")
  /\ approval # {}
  /\ disk.spec # {}
  /\ mem' = [mem EXCEPT !.spec = disk.spec]
  /\ Goto("plan_open")
  /\ UNCHANGED <<runVars, fileVars, gitVars, reviewedSpec>>

(* The preconditions: the approval exists, and the spec on disk is the one  *)
(* the spec_decision gate passed.                                           *)
StartPlan ==
  /\ MayStart("plan", "awaiting_approval")
  /\ approval # {}
  /\ \E g \in gate.decision : disk.spec = {g.spec}
  /\ mem' = [mem EXCEPT !.spec = disk.spec]
  /\ Goto("plan_open")
  /\ UNCHANGED <<runVars, fileVars, gitVars, reviewedSpec>>

OpenPlan ==
  /\ pc = "plan_open"
  /\ InsertStage("plan")
  /\ Goto("plan_draft")
  /\ UNCHANGED <<mem, status, gate, approval, answers, fileVars, gitVars, reviewedSpec>>

(* The draft is written before it is checked: a plan for another spec is on  *)
(* disk when the stage aborts.                                               *)
DraftPlan ==
  /\ pc = "plan_draft"
  /\ \E p \in PlanDocs :
       /\ disk' = [disk EXCEPT !.plan = {p}]
       /\ mem' = [mem EXCEPT !.plan = {p}]
       /\ Goto(IF p.for \in mem.spec THEN "plan_critique" ELSE "abort_stage")
  /\ UNCHANGED <<runVars, records, gitVars, reviewedSpec>>

(* Every later revision is checked before it replaces the file. *)
RevisePlan ==
  \E p \in PlanDocs :
    /\ p.for \in mem.spec
    /\ disk' = [disk EXCEPT !.plan = {p}]
    /\ mem' = [mem EXCEPT !.plan = {p}]
    /\ UNCHANGED <<runVars, records, gitVars, reviewedSpec>>

CritiquePlan ==
  /\ pc = "plan_critique"
  /\ RevisePlan
  /\ Goto("plan_complete")

CompletePlan ==
  /\ pc = "plan_complete"
  /\ SetLast("passed")
  /\ Goto("plan_review_open")
  /\ UNCHANGED <<mem, status, gate, approval, answers, fileVars, gitVars, reviewedSpec>>

OpenPlanReview ==
  /\ pc = "plan_review_open"
  /\ InsertStage("plan_review")
  /\ Goto("plan_round")
  /\ UNCHANGED <<mem, status, gate, approval, answers, fileVars, gitVars, reviewedSpec>>

(* One round: the panel's findings and one reconciliation of them. *)
ReconcilePlan ==
  /\ pc = "plan_round"
  /\ \E p \in PlanDocs, blocks \in BOOLEAN :
       /\ p.for \in mem.spec
       /\ disk' = [disk EXCEPT !.plan = {p}]
       /\ mem' = [mem EXCEPT !.plan = {p}, !.round = @ + 1, !.blocking = @ \/ blocks]
  /\ Goto(IF mem.round + 1 = PlanRounds THEN "plan_gate" ELSE "plan_round")
  /\ UNCHANGED <<runVars, records, gitVars, reviewedSpec>>

(* planReviewGate: plan.gate.pass records the plan's hash and its plan_for. *)
PassPlanGate ==
  /\ pc = "plan_gate"
  /\ ~mem.blocking
  /\ \E p \in mem.plan : RecordGate("plan", p)
  /\ Goto("plan_review_complete")
  /\ UNCHANGED <<mem, status, chain, approval, answers, fileVars, gitVars, reviewedSpec>>

CompletePlanReview ==
  /\ pc = "plan_review_complete"
  /\ SetLast("passed")
  /\ Return
  /\ UNCHANGED <<status, gate, approval, answers, fileVars, gitVars, reviewedSpec>>

PlanNext ==
  \/ StartPlan \/ OpenPlan \/ DraftPlan \/ CritiquePlan \/ CompletePlan
  \/ OpenPlanReview \/ ReconcilePlan \/ PassPlanGate \/ CompletePlanReview

PlanBody == {"plan_open", "plan_draft", "plan_critique", "plan_complete",
             "plan_review_open", "plan_round", "plan_gate", "plan_review_complete"}

PlanAborts == {"plan_draft", "plan_critique", "plan_round"}
                \cup IF mem.blocking THEN {"plan_gate"} ELSE {}

(* Not the code: the plan on disk is not compared with the gated one. *)
SpecIsGated ==
  /\ gate.plan # {} /\ disk.plan # {}
  /\ approval # {} /\ disk.spec = {a.spec : a \in approval}

(* The documents every later stage checks again before it uses them: the     *)
(* plan on disk is the gated one, the spec on disk is the approved one, and  *)
(* the gated plan was written from it.                                       *)
DocumentsAreGated ==
  /\ gate.plan # {} /\ disk.plan = gate.plan
  /\ approval # {} /\ disk.spec = {a.spec : a \in approval}
  /\ disk.spec = {p.for : p \in gate.plan}
=============================================================================
