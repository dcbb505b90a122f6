---------------------------- MODULE DeliveryOrder ----------------------------
(***************************************************************************)
(* What a governed run promises, without its stages: gates are passed in   *)
(* one order and never taken back, the operator's authorization stands     *)
(* between the decision and the plan, a run is closed at most once, and it *)
(* completes exactly when the delivery gate passes.                        *)
(***************************************************************************)
EXTENDS Integers

VARIABLES passed,      \* the gates that have passed
          authorized,  \* the operator has approved the run
          outcome      \* "in_progress", "blocked" or "completed"

orderVars == <<passed, authorized, outcome>>

Order == <<"spec", "decision", "plan", "implementation", "verification", "review",
           "delivery">>

Before(i) == {Order[j] : j \in 1..(i - 1)}

Init ==
  /\ passed = {}
  /\ authorized = FALSE
  /\ outcome = "in_progress"

PassGate(i) ==
  /\ outcome = "in_progress"
  /\ passed = Before(i)
  /\ i > 2 => authorized
  /\ passed' = passed \cup {Order[i]}
  /\ outcome' = IF Order[i] = "delivery" THEN "completed" ELSE outcome
  /\ UNCHANGED authorized

Authorize ==
  /\ outcome = "in_progress"
  /\ passed = Before(3)
  /\ ~authorized
  /\ authorized' = TRUE
  /\ UNCHANGED <<passed, outcome>>

Block ==
  /\ outcome = "in_progress"
  /\ outcome' = "blocked"
  /\ UNCHANGED <<passed, authorized>>

Next == (\E i \in 1..7 : PassGate(i)) \/ Authorize \/ Block

Spec == Init /\ [][Next]_orderVars
=============================================================================
