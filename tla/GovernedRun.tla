----------------------------- MODULE GovernedRun -----------------------------
(***************************************************************************)
(* One governed run from its creation to its end: the stages of the other  *)
(* modules, the ways an invocation fails in the middle of one, and what    *)
(* happens around it: the process is killed, people and agents edit the    *)
(* documents and the branch, and the operator drives stages by hand.       *)
(***************************************************************************)
EXTENDS SpecStages, SpecDecision, ApprovalGate, Delivery

CONSTANTS
  CommandsLeave,  \* what a verification command may leave in the worktree
  StoreFaults,    \* the store may fail for longer than one statement
  MayCrash,       \* the process may be killed
  MaxEdits,       \* bound: edits of the documents and of the branch
  MaxManual,      \* bound: stage-add and stage-complete commands
  OneHand         \* bound: edits or manual commands, and one edit after a kill

ASSUME EnvironmentConstants ==
  /\ CommandsLeave \subseteq Dirt
  /\ StoreFaults \in BOOLEAN
  /\ MayCrash \in BOOLEAN
  /\ MaxEdits \in Nat
  /\ MaxManual \in Nat
  /\ OneHand \in BOOLEAN

VARIABLES
  edits,        \* edits made so far
  manual,       \* manual commands so far
  interrupted   \* history: an invocation was killed, or its catch block threw

envVars == <<edits, manual, interrupted>>
vars == <<runVars, ctlVars, fileVars, gitVars, reviewedSpec, signed, envVars>>

Init ==
  /\ status = "in_progress"
  /\ chain = <<>>
  /\ gate = NoGates
  /\ approval = {}
  /\ answers = [q \in Questions |-> "none"]
  /\ disk = [spec |-> {}, plan |-> {}]
  /\ records = [verification |-> {}, review |-> {}]
  /\ tree = [exists |-> FALSE, head |-> StartingCommit, dirt |-> "clean"]
  /\ pc = "idle" /\ mem = NoMemory
  /\ verified = {} /\ reviewed = {} /\ reviewedSpec = {}
  /\ signed = {}
  /\ edits = 0 /\ manual = 0 /\ interrupted = FALSE

-----------------------------------------------------------------------------
(* How a stage ends early.  Every stage's abort blocks its row, then the run. *)

Bodies == SpecBody \cup DecisionBody \cup PlanBody \cup ImplementationBody
            \cup VerificationBody \cup CodeReviewBody

Aborts == SpecAborts \cup DecisionAborts \cup PlanAborts \cup ImplementationAborts
            \cup VerificationAborts \cup CodeReviewAborts

Abort ==
  /\ pc \in Aborts
  /\ Goto("abort_stage")
  /\ UNCHANGED <<mem, runVars, fileVars, gitVars, reviewedSpec, signed, envVars>>

(* Not the code: the abort blocks the stage and not the run. *)
AbortStageOnly ==
  /\ pc = "abort_stage"
  /\ SetLast("blocked")
  /\ Return
  /\ UNCHANGED <<status, gate, approval, answers, fileVars, gitVars, reviewedSpec,
                 signed, envVars>>

AbortStage ==
  /\ pc = "abort_stage"
  /\ SetLast("blocked")
  /\ Goto("abort_run")
  /\ UNCHANGED <<mem, status, gate, approval, answers, fileVars, gitVars, reviewedSpec,
                 signed, envVars>>

BlockRun ==
  /\ pc \in {"abort_run", "catch_run"}
  /\ status' = "blocked"
  /\ Return
  /\ UNCHANGED <<chain, gate, approval, answers, fileVars, gitVars, reviewedSpec,
                 signed, envVars>>

(* Anything inside a stage's try block throws. *)
Throw ==
  /\ pc \in Bodies \cup {"abort_stage", "abort_run"}
  /\ Goto("catch")
  /\ UNCHANGED <<mem, runVars, fileVars, gitVars, reviewedSpec, signed, envVars>>

(* The catch block blocks the stage row that is still open, then the run. *)
CatchStage ==
  /\ pc = "catch"
  /\ IF LastIsOpen THEN SetLast("blocked") ELSE UNCHANGED chain
  /\ Goto("catch_run")
  /\ UNCHANGED <<mem, status, gate, approval, answers, fileVars, gitVars, reviewedSpec,
                 signed, envVars>>

(* The catch block writes to the same store, and may throw too. *)
CatchFails ==
  /\ StoreFaults
  /\ pc \in {"catch", "catch_run"}
  /\ Return
  /\ interrupted' = TRUE
  /\ UNCHANGED <<runVars, fileVars, gitVars, reviewedSpec, signed, edits, manual>>

-----------------------------------------------------------------------------
(* The world around the invocation *)

(* The process is killed: what it has written stays, what it knew is gone. *)
Crash ==
  /\ MayCrash
  /\ pc # "idle"
  /\ Return
  /\ interrupted' = TRUE
  /\ UNCHANGED <<runVars, fileVars, gitVars, reviewedSpec, signed, edits, manual>>

Edit ==
  /\ edits < MaxEdits
  /\ OneHand => manual = 0 /\ (interrupted => edits = 0)
  /\ edits' = edits + 1
  /\ UNCHANGED <<manual, interrupted>>

(* Somebody saves the specification, or removes it or makes it unreadable. *)
EditSpec ==
  /\ Edit
  /\ \E s \in {{}} \cup {{x} : x \in Specs} : disk' = [disk EXCEPT !.spec = s]
  /\ UNCHANGED <<runVars, ctlVars, records, gitVars, reviewedSpec, signed>>

EditPlan ==
  /\ Edit
  /\ \E p \in {{}} \cup {{x} : x \in PlanDocs} : disk' = [disk EXCEPT !.plan = p]
  /\ UNCHANGED <<runVars, ctlVars, records, gitVars, reviewedSpec, signed>>

(* Somebody commits to the run's branch, or resets it to an earlier commit. *)
MoveBranch ==
  /\ Edit
  /\ tree.exists
  /\ \E h \in {Append(tree.head, Change("foreign"))}
                \cup {SubSeq(tree.head, 1, n) : n \in 0..(Len(tree.head) - 1)} :
       tree' = [tree EXCEPT !.head = h]
  /\ UNCHANGED <<runVars, ctlVars, fileVars, verified, reviewed, reviewedSpec, signed>>

(* Somebody, an agent or a tool changes or cleans the worktree. *)
TouchWorktree ==
  /\ Edit
  /\ tree.exists
  /\ \E d \in Dirt \ {tree.dirt} : tree' = [tree EXCEPT !.dirt = d]
  /\ UNCHANGED <<runVars, ctlVars, fileVars, verified, reviewed, reviewedSpec, signed>>

(* bw stage-add: only the run must be in progress. *)
StageAdd ==
  /\ pc = "idle" /\ manual < MaxManual
  /\ OneHand => edits = 0
  /\ status = "in_progress"
  /\ \E kind \in Kinds : InsertStage(kind)
  /\ manual' = manual + 1
  /\ UNCHANGED <<status, gate, approval, answers, ctlVars, fileVars, gitVars, reviewedSpec,
                 signed, edits, interrupted>>

(* bw stage-complete: any row of any run, whatever the row's status is. *)
StageComplete ==
  /\ pc = "idle" /\ manual < MaxManual
  /\ OneHand => edits = 0
  /\ \E i \in DOMAIN chain, s \in {"passed", "blocked"} :
       chain' = [chain EXCEPT ![i].status = s]
  /\ manual' = manual + 1
  /\ UNCHANGED <<status, gate, approval, answers, ctlVars, fileVars, gitVars, reviewedSpec,
                 signed, edits, interrupted>>

-----------------------------------------------------------------------------

(* The steps of the invocation and the operator's answers. *)
Stage ==
  /\ \/ SpecNext \/ DecisionNext \/ PlanNext \/ ImplementationNext
     \/ VerificationNext(CommandsLeave) \/ CodeReviewNext(CommandsLeave)
     \/ CheckDelivery \/ FinalizeDelivery
     \/ StoreFaults /\ RollBackDelivery
  /\ UNCHANGED <<signed, envVars>>

Authorization == (SignBinding \/ Approve) /\ UNCHANGED envVars

Failure == Abort \/ AbortStage \/ BlockRun \/ Throw \/ CatchStage \/ CatchFails

Environment ==
  Crash \/ EditSpec \/ EditPlan \/ MoveBranch \/ TouchWorktree \/ StageAdd \/ StageComplete

Next == Stage \/ Authorization \/ Failure \/ Environment

Spec == Init /\ [][Next]_vars

(* A process that runs goes on: dispatches and commands have time limits.  The *)
(* operator answers, signs, and starts the next stage when it may start.       *)
FairSpec ==
  /\ Spec
  /\ WF_vars(Stage \/ Abort \/ AbortStage \/ BlockRun \/ CatchStage)
  /\ WF_vars(Authorization)

-----------------------------------------------------------------------------
Steps == Bodies \cup {"idle", "decision_start", "deliver", "abort_stage", "abort_run",
                      "catch", "catch_run"}

TypeOK ==
  /\ status \in {"in_progress", "blocked", "completed"}
  /\ chain \in Seq(StageRows)
  /\ gate \in GateEvents
  /\ approval \in SUBSET Bindings
  /\ answers \in [Questions -> AnswerStates]
  /\ disk \in [spec : SUBSET Specs, plan : SUBSET PlanDocs]
  /\ records \in [verification : SUBSET Ranges, review : SUBSET Ranges]
  /\ tree \in Trees
  /\ pc \in Steps /\ mem \in Memory
  /\ verified \in SUBSET Commits /\ reviewed \in SUBSET Commits
  /\ reviewedSpec \in SUBSET Specs
  /\ signed \in SUBSET Bindings
  /\ edits \in Nat /\ manual \in Nat /\ interrupted \in BOOLEAN

(* A completed run delivered a commit that every frozen command passed at and *)
(* that a whole panel reviewed without blocking, over the range that          *)
(* implementation began, under an approval the operator signed: whatever was  *)
(* killed, edited or completed by hand on the way.                            *)
DeliveredAsApproved ==
  status = "completed" =>
    \E d \in gate.delivery, g \in gate.implementation :
      /\ d.head \in verified \cap reviewed
      /\ d.base = g.base
      /\ IsStrictPrefix(d.base, d.head)
      /\ approval # {} /\ approval \subseteq signed

(* The approval is the specification and risk the decision gate recorded, and *)
(* the plan gate only passes a plan written from that specification, although *)
(* the file is re-read by every command and anyone may save it in between.    *)
AuthorizationBinds ==
  /\ approval # {} => approval = gate.decision /\ approval \subseteq signed
  /\ \A p \in gate.plan : approval # {} /\ \A a \in approval : p.for = a.spec

(* The documents the run committed to its branch are the gated ones, and they *)
(* lie outside the certified range: a document never counts as a delivery.    *)
CertifiesGatedDocuments ==
  \A d \in gate.delivery : \A i \in DOMAIN d.head :
    d.head[i].by = "projections" =>
      /\ i \in DOMAIN d.base
      /\ d.head[i].spec = {a.spec : a \in approval}
      /\ d.head[i].plan = gate.plan

(* Where an invocation may leave a run that is still in progress: a group of *)
(* stages has passed and the gates of exactly those stages are recorded.     *)
GateStage == [spec |-> 2, decision |-> 3, plan |-> 6, implementation |-> 7,
              verification |-> 8, review |-> 9, delivery |-> 10]

AtBoundary ==
  /\ Len(chain) \in {0, 2, 3, 4, 6, 7, 8, 9}
  /\ \A i \in DOMAIN chain : chain[i] = [kind |-> STAGES[i], status |-> "passed"]
  /\ \A g \in GateNames : gate[g] # {} <=> GateStage[g] <= Len(chain)
  /\ approval # {} <=> Len(chain) >= 4
  /\ Len(chain) = 2 => \E q \in Questions : answers[q] # "none"

(* "no run is ever left wedged" (spec-stage.ts:88): whatever a stage refuses,   *)
(* and wherever its body or its abort throws, the invocation returns with the  *)
(* run closed or at a boundary the next command can start from.  Three things  *)
(* leave a run in progress elsewhere and are outside the promise: a kill, a    *)
(* store that fails again inside the catch block (spec-stage.ts:879), and rows *)
(* written by hand.                                                            *)
NoWedge ==
  pc = "idle" /\ status = "in_progress" /\ ~interrupted /\ manual = 0 => AtBoundary

(* What a kill or a failing catch block leaves is refused: no command starts   *)
(* from a run in progress that is not at a boundary, so a half-finished stage  *)
(* is neither repeated nor skipped, unless a row is completed by hand.         *)
ResidueIsRefused ==
  [][pc = "idle" /\ status = "in_progress" /\ ~AtBoundary /\ manual' = 0
       => pc' = "idle" /\ UNCHANGED <<status, chain, gate, approval>>]_vars

(* A closed run keeps its outcome, its evidence and its approval; stage-add,  *)
(* late answers and late approvals are refused.                               *)
ClosedRunIsFrozen ==
  [][status # "in_progress" =>
       UNCHANGED <<status, gate, approval, answers>> /\ Len(chain') = Len(chain)]_vars

(* The readers of the audit chain take the latest event of an action: there    *)
(* is only ever one, so nothing a gate recorded is replaced by a second pass.  *)
GateEventsAreFinal == [][\A g \in GateNames : gate[g] # {} => gate'[g] = gate[g]]_vars

(* The run implements the order of gates it promises. *)
Promise ==
  INSTANCE DeliveryOrder WITH
    passed <- {g \in GateNames : gate[g] # {}},
    authorized <- approval # {},
    outcome <- status

GatesPassInOrder == Promise!Spec

(* approval-stage.ts:144: the gate event "records the hash and risk of the     *)
(* specification it passed".                                                   *)
GateRecordsRisk == \A g \in gate.decision : g.risk = RiskOf[g.spec]

(* approval-stage.ts:144: the decision gate passes "the reviewed one, or the   *)
(* one the operator's answers were folded into".                               *)
GatedSpecWasReviewed == \A g \in gate.decision : g.spec \in reviewedSpec

(* A run that the operator keeps driving is settled: every dispatch, round,    *)
(* command and failure path ends, and no gate waits for what cannot come.      *)
RunSettles == <>(status # "in_progress")
=============================================================================
