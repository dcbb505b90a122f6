-------------------------- MODULE GovernedRunProofs --------------------------
(***************************************************************************)
(* Theorems about GovernedRun, for every value of its constants: first its *)
(* types and what a crash leaves behind, then how a run's gates follow     *)
(* each other.                                                             *)
(***************************************************************************)
EXTENDS GovernedRun, SequenceTheorems, TLAPS

RowStatuses == {"pending", "in_progress", "passed", "blocked"}

(* An update of one row's status, as setStageStatus and completeStage do it, *)
(* keeps the rows' types, their number and their kinds.                      *)
LEMMA UpdatedRow ==
  ASSUME chain \in Seq(StageRows), NEW i \in Nat, NEW s \in RowStatuses,
         chain' = [chain EXCEPT ![i].status = s]
  PROVE  /\ chain' \in Seq(StageRows)
         /\ Len(chain') = Len(chain)
         /\ \A kind : HasStage(kind) => HasStage(kind)'
<1>1. CASE i \in 1..Len(chain)
  <2>1. chain[i] \in StageRows
    BY <1>1
  <2>2. [chain[i] EXCEPT !.status = s] \in StageRows
    BY <2>1 DEF StageRows, RowStatuses
  <2>3. [chain[i] EXCEPT !.status = s].kind = chain[i].kind
    BY <2>1 DEF StageRows
  <2> DEFINE row == [chain[i] EXCEPT !.status = s]
  <2>4. chain' = [chain EXCEPT ![i] = row]
    OBVIOUS
  <2> HIDE DEF row
  <2>5. /\ chain' \in Seq(StageRows) /\ Len(chain') = Len(chain)
        /\ \A j \in 1..Len(chain) : chain'[j] = IF j = i THEN row ELSE chain[j]
    BY <1>1, <2>2, <2>4, ExceptSeq DEF row
  <2>6. \A j \in 1..Len(chain) : chain'[j].kind = chain[j].kind
    BY <2>3, <2>5 DEF row
  <2>7. QED
    BY <2>5, <2>6 DEF HasStage
<1>2. CASE i \notin 1..Len(chain)
  <2>1. chain' = chain
    BY <1>2
  <2>2. QED
    BY <2>1 DEF HasStage
<1>3. QED
  BY <1>1, <1>2

LEMMA LastRowSet ==
  ASSUME chain \in Seq(StageRows), NEW s \in RowStatuses, SetLast(s)
  PROVE  /\ chain' \in Seq(StageRows)
         /\ Len(chain') = Len(chain)
         /\ \A kind : HasStage(kind) => HasStage(kind)'
<1>1. Len(chain) \in Nat
  OBVIOUS
<1>2. chain' = [chain EXCEPT ![Len(chain)].status = s]
  BY DEF SetLast
<1>3. QED
  BY <1>1, <1>2, UpdatedRow, Zenon

(* A row that is appended keeps the rows' types and the rows before it. *)
LEMMA AppendedRow ==
  ASSUME chain \in Seq(StageRows), NEW kind \in Kinds, NEW s \in RowStatuses,
         chain' = Append(chain, [kind |-> kind, status |-> s])
  PROVE  /\ chain' \in Seq(StageRows)
         /\ HasStage(kind)'
         /\ \A k : HasStage(k) => HasStage(k)'
<1>1. [kind |-> kind, status |-> s] \in StageRows
  BY DEF StageRows, RowStatuses
<1>2. /\ chain' \in Seq(StageRows)
      /\ Len(chain') = Len(chain) + 1
      /\ chain'[Len(chain) + 1] = [kind |-> kind, status |-> s]
      /\ \A j \in 1..Len(chain) : chain'[j] = chain[j]
  BY <1>1
<1>3. QED
  BY <1>2 DEF HasStage

LEMMA KindNames ==
  /\ "spec" \in Kinds /\ "spec_review" \in Kinds /\ "spec_decision" \in Kinds
  /\ "awaiting_approval" \in Kinds /\ "plan" \in Kinds /\ "plan_review" \in Kinds
  /\ "implementation" \in Kinds /\ "verification" \in Kinds
  /\ "code_review" \in Kinds /\ "delivery_check" \in Kinds
<1>1. /\ STAGES[1] = "spec" /\ STAGES[2] = "spec_review" /\ STAGES[3] = "spec_decision"
      /\ STAGES[4] = "awaiting_approval" /\ STAGES[5] = "plan"
      /\ STAGES[6] = "plan_review" /\ STAGES[7] = "implementation"
      /\ STAGES[8] = "verification" /\ STAGES[9] = "code_review"
      /\ STAGES[10] = "delivery_check"
  BY DEF STAGES
<1>2. QED
  BY <1>1 DEF Kinds

-----------------------------------------------------------------------------
(* Types *)

(* The steps of each stage are steps of the run. *)
LEMMA StageSteps ==
  /\ SpecBody \subseteq Steps /\ DecisionBody \subseteq Steps
  /\ PlanBody \subseteq Steps /\ ImplementationBody \subseteq Steps
  /\ VerificationBody \subseteq Steps /\ CodeReviewBody \subseteq Steps
  /\ {"idle", "decision_start", "deliver", "abort_stage", "abort_run", "catch",
      "catch_run"} \subseteq Steps
BY DEF Steps, Bodies

LEMMA EmptyMemory == NoMemory \in Memory
<1>1. StartingCommit \in Commits
  BY DEF StartingCommit, Commits
<1>2. QED
  BY <1>1 DEF NoMemory, Memory

(* An event that has its type keeps the type of the gate events. *)
LEMMA RecordedGate ==
  ASSUME gate \in GateEvents, NEW g, NEW w, RecordGate(g, w),
         \/ g \in {"spec", "decision"} /\ w \in SpecGates
         \/ g = "plan" /\ w \in PlanDocs
         \/ g \in {"implementation", "delivery"} /\ w \in Ranges
         \/ g \in {"verification", "review"} /\ w \in Commits
  PROVE  gate' \in GateEvents
BY DEF RecordGate, GateEvents

(* The type of what a stage writes to the documents and keeps in memory. *)
LEMMA WrittenSpec ==
  ASSUME TypeOK, NEW s \in Specs, disk' = [disk EXCEPT !.spec = {s}]
  PROVE  disk' \in [spec : SUBSET Specs, plan : SUBSET PlanDocs]
BY DEF TypeOK

LEMMA WrittenPlan ==
  ASSUME TypeOK, NEW p \in PlanDocs, disk' = [disk EXCEPT !.plan = {p}]
  PROVE  disk' \in [spec : SUBSET Specs, plan : SUBSET PlanDocs]
BY DEF TypeOK

LEMMA ReadSpec ==
  ASSUME TypeOK, NEW S \in SUBSET Specs, mem' = [mem EXCEPT !.spec = S]
  PROVE  mem' \in Memory
BY DEF TypeOK, Memory

LEMMA ReadPlan ==
  ASSUME TypeOK, NEW P \in SUBSET PlanDocs, mem' = [mem EXCEPT !.plan = P]
  PROVE  mem' \in Memory
BY DEF TypeOK, Memory

LEMMA SpecTypes ==
  ASSUME TypeOK, SpecNext, UNCHANGED <<signed, envVars>>
  PROVE  TypeOK'
<1> USE DEF Goto, Return, runVars, fileVars, gitVars, envVars
<1>a. pc' \in Steps
  BY StageSteps DEF SpecNext, StartSpec, OpenSpec, DraftSpec, CritiqueSpec, CompleteSpec,
     OpenSpecReview, ReconcileSpec, PassSpecGate, CompleteSpecReview, OpenPassedDecision,
     CompletePassedDecision, RecordPassedDecision, SpecBody
<1>1. CASE StartSpec
  BY <1>1, <1>a DEF TypeOK, StartSpec
<1>2. CASE OpenSpec \/ OpenPassedDecision
  BY <1>2, <1>a, AppendedRow, KindNames
     DEF TypeOK, RowStatuses, OpenSpec, OpenPassedDecision, InsertStage
<1>3. CASE DraftSpec \/ CritiqueSpec
  <2>1. PICK s \in Specs : WriteSpec(s) /\ mem' = [mem EXCEPT !.spec = {s}]
    BY <1>3 DEF DraftSpec, CritiqueSpec
  <2>2. disk' \in [spec : SUBSET Specs, plan : SUBSET PlanDocs]
    BY <2>1, WrittenSpec DEF WriteSpec
  <2>3. mem' \in Memory
    BY <2>1, ReadSpec
  <2>4. QED
    BY <2>1, <2>2, <2>3, <1>a DEF TypeOK, WriteSpec
<1>4. CASE CompleteSpec \/ CompletePassedDecision
  BY <1>4, <1>a, LastRowSet DEF TypeOK, RowStatuses, CompleteSpec, CompletePassedDecision
<1>5. CASE OpenSpecReview
  <2>1. mem' \in Memory
    <3> DEFINE risk == {RiskOf[s] : s \in mem.spec}
    <3>1. risk \in SUBSET Risks
      BY RunConstants DEF TypeOK, Memory
    <3>2. mem' = [mem EXCEPT !.risk = risk]
      BY <1>5 DEF OpenSpecReview
    <3> HIDE DEF risk
    <3>3. QED
      BY <3>1, <3>2 DEF TypeOK, Memory
  <2>2. QED
    BY <1>5, <2>1, <1>a, AppendedRow, KindNames
       DEF TypeOK, RowStatuses, OpenSpecReview, InsertStage
<1>6. CASE ReconcileSpec
  <2>1. PICK s \in Specs, b \in BOOLEAN, asked \in SUBSET Questions :
          /\ mem' = [mem EXCEPT !.spec = {s}, !.round = @ + 1, !.blocking = @ \/ b]
          /\ answers' = [q \in Questions |-> IF q \in asked THEN "open" ELSE answers[q]]
          /\ disk' = [disk EXCEPT !.spec = {s}]
    BY <1>6 DEF ReconcileSpec
  <2>2. disk' \in [spec : SUBSET Specs, plan : SUBSET PlanDocs]
    BY <2>1, WrittenSpec
  <2>3. mem' \in Memory
    <3> DEFINE blocks == mem.blocking \/ b
    <3>1. blocks \in BOOLEAN /\ mem.round + 1 \in Nat
      BY DEF TypeOK, Memory
    <3>2. mem' = [mem EXCEPT !.spec = {s}, !.round = mem.round + 1, !.blocking = blocks]
      BY <2>1
    <3> HIDE DEF blocks
    <3>3. QED
      BY <3>1, <3>2 DEF TypeOK, Memory
  <2>4. answers' \in [Questions -> AnswerStates]
    BY <2>1 DEF TypeOK, AnswerStates
  <2>5. QED
    BY <1>6, <2>2, <2>3, <2>4, <1>a DEF TypeOK, ReconcileSpec
<1>7. CASE PassSpecGate \/ RecordPassedDecision
  <2>1. PICK s \in mem.spec, r \in mem.risk :
          \/ RecordGate("spec", [spec |-> s, risk |-> r])
             /\ reviewedSpec' = reviewedSpec \cup {s} /\ mem' = mem
          \/ RecordGate("decision", [spec |-> s, risk |-> r])
             /\ reviewedSpec' = reviewedSpec /\ mem' = NoMemory
    BY <1>7 DEF PassSpecGate, RecordPassedDecision
  <2>2. s \in Specs /\ [spec |-> s, risk |-> r] \in SpecGates
    BY DEF TypeOK, Memory, SpecGates
  <2>3. gate' \in GateEvents
    BY <2>1, <2>2, RecordedGate DEF TypeOK
  <2>4. QED
    BY <1>7, <2>1, <2>2, <2>3, <1>a, EmptyMemory
       DEF TypeOK, PassSpecGate, RecordPassedDecision
<1>8. CASE CompleteSpecReview
  BY <1>8, <1>a, LastRowSet, EmptyMemory DEF TypeOK, RowStatuses, CompleteSpecReview
<1>9. QED
  BY <1>1, <1>2, <1>3, <1>4, <1>5, <1>6, <1>7, <1>8 DEF SpecNext

LEMMA DecisionTypes ==
  ASSUME TypeOK, DecisionNext, UNCHANGED <<signed, envVars>>
  PROVE  TypeOK'
<1> USE DEF Goto, Return, runVars, fileVars, gitVars, envVars, ctlVars
<1>a. pc' \in Steps
  BY StageSteps DEF TypeOK, DecisionNext, AnswerQuestion, ObserveDecision, StartDecision,
     RefuseDecision, OpenDecision, PassAllDenied, FoldAnswers, CompleteDecision,
     RecordDecision, DecisionBody
<1>1. ASSUME NEW q \in Questions, AnswerQuestion(q) PROVE TypeOK'
  <2>1. answers' \in [Questions -> AnswerStates]
    BY <1>1 DEF AnswerQuestion, TypeOK, AnswerStates
  <2>2. QED
    BY <1>1, <2>1, <1>a DEF TypeOK, AnswerQuestion
<1>2. CASE ObserveDecision \/ PassAllDenied \/ RefuseDecision
  BY <1>2, <1>a, EmptyMemory DEF TypeOK, ObserveDecision, PassAllDenied, RefuseDecision
<1>3. CASE StartDecision
  <2>1. disk.spec \in SUBSET Specs
    BY DEF TypeOK
  <2>2. mem' \in Memory
    BY <1>3, <2>1, ReadSpec DEF StartDecision
  <2>3. QED
    BY <1>3, <2>2, <1>a DEF TypeOK, StartDecision
<1>4. CASE OpenDecision
  BY <1>4, <1>a, AppendedRow, KindNames DEF TypeOK, RowStatuses, OpenDecision, InsertStage
<1>5. CASE FoldAnswers
  <2>1. PICK s \in Specs :
          /\ disk' = [disk EXCEPT !.spec = {s}]
          /\ mem' = [mem EXCEPT !.spec = {s}]
          /\ reviewedSpec' = IF mem.spec \subseteq reviewedSpec
                               THEN reviewedSpec \cup {s} ELSE reviewedSpec
    BY <1>5 DEF FoldAnswers
  <2>2. disk' \in [spec : SUBSET Specs, plan : SUBSET PlanDocs] /\ mem' \in Memory
    BY <2>1, WrittenSpec, ReadSpec
  <2>3. reviewedSpec' \in SUBSET Specs
    BY <2>1 DEF TypeOK
  <2>4. QED
    BY <1>5, <2>2, <2>3, <1>a DEF TypeOK, FoldAnswers
<1>6. CASE CompleteDecision
  BY <1>6, <1>a, LastRowSet DEF TypeOK, RowStatuses, CompleteDecision
<1>7. CASE RecordDecision
  <2>1. PICK s \in mem.spec : RecordGate("decision", [spec |-> s, risk |-> RiskOf[s]])
    BY <1>7 DEF RecordDecision
  <2>2. [spec |-> s, risk |-> RiskOf[s]] \in SpecGates
    BY RunConstants DEF TypeOK, Memory, SpecGates
  <2>3. gate' \in GateEvents
    BY <2>1, <2>2, RecordedGate DEF TypeOK
  <2>4. QED
    BY <1>7, <2>3, <1>a, EmptyMemory DEF TypeOK, RecordDecision
<1>8. QED
  BY <1>1, <1>2, <1>3, <1>4, <1>5, <1>6, <1>7 DEF DecisionNext

LEMMA AuthorizationTypes ==
  ASSUME TypeOK, Authorization
  PROVE  TypeOK'
<1> USE DEF runVars, fileVars, gitVars, envVars, ctlVars
<1>1. Binding \subseteq Bindings
  BY RunConstants DEF Binding, Bindings, SpecGates, TypeOK
<1>2. CASE SignBinding
  BY <1>1, <1>2 DEF TypeOK, Authorization, SignBinding
<1>3. CASE Approve
  BY <1>1, <1>3, AppendedRow, KindNames DEF TypeOK, RowStatuses, Authorization, Approve
<1>4. QED
  BY <1>2, <1>3 DEF Authorization

LEMMA PlanTypes ==
  ASSUME TypeOK, PlanNext, UNCHANGED <<signed, envVars>>
  PROVE  TypeOK'
<1> USE DEF Goto, Return, runVars, fileVars, gitVars, envVars
<1>a. pc' \in Steps
  BY StageSteps DEF PlanNext, StartPlan, OpenPlan, DraftPlan, CritiquePlan, CompletePlan,
     OpenPlanReview, ReconcilePlan, PassPlanGate, CompletePlanReview, PlanBody
<1>1. CASE StartPlan
  <2>1. disk.spec \in SUBSET Specs
    BY DEF TypeOK
  <2>2. mem' \in Memory
    BY <1>1, <2>1, ReadSpec DEF StartPlan
  <2>3. QED
    BY <1>1, <2>2, <1>a DEF TypeOK, StartPlan
<1>2. CASE OpenPlan \/ OpenPlanReview
  BY <1>2, <1>a, AppendedRow, KindNames
     DEF TypeOK, RowStatuses, OpenPlan, OpenPlanReview, InsertStage
<1>3. CASE DraftPlan \/ CritiquePlan
  <2>1. PICK p \in PlanDocs :
          disk' = [disk EXCEPT !.plan = {p}] /\ mem' = [mem EXCEPT !.plan = {p}]
    BY <1>3 DEF DraftPlan, CritiquePlan, RevisePlan
  <2>2. disk' \in [spec : SUBSET Specs, plan : SUBSET PlanDocs] /\ mem' \in Memory
    BY <2>1, WrittenPlan, ReadPlan
  <2>3. QED
    BY <1>3, <2>2, <1>a DEF TypeOK, DraftPlan, CritiquePlan, RevisePlan
<1>4. CASE CompletePlan \/ CompletePlanReview
  BY <1>4, <1>a, LastRowSet, EmptyMemory
     DEF TypeOK, RowStatuses, CompletePlan, CompletePlanReview
<1>5. CASE ReconcilePlan
  <2>1. PICK p \in PlanDocs, b \in BOOLEAN :
          /\ disk' = [disk EXCEPT !.plan = {p}]
          /\ mem' = [mem EXCEPT !.plan = {p}, !.round = @ + 1, !.blocking = @ \/ b]
    BY <1>5 DEF ReconcilePlan
  <2>2. disk' \in [spec : SUBSET Specs, plan : SUBSET PlanDocs]
    BY <2>1, WrittenPlan
  <2>3. mem' \in Memory
    <3> DEFINE blocks == mem.blocking \/ b
    <3>1. blocks \in BOOLEAN /\ mem.round + 1 \in Nat
      BY DEF TypeOK, Memory
    <3>2. mem' = [mem EXCEPT !.plan = {p}, !.round = mem.round + 1, !.blocking = blocks]
      BY <2>1
    <3> HIDE DEF blocks
    <3>3. QED
      BY <3>1, <3>2 DEF TypeOK, Memory
  <2>4. QED
    BY <1>5, <2>2, <2>3, <1>a DEF TypeOK, ReconcilePlan
<1>6. CASE PassPlanGate
  <2>1. PICK p \in mem.plan : RecordGate("plan", p)
    BY <1>6 DEF PassPlanGate
  <2>2. gate' \in GateEvents
    BY <2>1, RecordedGate DEF TypeOK, Memory
  <2>3. QED
    BY <1>6, <2>2, <1>a DEF TypeOK, PassPlanGate
<1>7. QED
  BY <1>1, <1>2, <1>3, <1>4, <1>5, <1>6 DEF PlanNext

(* A commit on top of a commit, an earlier commit, and the trees they give. *)
LEMMA NewCommit ==
  ASSUME NEW c \in Commits, NEW x \in Changes PROVE Append(c, x) \in Commits
BY DEF Commits

LEMMA NewChange ==
  /\ \A by \in {"patch", "remediation", "foreign"} : Change(by) \in Changes
  /\ \A s \in Specs, p \in PlanDocs : Projections(s, p) \in Changes
BY DEF Change, Projections, Changes

LEMMA EarlierCommit ==
  ASSUME NEW c \in Commits, NEW n \in 0..(Len(c) - 1) PROVE SubSeq(c, 1, n) \in Commits
BY DEF Commits

LEMMA MovedHead ==
  ASSUME tree \in Trees, NEW h \in Commits, tree' = [tree EXCEPT !.head = h]
  PROVE  tree' \in Trees
BY DEF Trees

LEMMA TouchedTree ==
  ASSUME tree \in Trees, NEW d \in Dirt, tree' = [tree EXCEPT !.dirt = d]
  PROVE  tree' \in Trees
BY DEF Trees

(* What the steps that work on commits keep in memory. *)
LEMMA ReadCommits ==
  ASSUME mem \in Memory, NEW b \in Commits, NEW c \in Commits,
         \/ mem' = [mem EXCEPT !.base = b, !.commit = c]
         \/ mem' = [mem EXCEPT !.base = b]
         \/ mem' = [mem EXCEPT !.commit = c]
  PROVE  mem' \in Memory
BY DEF Memory

LEMMA Counted ==
  ASSUME mem \in Memory, NEW n \in Nat, mem' = [mem EXCEPT !.count = n]
  PROVE  mem' \in Memory
BY DEF Memory

LEMMA AppliedPatch ==
  ASSUME TypeOK, NEW here, NEW by \in {"patch", "remediation"}, ApplyPatch(here, by),
         UNCHANGED <<signed, envVars>>
  PROVE  TypeOK'
<1> USE DEF runVars, fileVars, envVars
<1>1. tree' \in Trees
  <2>1. tree.head \in Commits /\ Change(by) \in Changes
    BY NewChange DEF TypeOK, Trees
  <2>2. Append(tree.head, Change(by)) \in Commits
    BY <2>1, NewCommit
  <2>3. QED
    BY <2>2, MovedHead DEF ApplyPatch, TypeOK
<1>2. mem' \in Memory
  BY Counted DEF ApplyPatch, TypeOK, Memory
<1>3. QED
  BY <1>1, <1>2 DEF TypeOK, ApplyPatch

LEMMA FinishedPatches ==
  ASSUME TypeOK, NEW here, NEW done \in Steps, FinishPatches(here, done),
         UNCHANGED <<signed, envVars>>
  PROVE  TypeOK'
<1>1. mem' \in Memory
  BY ReadCommits DEF FinishPatches, TypeOK, Trees, Memory
<1>2. QED
  BY <1>1 DEF TypeOK, FinishPatches, Goto, runVars, fileVars, gitVars, envVars

LEMMA ImplementationTypes ==
  ASSUME TypeOK, ImplementationNext, UNCHANGED <<signed, envVars>>
  PROVE  TypeOK'
<1> USE DEF Goto, Return, runVars, fileVars, gitVars, envVars
<1>b. ImplementationBody \cup {"idle"} \subseteq Steps
  BY StageSteps
<1>1. CASE StartImplementation
  <2>1. mem' \in Memory
    BY <1>1 DEF StartImplementation, TypeOK, Memory
  <2>2. QED
    BY <1>1, <2>1, <1>b DEF TypeOK, StartImplementation, ImplementationBody
<1>2. CASE OpenImplementation
  BY <1>2, <1>b, AppendedRow, KindNames
     DEF TypeOK, RowStatuses, OpenImplementation, InsertStage, ImplementationBody
<1>3. CASE CreateWorktree
  <2>1. tree' \in Trees
    BY <1>3 DEF CreateWorktree, Trees, Commits, StartingCommit, Dirt
  <2>2. QED
    BY <1>3, <2>1, <1>b DEF TypeOK, CreateWorktree, ImplementationBody
<1>4. CASE CommitProjections
  <2>1. PICK s \in mem.spec, p \in mem.plan :
          tree' = [tree EXCEPT !.head = Append(@, Projections(s, p))]
    BY <1>4 DEF CommitProjections
  <2>2. tree.head \in Commits /\ Projections(s, p) \in Changes
    BY NewChange DEF TypeOK, Trees, Memory
  <2>3. Append(tree.head, Projections(s, p)) \in Commits
    BY <2>2, NewCommit
  <2>4. tree' \in Trees
    BY <2>1, <2>3, MovedHead DEF TypeOK
  <2>5. QED
    BY <1>4, <2>4, <1>b DEF TypeOK, CommitProjections, ImplementationBody
<1>5. CASE ReadBase
  <2>1. mem' \in Memory
    BY <1>5, ReadCommits DEF ReadBase, TypeOK, Trees, Memory
  <2>2. QED
    BY <1>5, <2>1, <1>b DEF TypeOK, ReadBase, ImplementationBody
<1>6. CASE FinishDispatch
  <2>1. mem' \in Memory
    BY <1>6, Counted DEF FinishDispatch, TypeOK
  <2>2. QED
    BY <1>6, <2>1, <1>b DEF TypeOK, FinishDispatch, ImplementationBody
<1>7. CASE ApplyPatch("impl_apply", "patch")
  BY <1>7, AppliedPatch
<1>8. CASE FinishPatches("impl_apply", "impl_complete")
  BY <1>8, <1>b, FinishedPatches DEF ImplementationBody
<1>9. CASE CompleteImplementation
  BY <1>9, <1>b, LastRowSet
     DEF TypeOK, RowStatuses, CompleteImplementation, ImplementationBody
<1>10. CASE RecordImplementation
  <2>1. [base |-> mem.base, head |-> mem.commit] \in Ranges
    BY DEF TypeOK, Memory, Ranges
  <2>2. gate' \in GateEvents
    BY <1>10, <2>1, RecordedGate DEF TypeOK, RecordImplementation
  <2>3. QED
    BY <1>10, <2>2, <1>b, EmptyMemory DEF TypeOK, RecordImplementation
<1>11. QED
  BY <1>1, <1>2, <1>3, <1>4, <1>5, <1>6, <1>7, <1>8, <1>9, <1>10 DEF ImplementationNext

LEMMA CheckedEntry ==
  ASSUME TypeOK, NEW here, NEW command \in Steps, NEW block \in Steps,
         CheckEntry(here, command, block), UNCHANGED <<signed, envVars>>
  PROVE  TypeOK'
<1>1. mem' \in Memory
  BY Counted DEF CheckEntry, TypeOK
<1>2. QED
  BY <1>1 DEF TypeOK, CheckEntry, Goto, runVars, fileVars, gitVars, envVars

LEMMA RanCommand ==
  ASSUME TypeOK, NEW here \in Steps, NEW done \in Steps, NEW block \in Steps,
         RunCommand(here, done, block, CommandsLeave), UNCHANGED <<signed, envVars>>
  PROVE  TypeOK'
<1>1. PICK d \in CommandsLeave \cup {tree.dirt} : tree' = [tree EXCEPT !.dirt = d]
  BY DEF RunCommand
<1>2. d \in Dirt
  BY EnvironmentConstants DEF TypeOK, Trees
<1>3. tree' \in Trees
  BY <1>1, <1>2, TouchedTree DEF TypeOK
<1>4. mem' \in Memory
  <2>1. mem' = [mem EXCEPT !.count = mem.count + 1]
    BY DEF RunCommand
  <2>2. mem \in Memory /\ mem.count + 1 \in Nat
    BY DEF TypeOK, Memory
  <2>3. QED
    BY <2>1, <2>2, Counted
<1>5. pc' \in Steps /\ verified' \in SUBSET Commits
  BY DEF RunCommand, Goto, TypeOK, Memory
<1>6. QED
  BY <1>3, <1>4, <1>5 DEF TypeOK, RunCommand, runVars, fileVars, envVars

LEMMA VerificationTypes ==
  ASSUME TypeOK, VerificationNext(CommandsLeave), UNCHANGED <<signed, envVars>>
  PROVE  TypeOK'
<1> USE DEF Goto, Return, runVars, fileVars, gitVars, envVars
<1>b. VerificationBody \cup {"idle"} \subseteq Steps
  BY StageSteps
<1>1. CASE StartVerification
  <2>1. PICK g \in gate.implementation :
          mem' = [mem EXCEPT !.base = g.base, !.commit = g.head]
    BY <1>1 DEF StartVerification
  <2>2. mem' \in Memory
    BY <2>1, ReadCommits DEF TypeOK, GateEvents, Ranges
  <2>3. QED
    BY <1>1, <2>2, <1>b DEF TypeOK, StartVerification, VerificationBody
<1>2. CASE OpenVerification
  BY <1>2, <1>b, AppendedRow, KindNames
     DEF TypeOK, RowStatuses, OpenVerification, InsertStage, VerificationBody
<1>3. CASE BeginVerification \/ CompleteVerification
  BY <1>3, <1>b, LastRowSet
     DEF TypeOK, RowStatuses, BeginVerification, CompleteVerification, VerificationBody
<1>4. CASE CheckEntry("verif_entry", "verif_command", "verif_block")
  BY <1>4, <1>b, CheckedEntry DEF VerificationBody
<1>5. CASE RunCommand("verif_command", "verif_write", "verif_block", CommandsLeave)
  BY <1>5, <1>b, RanCommand DEF VerificationBody
<1>6. CASE WriteVerification
  <2>1. [base |-> mem.base, head |-> mem.commit] \in Ranges
    BY DEF TypeOK, Memory, Ranges
  <2>2. records' \in [verification : SUBSET Ranges, review : SUBSET Ranges]
    BY <1>6, <2>1 DEF WriteVerification, TypeOK
  <2>3. QED
    BY <1>6, <2>2, <1>b DEF TypeOK, WriteVerification, VerificationBody
<1>7. CASE RecordVerification
  <2>1. gate' \in GateEvents
    BY <1>7, RecordedGate DEF TypeOK, RecordVerification, Memory
  <2>2. QED
    BY <1>7, <2>1, <1>b, EmptyMemory DEF TypeOK, RecordVerification
<1>8. QED
  BY <1>1, <1>2, <1>3, <1>4, <1>5, <1>6, <1>7 DEF VerificationNext

LEMMA CodeReviewTypes ==
  ASSUME TypeOK, CodeReviewNext(CommandsLeave), UNCHANGED <<signed, envVars>>
  PROVE  TypeOK'
<1> USE DEF Goto, Return, runVars, fileVars, gitVars, envVars
<1>b. CodeReviewBody \cup {"idle"} \subseteq Steps
  BY StageSteps
<1>1. CASE StartCodeReview
  <2>1. PICK v \in records.verification :
          mem' = [mem EXCEPT !.base = v.base, !.commit = v.head]
    BY <1>1 DEF StartCodeReview
  <2>2. mem' \in Memory
    BY <2>1, ReadCommits DEF TypeOK, Ranges
  <2>3. QED
    BY <1>1, <2>2, <1>b DEF TypeOK, StartCodeReview, CodeReviewBody
<1>2. CASE OpenCodeReview
  BY <1>2, <1>b, AppendedRow, KindNames
     DEF TypeOK, RowStatuses, OpenCodeReview, InsertStage, CodeReviewBody
<1>3. CASE BeginCodeReview \/ CompleteCodeReview
  BY <1>3, <1>b, LastRowSet
     DEF TypeOK, RowStatuses, BeginCodeReview, CompleteCodeReview, CodeReviewBody
<1>4. CASE SettlePanel
  <2>1. mem' \in Memory
    <3>1. mem' = [mem EXCEPT !.round = mem.round + 1, !.count = 0]
      BY <1>4 DEF SettlePanel
    <3>2. mem \in Memory /\ mem.round + 1 \in Nat
      BY DEF TypeOK, Memory
    <3>3. QED
      BY <3>1, <3>2 DEF Memory
  <2>2. pc' \in Steps
    BY <1>4, <1>b DEF SettlePanel, CodeReviewBody
  <2>3. reviewed' \in SUBSET Commits
    BY <1>4 DEF SettlePanel, TypeOK, Memory
  <2>4. QED
    BY <1>4, <2>1, <2>2, <2>3 DEF TypeOK, SettlePanel
<1>5. CASE FinishRemedy
  BY <1>5, <1>b DEF TypeOK, FinishRemedy, CodeReviewBody
<1>6. CASE ApplyPatch("review_apply", "remediation")
  BY <1>6, AppliedPatch
<1>7. CASE FinishPatches("review_apply", "review_entry")
  BY <1>7, <1>b, FinishedPatches DEF CodeReviewBody
<1>8. CASE CheckEntry("review_entry", "review_command", "review_block")
  BY <1>8, <1>b, CheckedEntry DEF CodeReviewBody
<1>9. CASE RunCommand("review_command", "review_panel", "review_block", CommandsLeave)
  BY <1>9, <1>b, RanCommand DEF CodeReviewBody
<1>10. CASE WriteCodeReview
  <2>1. [base |-> mem.base, head |-> mem.commit] \in Ranges
    BY DEF TypeOK, Memory, Ranges
  <2>2. records' \in [verification : SUBSET Ranges, review : SUBSET Ranges]
    BY <1>10, <2>1 DEF WriteCodeReview, TypeOK
  <2>3. QED
    BY <1>10, <2>2, <1>b DEF TypeOK, WriteCodeReview, CodeReviewBody
<1>11. CASE RecordCodeReview
  <2>1. gate' \in GateEvents
    BY <1>11, RecordedGate DEF TypeOK, RecordCodeReview, Memory
  <2>2. QED
    BY <1>11, <2>1, <1>b, EmptyMemory DEF TypeOK, RecordCodeReview
<1>12. QED
  BY <1>1, <1>2, <1>3, <1>4, <1>5, <1>6, <1>7, <1>8, <1>9, <1>10, <1>11 DEF CodeReviewNext

LEMMA DeliveryTypes ==
  ASSUME TypeOK, CheckDelivery \/ FinalizeDelivery \/ RollBackDelivery,
         UNCHANGED <<signed, envVars>>
  PROVE  TypeOK'
<1> USE DEF Goto, Return, runVars, fileVars, gitVars, envVars
<1>1. CASE CheckDelivery
  <2>1. PICK r \in records.review :
          mem' = [mem EXCEPT !.base = r.base, !.commit = r.head]
    BY <1>1 DEF CheckDelivery
  <2>2. mem' \in Memory
    BY <2>1, ReadCommits DEF TypeOK, Ranges
  <2>3. QED
    BY <1>1, <2>2, StageSteps DEF TypeOK, CheckDelivery
<1>2. CASE FinalizeDelivery
  <2>1. [base |-> mem.base, head |-> mem.commit] \in Ranges
    BY DEF TypeOK, Memory, Ranges
  <2>2. gate' \in GateEvents
    BY <1>2, <2>1, RecordedGate DEF TypeOK, FinalizeDelivery
  <2>3. chain' \in Seq(StageRows)
    BY <1>2, AppendedRow, KindNames DEF FinalizeDelivery, TypeOK, RowStatuses
  <2>4. QED
    BY <1>2, <2>2, <2>3, StageSteps, EmptyMemory DEF TypeOK, FinalizeDelivery
<1>3. CASE RollBackDelivery
  BY <1>3, StageSteps, EmptyMemory DEF TypeOK, RollBackDelivery
<1>4. QED
  BY <1>1, <1>2, <1>3

LEMMA FailureTypes == ASSUME TypeOK, Failure PROVE TypeOK'
<1> USE DEF Goto, Return, runVars, fileVars, gitVars, envVars
<1>1. CASE AbortStage \/ CatchStage
  BY <1>1, StageSteps, LastRowSet DEF TypeOK, RowStatuses, AbortStage, CatchStage
<1>2. CASE Abort \/ BlockRun \/ Throw \/ CatchFails
  BY <1>2, StageSteps, EmptyMemory DEF TypeOK, Abort, BlockRun, Throw, CatchFails
<1>3. QED
  BY <1>1, <1>2 DEF Failure

LEMMA EnvironmentTypes == ASSUME TypeOK, Environment PROVE TypeOK'
<1> USE DEF Edit, Return, runVars, fileVars, gitVars, ctlVars
<1>1. CASE Crash
  BY <1>1, StageSteps, EmptyMemory DEF TypeOK, Crash
<1>2. CASE EditSpec \/ EditPlan
  <2>1. disk' \in [spec : SUBSET Specs, plan : SUBSET PlanDocs]
    BY <1>2 DEF TypeOK, EditSpec, EditPlan
  <2>2. QED
    BY <1>2, <2>1 DEF TypeOK, EditSpec, EditPlan
<1>3. CASE MoveBranch
  <2>1. PICK h \in {Append(tree.head, Change("foreign"))}
                      \cup {SubSeq(tree.head, 1, n) : n \in 0..(Len(tree.head) - 1)} :
          tree' = [tree EXCEPT !.head = h]
    BY <1>3 DEF MoveBranch
  <2>2. tree.head \in Commits /\ Change("foreign") \in Changes
    BY NewChange DEF TypeOK, Trees
  <2>3. h \in Commits
    BY <2>2, NewCommit, EarlierCommit
  <2>4. tree' \in Trees
    BY <2>1, <2>3, MovedHead DEF TypeOK
  <2>5. QED
    BY <1>3, <2>4 DEF TypeOK, MoveBranch
<1>4. CASE TouchWorktree
  BY <1>4, TouchedTree DEF TypeOK, TouchWorktree
<1>5. CASE StageAdd \/ StageComplete
  <2>1. chain' \in Seq(StageRows)
    <3>1. ASSUME StageAdd PROVE chain' \in Seq(StageRows)
      BY <3>1, AppendedRow DEF StageAdd, InsertStage, TypeOK, RowStatuses
    <3>2. ASSUME StageComplete PROVE chain' \in Seq(StageRows)
      <4>1. PICK i \in DOMAIN chain, s \in {"passed", "blocked"} :
              chain' = [chain EXCEPT ![i].status = s]
        BY <3>2 DEF StageComplete
      <4>2. i \in Nat /\ s \in RowStatuses
        BY DEF TypeOK, RowStatuses
      <4>3. QED
        BY <4>1, <4>2, UpdatedRow DEF TypeOK
    <3>3. QED
      BY <1>5, <3>1, <3>2
  <2>2. QED
    BY <1>5, <2>1 DEF TypeOK, StageAdd, StageComplete
<1>6. QED
  BY <1>1, <1>2, <1>3, <1>4, <1>5 DEF Environment

(* The tables, files, branch and control state of a run keep their types,   *)
(* whatever specifications, plans, rounds, commands and edits there are.    *)
THEOREM RunTypes == Spec => []TypeOK
<1>1. Init => TypeOK
  <2> SUFFICES ASSUME Init PROVE TypeOK
    OBVIOUS
  <2>1. gate \in GateEvents
    BY DEF Init, NoGates, GateEvents
  <2>2. tree \in Trees /\ StartingCommit \in Commits
    BY DEF Init, Trees, Commits, StartingCommit, Dirt
  <2>3. answers \in [Questions -> AnswerStates] /\ chain \in Seq(StageRows)
    BY DEF Init, AnswerStates
  <2>4. pc \in Steps /\ mem \in Memory
    BY EmptyMemory, StageSteps DEF Init
  <2>5. /\ disk \in [spec : SUBSET Specs, plan : SUBSET PlanDocs]
        /\ records \in [verification : SUBSET Ranges, review : SUBSET Ranges]
    BY DEF Init
  <2>6. QED
    BY <2>1, <2>2, <2>3, <2>4, <2>5 DEF Init, TypeOK
<1>2. TypeOK /\ [Next]_vars => TypeOK'
  <2> SUFFICES ASSUME TypeOK, [Next]_vars PROVE TypeOK'
    OBVIOUS
  <2>1. CASE Stage
    BY <2>1, SpecTypes, DecisionTypes, PlanTypes, ImplementationTypes, VerificationTypes,
       CodeReviewTypes, DeliveryTypes DEF Stage
  <2>2. CASE UNCHANGED vars
    BY <2>2 DEF vars, TypeOK, runVars, ctlVars, fileVars, gitVars, envVars
  <2>3. QED
    BY <2>1, <2>2, AuthorizationTypes, FailureTypes, EnvironmentTypes DEF Next
<1>3. QED
  BY <1>1, <1>2, PTL DEF Spec

-----------------------------------------------------------------------------
(***************************************************************************)
(* What a completed run delivered, for every value of the constants: the   *)
(* evidence that the gates and records of a run stand for is there when    *)
(* they are written, and it is never taken back.                           *)
(***************************************************************************)
(* A running invocation works on a run that is in progress. *)
RunningIsOpen == pc # "idle" => status = "in_progress"

OnBase(b) == \E g \in gate.implementation : g.base = b

(* The implementation gate is recorded once, by the stage that has the row. *)
ImplementedOnce ==
  /\ gate.implementation # {} => HasStage("implementation")
  /\ pc \in ImplementationBody => gate.implementation = {}
  /\ pc \in ImplementationBody \ {"impl_open"} => HasStage("implementation")

(* What the verification stage knows, and what its record stands for. *)
VerificationEvidence ==
  /\ pc \in VerificationBody => OnBase(mem.base)
  /\ pc \in {"verif_write", "verif_complete", "verif_record"} => mem.commit \in verified
  /\ \A v \in records.verification : v.head \in verified /\ OnBase(v.base)

(* What the code review knows, and what its record stands for. *)
ReviewEvidence ==
  /\ pc \in CodeReviewBody => OnBase(mem.base)
  /\ pc \in {"review_open", "review_begin", "review_panel", "review_write",
             "review_complete", "review_record"} => mem.commit \in verified
  /\ pc \in {"review_write", "review_complete", "review_record"} =>
       mem.commit \in reviewed /\ mem.commit # mem.base
  /\ \A r \in records.review :
       r.head \in verified \cap reviewed /\ OnBase(r.base) /\ r.base # r.head

(* What the delivery checks have established when the transaction begins. *)
DeliveryEvidence ==
  pc = "deliver" =>
    /\ approval # {}
    /\ OnBase(mem.base)
    /\ mem.commit \in verified \cap reviewed
    /\ IsStrictPrefix(mem.base, mem.commit)

(* The inductive invariant. *)
Evidence ==
  /\ RunningIsOpen
  /\ approval \subseteq signed
  /\ ImplementedOnce
  /\ VerificationEvidence
  /\ ReviewEvidence
  /\ DeliveryEvidence
  /\ DeliveredAsApproved

-----------------------------------------------------------------------------
(* A gate event changes no other gate's. *)
LEMMA OtherGates ==
  ASSUME gate \in GateEvents, NEW g \in GateNames, NEW w, RecordGate(g, w)
  PROVE  \A h \in GateNames : gate'[h] = IF h = g THEN {w} ELSE gate[h]
BY DEF RecordGate, GateEvents, GateNames

LEMMA OtherFields ==
  ASSUME gate \in GateEvents, NEW g \in GateNames, NEW w, RecordGate(g, w)
  PROVE  /\ gate'.implementation = IF g = "implementation" THEN {w} ELSE gate.implementation
         /\ gate'.delivery = IF g = "delivery" THEN {w} ELSE gate.delivery
BY DEF RecordGate, GateEvents, GateNames

(* Rows are only appended, and their kinds never change. *)
LEMMA RowsStay ==
  ASSUME TypeOK,
         \/ \E s \in RowStatuses : SetLast(s)
         \/ \E kind \in Kinds, s \in RowStatuses :
              chain' = Append(chain, [kind |-> kind, status |-> s])
         \/ chain' = chain
  PROVE  \A k : HasStage(k) => HasStage(k)'
<1>1. ASSUME NEW s \in RowStatuses, SetLast(s) PROVE \A k : HasStage(k) => HasStage(k)'
  BY <1>1, LastRowSet DEF TypeOK
<1>2. ASSUME NEW kind \in Kinds, NEW s \in RowStatuses,
             chain' = Append(chain, [kind |-> kind, status |-> s])
      PROVE \A k : HasStage(k) => HasStage(k)'
  BY <1>2, AppendedRow DEF TypeOK
<1>3. ASSUME chain' = chain PROVE \A k : HasStage(k) => HasStage(k)'
  BY <1>3 DEF HasStage
<1>4. QED
  BY <1>1, <1>2, <1>3

(* A step that neither adds to what the evidence is about nor takes from it. *)
Untouched ==
  /\ UNCHANGED <<approval, records>>
  /\ verified \subseteq verified' /\ reviewed \subseteq reviewed'
  /\ signed \subseteq signed'
  /\ gate'.implementation = gate.implementation /\ gate'.delivery = gate.delivery
  /\ HasStage("implementation") => HasStage("implementation")'

(* Before the implementation there is nothing to deliver. *)
LEMMA EarlySteps ==
  ASSUME TypeOK, RunningIsOpen, SpecNext \/ DecisionNext \/ PlanNext,
         UNCHANGED <<signed, envVars>>
  PROVE  /\ Untouched /\ UNCHANGED <<status, verified, reviewed>>
         /\ status = "in_progress"
         /\ pc' \in SpecBody \cup DecisionBody \cup PlanBody
                     \cup {"idle", "decision_start", "abort_stage"}
<1> USE DEF Untouched, Goto, Return, runVars, fileVars, gitVars, ctlVars
<1>1. CASE SpecNext
  <2> USE DEF StartSpec, OpenSpec, DraftSpec, CritiqueSpec, CompleteSpec, OpenSpecReview,
          ReconcileSpec, PassSpecGate, CompleteSpecReview, OpenPassedDecision,
          CompletePassedDecision, RecordPassedDecision
  <2>1. /\ status = "in_progress"
        /\ pc' \in SpecBody \cup {"idle"}
        /\ UNCHANGED <<status, approval, verified, reviewed>>
    BY <1>1 DEF SpecNext, RunningIsOpen, SpecBody, WriteSpec
  <2>2. UNCHANGED records
    BY <1>1 DEF SpecNext, WriteSpec
  <2>3. gate'.implementation = gate.implementation /\ gate'.delivery = gate.delivery
    <3>1. \/ gate' = gate
          \/ \E g \in {"spec", "decision"}, w \in SpecGates : RecordGate(g, w)
      BY <1>1 DEF SpecNext, WriteSpec, TypeOK, Memory, SpecGates
    <3>2. QED
      BY <3>1, OtherFields DEF TypeOK, GateNames
  <2>4. HasStage("implementation") => HasStage("implementation")'
    <3>1. \/ chain' = chain \/ SetLast("passed")
          \/ \E k \in {"spec", "spec_review", "spec_decision"} : InsertStage(k)
      BY <1>1 DEF SpecNext, WriteSpec
    <3>2. QED
      BY <3>1, RowsStay, KindNames DEF InsertStage, RowStatuses
  <2>5. QED
    BY <2>1, <2>2, <2>3, <2>4
<1>2. CASE DecisionNext
  <2> USE DEF AnswerQuestion, ObserveDecision, StartDecision, RefuseDecision, OpenDecision,
          PassAllDenied, FoldAnswers, CompleteDecision, RecordDecision
  <2>1. /\ status = "in_progress"
        /\ pc' \in DecisionBody \cup {"idle", "decision_start"}
        /\ UNCHANGED <<status, approval, verified, reviewed>>
    BY <1>2 DEF DecisionNext, RunningIsOpen, DecisionBody
  <2>2. UNCHANGED records
    BY <1>2 DEF DecisionNext
  <2>3. gate'.implementation = gate.implementation /\ gate'.delivery = gate.delivery
    <3>1. gate' = gate \/ \E w : RecordGate("decision", w)
      BY <1>2 DEF DecisionNext
    <3>2. QED
      BY <3>1, OtherFields DEF TypeOK, GateNames
  <2>4. HasStage("implementation") => HasStage("implementation")'
    <3>1. chain' = chain \/ SetLast("passed") \/ InsertStage("spec_decision")
      BY <1>2 DEF DecisionNext
    <3>2. QED
      BY <3>1, RowsStay, KindNames DEF InsertStage, RowStatuses
  <2>5. QED
    BY <2>1, <2>2, <2>3, <2>4
<1>3. CASE PlanNext
  <2> USE DEF StartPlan, OpenPlan, DraftPlan, CritiquePlan, RevisePlan, CompletePlan,
          OpenPlanReview, ReconcilePlan, PassPlanGate, CompletePlanReview
  <2>1. /\ status = "in_progress"
        /\ pc' \in PlanBody \cup {"idle", "abort_stage"}
        /\ UNCHANGED <<status, approval, verified, reviewed>>
    BY <1>3 DEF PlanNext, RunningIsOpen, PlanBody, MayStart
  <2>2. UNCHANGED records
    BY <1>3 DEF PlanNext
  <2>3. gate'.implementation = gate.implementation /\ gate'.delivery = gate.delivery
    <3>1. gate' = gate \/ \E w : RecordGate("plan", w)
      BY <1>3 DEF PlanNext
    <3>2. QED
      BY <3>1, OtherFields DEF TypeOK, GateNames
  <2>4. HasStage("implementation") => HasStage("implementation")'
    <3>1. \/ chain' = chain \/ SetLast("passed")
          \/ InsertStage("plan") \/ InsertStage("plan_review")
      BY <1>3 DEF PlanNext
    <3>2. QED
      BY <3>1, RowsStay, KindNames DEF InsertStage, RowStatuses
  <2>5. QED
    BY <2>1, <2>2, <2>3, <2>4
<1>4. QED
  BY <1>1, <1>2, <1>3

(* The steps at which the evidence asks nothing of the invocation. *)
Quiet == SpecBody \cup DecisionBody \cup PlanBody
           \cup {"idle", "decision_start", "abort_stage", "abort_run", "catch", "catch_run"}

LEMMA QuietIsQuiet ==
  \A s \in Quiet : /\ s \notin ImplementationBody
                   /\ s \notin VerificationBody /\ s \notin CodeReviewBody
                   /\ s # "deliver"
BY DEF Quiet, SpecBody, DecisionBody, PlanBody, ImplementationBody, VerificationBody,
       CodeReviewBody

(* The delivery of a closed run stands as long as nothing is taken back. *)
LEMMA DeliveryStands ==
  ASSUME DeliveredAsApproved, Untouched, status' = "completed" => status = "completed"
  PROVE  DeliveredAsApproved'
BY DEF DeliveredAsApproved, Untouched

LEMMA RecordsStand ==
  ASSUME Untouched
  PROVE  /\ \A b : OnBase(b) => OnBase(b)'
         /\ (\A v \in records.verification : v.head \in verified /\ OnBase(v.base)) =>
            (\A v \in records.verification : v.head \in verified /\ OnBase(v.base))'
         /\ (\A r \in records.review :
               r.head \in verified \cap reviewed /\ OnBase(r.base) /\ r.base # r.head) =>
            (\A r \in records.review :
               r.head \in verified \cap reviewed /\ OnBase(r.base) /\ r.base # r.head)'
BY DEF Untouched, OnBase

LEMMA QuietStep ==
  ASSUME Evidence, Untouched, pc' \in Quiet, RunningIsOpen',
         status' = "completed" => status = "completed"
  PROVE  Evidence'
<1>1. /\ pc' \notin ImplementationBody /\ pc' \notin VerificationBody
      /\ pc' \notin CodeReviewBody /\ pc' # "deliver"
  BY QuietIsQuiet
<1>2. ImplementedOnce'
  BY <1>1 DEF Evidence, ImplementedOnce, Untouched
<1>3. VerificationEvidence'
  BY <1>1, RecordsStand DEF Evidence, VerificationEvidence, VerificationBody
<1>4. ReviewEvidence'
  BY <1>1, RecordsStand DEF Evidence, ReviewEvidence, CodeReviewBody
<1>5. DeliveryEvidence' /\ DeliveredAsApproved'
  BY <1>1, DeliveryStands DEF Evidence, DeliveryEvidence
<1>6. QED
  BY <1>2, <1>3, <1>4, <1>5 DEF Evidence, Untouched

(* A step of somebody else, while the invocation stays where it is. *)
LEMMA OutsideStep ==
  ASSUME Evidence, Untouched, UNCHANGED <<status, pc, mem>>
  PROVE  Evidence'
<1>1. ImplementedOnce'
  BY DEF Evidence, ImplementedOnce, Untouched
<1>2. VerificationEvidence'
  BY RecordsStand DEF Evidence, VerificationEvidence, Untouched
<1>3. ReviewEvidence'
  BY RecordsStand DEF Evidence, ReviewEvidence, Untouched
<1>4. DeliveryEvidence'
  BY RecordsStand DEF Evidence, DeliveryEvidence, Untouched
<1>5. DeliveredAsApproved' /\ RunningIsOpen'
  BY DeliveryStands DEF Evidence, RunningIsOpen
<1>6. QED
  BY <1>1, <1>2, <1>3, <1>4, <1>5 DEF Evidence, Untouched

LEMMA EarlyEvidence ==
  ASSUME TypeOK, Evidence, SpecNext \/ DecisionNext \/ PlanNext, UNCHANGED <<signed, envVars>>
  PROVE  Evidence'
<1>1. /\ Untouched /\ status' = status /\ status = "in_progress" /\ pc' \in Quiet
  BY EarlySteps DEF Evidence, Quiet
<1>2. QED
  BY <1>1, QuietStep DEF RunningIsOpen

LEMMA FailureEvidence ==
  ASSUME TypeOK, Evidence, Failure
  PROVE  Evidence'
<1> USE DEF Goto, Return, runVars, fileVars, gitVars, ctlVars
<1>1. pc # "idle"
  BY DEF Failure, Abort, AbortStage, BlockRun, Throw, CatchStage, CatchFails, Aborts, Bodies,
     SpecAborts, DecisionAborts, PlanAborts, ImplementationAborts, VerificationAborts,
     CodeReviewAborts, SpecBody, DecisionBody, PlanBody, ImplementationBody,
     VerificationBody, CodeReviewBody
<1>2. /\ pc' \in Quiet
      /\ status' = status \/ (status' = "blocked" /\ pc' = "idle")
  BY DEF Failure, Abort, AbortStage, BlockRun, Throw, CatchStage, CatchFails, Quiet
<1>3. RunningIsOpen'
  BY <1>1, <1>2 DEF Evidence, RunningIsOpen
<1>4. HasStage("implementation") => HasStage("implementation")'
  <2>1. chain' = chain \/ SetLast("blocked")
    BY DEF Failure, Abort, AbortStage, BlockRun, Throw, CatchStage, CatchFails
  <2>2. QED
    BY <2>1, RowsStay DEF RowStatuses
<1>5. Untouched
  BY <1>4 DEF Untouched, Failure, Abort, AbortStage, BlockRun, Throw, CatchStage, CatchFails
<1>6. QED
  BY <1>2, <1>3, <1>5, QuietStep

LEMMA EnvironmentEvidence ==
  ASSUME TypeOK, Evidence, Environment
  PROVE  Evidence'
<1> USE DEF Return, runVars, fileVars, gitVars, ctlVars
<1>1. CASE Crash
  <2>1. Untouched /\ status' = status /\ pc' = "idle"
    BY <1>1, RowsStay DEF Crash, Untouched
  <2>2. QED
    BY <2>1, QuietStep DEF Quiet, RunningIsOpen
<1>2. CASE EditSpec \/ EditPlan \/ MoveBranch \/ TouchWorktree
  <2>1. Untouched /\ UNCHANGED <<status, pc, mem>>
    BY <1>2, RowsStay DEF EditSpec, EditPlan, MoveBranch, TouchWorktree, Untouched, TypeOK
  <2>2. QED
    BY <2>1, OutsideStep
<1>3. CASE StageAdd \/ StageComplete
  <2>1. HasStage("implementation") => HasStage("implementation")'
    <3>1. ASSUME StageAdd PROVE HasStage("implementation") => HasStage("implementation")'
      BY <3>1, RowsStay DEF StageAdd, InsertStage, RowStatuses
    <3>2. ASSUME NEW i \in DOMAIN chain, NEW s \in {"passed", "blocked"},
                 chain' = [chain EXCEPT ![i].status = s]
          PROVE  HasStage("implementation") => HasStage("implementation")'
      <4>1. i \in Nat /\ s \in RowStatuses
        BY DEF TypeOK, RowStatuses
      <4>2. QED
        BY <3>2, <4>1, UpdatedRow DEF TypeOK
    <3>3. QED
      BY <1>3, <3>1, <3>2 DEF StageComplete
  <2>2. Untouched /\ UNCHANGED <<status, pc, mem>>
    BY <1>3, <2>1 DEF StageAdd, StageComplete, Untouched
  <2>3. QED
    BY <2>2, OutsideStep
<1>4. QED
  BY <1>1, <1>2, <1>3 DEF Environment

-----------------------------------------------------------------------------
(* The implementation *)

LEMMA StepsApart ==
  /\ \A s \in ImplementationBody : /\ s \notin VerificationBody /\ s \notin CodeReviewBody
                                   /\ s # "deliver" /\ s # "idle"
  /\ \A s \in VerificationBody : /\ s \notin ImplementationBody /\ s \notin CodeReviewBody
                                 /\ s # "deliver" /\ s # "idle"
  /\ \A s \in CodeReviewBody : /\ s \notin ImplementationBody /\ s \notin VerificationBody
                               /\ s # "deliver" /\ s # "idle"
BY DEF ImplementationBody, VerificationBody, CodeReviewBody

LEMMA ImplementationEvidence ==
  ASSUME TypeOK, Evidence, ImplementationNext, UNCHANGED <<signed, envVars>>
  PROVE  Evidence'
<1> USE DEF Goto, Return, runVars, fileVars, gitVars, ctlVars
<1> USE DEF StartImplementation, OpenImplementation, CreateWorktree, CommitProjections,
        ReadBase, FinishDispatch, ApplyPatch, FinishPatches, CompleteImplementation
<1>1. CASE RecordImplementation
  <2>1. /\ pc' = "idle" /\ UNCHANGED <<status, chain, approval, records, verified, reviewed>>
        /\ pc = "impl_record" /\ status = "in_progress"
    BY <1>1 DEF RecordImplementation, Evidence, RunningIsOpen
  <2>2. HasStage("implementation") /\ gate.implementation = {}
    BY <2>1 DEF Evidence, ImplementedOnce, ImplementationBody
  <2>3. \A b : ~OnBase(b)
    BY <2>2 DEF OnBase
  <2>4. records.verification = {} /\ records.review = {}
    BY <2>3 DEF Evidence, VerificationEvidence, ReviewEvidence, TypeOK
  <2>5. ImplementedOnce'
    BY <2>1, <2>2 DEF ImplementedOnce, ImplementationBody, HasStage
  <2>6. VerificationEvidence' /\ ReviewEvidence' /\ DeliveryEvidence'
    BY <2>1, <2>4 DEF VerificationEvidence, ReviewEvidence, DeliveryEvidence,
       VerificationBody, CodeReviewBody
  <2>7. RunningIsOpen' /\ DeliveredAsApproved'
    BY <2>1 DEF RunningIsOpen, DeliveredAsApproved
  <2>8. QED
    BY <2>1, <2>5, <2>6, <2>7 DEF Evidence
<1>2. CASE ~RecordImplementation
  <2>1. /\ pc' \in ImplementationBody
        /\ status = "in_progress"
        /\ UNCHANGED <<status, approval, records, verified, reviewed, gate>>
    BY <1>2 DEF ImplementationNext, ImplementationBody, MayStart, Evidence, RunningIsOpen
  <2>2. \A k : HasStage(k) => HasStage(k)'
    <3>1. chain' = chain \/ SetLast("passed") \/ InsertStage("implementation")
      BY <1>2 DEF ImplementationNext
    <3>2. QED
      BY <3>1, RowsStay, KindNames DEF InsertStage, RowStatuses
  <2>3. Untouched
    BY <2>1, <2>2 DEF Untouched
  <2>4. ImplementedOnce'
    <3>1. gate.implementation = {}
      BY <1>2 DEF ImplementationNext, ImplementationBody, MayStart, Evidence, ImplementedOnce
    <3>2. pc' # "impl_open" => HasStage("implementation")'
      <4>1. CASE OpenImplementation
        BY <4>1, AppendedRow, KindNames DEF InsertStage, TypeOK, RowStatuses
      <4>2. CASE StartImplementation
        BY <4>2
      <4>3. CASE pc \in ImplementationBody \ {"impl_open"}
        BY <2>2, <4>3 DEF Evidence, ImplementedOnce
      <4>4. QED
        BY <1>2, <4>1, <4>2, <4>3 DEF ImplementationNext, ImplementationBody
    <3>3. QED
      BY <2>1, <3>1, <3>2 DEF ImplementedOnce
  <2>5. VerificationEvidence'
    BY <2>1, <2>3, StepsApart, RecordsStand
       DEF Evidence, VerificationEvidence, VerificationBody
  <2>6. ReviewEvidence'
    BY <2>1, <2>3, StepsApart, RecordsStand DEF Evidence, ReviewEvidence, CodeReviewBody
  <2>7. DeliveryEvidence' /\ DeliveredAsApproved' /\ RunningIsOpen'
    BY <2>1, <2>3, StepsApart, DeliveryStands DEF Evidence, DeliveryEvidence, RunningIsOpen
  <2>8. QED
    BY <2>1, <2>4, <2>5, <2>6, <2>7 DEF Evidence
<1>3. QED
  BY <1>1, <1>2

-----------------------------------------------------------------------------
(* Verification *)

(* What a step of an open run owes, apart from its own stage's evidence. *)
LEMMA OpenStep ==
  ASSUME Evidence, status = "in_progress", status' = status,
         approval' = approval, signed \subseteq signed',
         gate'.implementation = gate.implementation,
         HasStage("implementation") => HasStage("implementation")',
         pc' \notin ImplementationBody
  PROVE  /\ RunningIsOpen' /\ (approval \subseteq signed)'
         /\ ImplementedOnce' /\ DeliveredAsApproved'
         /\ \A b : OnBase(b) <=> OnBase(b)'
BY DEF Evidence, RunningIsOpen, ImplementedOnce, DeliveredAsApproved, OnBase

LEMMA VerificationFrame ==
  ASSUME TypeOK, Evidence, VerificationNext(CommandsLeave), UNCHANGED <<signed, envVars>>
  PROVE  /\ status = "in_progress" /\ status' = status
         /\ approval' = approval /\ signed \subseteq signed'
         /\ gate'.implementation = gate.implementation
         /\ HasStage("implementation") => HasStage("implementation")'
         /\ pc' \in VerificationBody \cup {"idle"}
         /\ records'.review = records.review
         /\ verified \subseteq verified' /\ reviewed' = reviewed
<1> USE DEF Goto, Return, runVars, fileVars, gitVars, StartVerification, OpenVerification,
        BeginVerification, CheckEntry, RunCommand, WriteVerification, CompleteVerification,
        RecordVerification
<1>1. /\ status = "in_progress" /\ status' = status
      /\ approval' = approval /\ signed \subseteq signed'
      /\ pc' \in VerificationBody \cup {"idle"}
  BY DEF VerificationNext, VerificationBody, MayStart, Evidence, RunningIsOpen
<1>2. records'.review = records.review /\ verified \subseteq verified' /\ reviewed' = reviewed
  BY DEF VerificationNext, TypeOK
<1>3. gate'.implementation = gate.implementation
  <2>1. gate' = gate \/ \E w : RecordGate("verification", w)
    BY DEF VerificationNext
  <2>2. QED
    BY <2>1, OtherFields DEF TypeOK, GateNames
<1>4. HasStage("implementation") => HasStage("implementation")'
  <2>1. \/ chain' = chain \/ SetLast("passed") \/ SetLast("in_progress")
        \/ InsertStage("verification")
    BY DEF VerificationNext
  <2>2. QED
    BY <2>1, RowsStay, KindNames DEF InsertStage, RowStatuses
<1>5. QED
  BY <1>1, <1>2, <1>3, <1>4

LEMMA VerificationStepEvidence ==
  ASSUME TypeOK, Evidence, VerificationNext(CommandsLeave), UNCHANGED <<signed, envVars>>
  PROVE  Evidence'
<1> USE DEF Goto, Return, runVars, fileVars, gitVars
<1>1. /\ RunningIsOpen' /\ (approval \subseteq signed)'
      /\ ImplementedOnce' /\ DeliveredAsApproved'
      /\ \A b : OnBase(b) <=> OnBase(b)'
  BY VerificationFrame, OpenStep, StepsApart DEF ImplementationBody
<1>2. ReviewEvidence' /\ DeliveryEvidence'
  BY <1>1, VerificationFrame, StepsApart
     DEF Evidence, ReviewEvidence, DeliveryEvidence, CodeReviewBody
<1>3. VerificationEvidence'
  <2>1. pc' \in VerificationBody => OnBase(mem'.base)
    <3>1. CASE StartVerification
      BY <3>1 DEF StartVerification, OnBase, TypeOK, Memory
    <3>2. CASE pc \in VerificationBody /\ mem' \in Memory /\ mem'.base = mem.base
      BY <3>2 DEF Evidence, VerificationEvidence
    <3>3. CASE pc' = "idle"
      BY <3>3, StepsApart
    <3>4. QED
      BY <3>1, <3>2, <3>3, VerificationTypes
         DEF VerificationNext, VerificationBody, OpenVerification, BeginVerification,
         CheckEntry, RunCommand, WriteVerification, CompleteVerification, RecordVerification,
         TypeOK, Memory
  <2>2. pc' \in {"verif_write", "verif_complete", "verif_record"} => mem'.commit \in verified'
    <3>1. CASE RunCommand("verif_command", "verif_write", "verif_block", CommandsLeave)
      <4>1. pc' = "verif_write" => mem.commit \in verified'
        BY <3>1 DEF RunCommand
      <4>2. mem'.commit = mem.commit
        BY <3>1 DEF RunCommand, TypeOK, Memory
      <4>3. pc' \in {"verif_write", "verif_block", "verif_command"}
        BY <3>1 DEF RunCommand
      <4>4. QED
        BY <4>1, <4>2, <4>3
    <3>2. CASE WriteVerification \/ CompleteVerification
      BY <3>2 DEF WriteVerification, CompleteVerification, Evidence, VerificationEvidence
    <3>3. CASE \/ StartVerification \/ OpenVerification \/ BeginVerification
               \/ CheckEntry("verif_entry", "verif_command", "verif_block")
               \/ RecordVerification
      BY <3>3 DEF StartVerification, OpenVerification, BeginVerification, CheckEntry,
         RecordVerification
    <3>4. QED
      BY <3>1, <3>2, <3>3 DEF VerificationNext
  <2>3. \A v \in records'.verification : v.head \in verified' /\ OnBase(v.base)
    <3>1. CASE WriteVerification
      BY <3>1 DEF WriteVerification, TypeOK, Evidence, VerificationEvidence, VerificationBody
    <3>2. CASE records' = records
      BY <3>2, VerificationFrame DEF Evidence, VerificationEvidence
    <3>3. QED
      BY <3>1, <3>2 DEF VerificationNext, StartVerification, OpenVerification,
         BeginVerification, CheckEntry, RunCommand, CompleteVerification, RecordVerification
  <2>4. QED
    BY <1>1, <2>1, <2>2, <2>3 DEF VerificationEvidence
<1>4. QED
  BY <1>1, <1>2, <1>3 DEF Evidence

-----------------------------------------------------------------------------
(* Code review *)

LEMMA CodeReviewFrame ==
  ASSUME TypeOK, Evidence, CodeReviewNext(CommandsLeave), UNCHANGED <<signed, envVars>>
  PROVE  /\ status = "in_progress" /\ status' = status
         /\ approval' = approval /\ signed \subseteq signed'
         /\ gate'.implementation = gate.implementation
         /\ HasStage("implementation") => HasStage("implementation")'
         /\ pc' \in CodeReviewBody \cup {"idle"}
         /\ records'.verification = records.verification
         /\ verified \subseteq verified' /\ reviewed \subseteq reviewed'
<1> USE DEF Goto, Return, runVars, fileVars, gitVars, StartCodeReview, OpenCodeReview,
        BeginCodeReview, SettlePanel, FinishRemedy, ApplyPatch, FinishPatches, CheckEntry,
        RunCommand, WriteCodeReview, CompleteCodeReview, RecordCodeReview
<1>1. status = "in_progress" /\ pc' \in CodeReviewBody \cup {"idle"}
  BY DEF CodeReviewNext, CodeReviewBody, MayStart, Evidence, RunningIsOpen
<1>2. status' = status /\ approval' = approval /\ signed \subseteq signed'
  BY DEF CodeReviewNext
<1>3. /\ records'.verification = records.verification
      /\ verified \subseteq verified' /\ reviewed \subseteq reviewed'
  BY DEF CodeReviewNext, TypeOK
<1>4. gate'.implementation = gate.implementation
  <2>1. gate' = gate \/ \E w : RecordGate("review", w)
    BY DEF CodeReviewNext
  <2>2. QED
    BY <2>1, OtherFields DEF TypeOK, GateNames
<1>5. HasStage("implementation") => HasStage("implementation")'
  <2>1. \/ chain' = chain \/ SetLast("passed") \/ SetLast("in_progress")
        \/ InsertStage("code_review")
    BY DEF CodeReviewNext
  <2>2. QED
    BY <2>1, RowsStay, KindNames DEF InsertStage, RowStatuses
<1>6. QED
  BY <1>1, <1>2, <1>3, <1>4, <1>5

(* How each step of the review moves and what it keeps in memory. *)
LEMMA CodeReviewMemory ==
  ASSUME TypeOK, Evidence, CodeReviewNext(CommandsLeave)
  PROVE  \/ \E v \in records.verification :
              /\ pc' = "review_open"
              /\ mem'.base = v.base /\ mem'.commit = v.head
         \/ /\ pc \in CodeReviewBody
            /\ mem'.base = mem.base
            /\ \/ FinishPatches("review_apply", "review_entry")
               \/ mem'.commit = mem.commit
         \/ pc' = "idle"
<1> USE DEF Goto, Return, CodeReviewBody, TypeOK, Memory
<1>1. CASE StartCodeReview
  BY <1>1 DEF StartCodeReview
<1>2. CASE RecordCodeReview
  BY <1>2 DEF RecordCodeReview
<1>3. CASE OpenCodeReview \/ BeginCodeReview \/ FinishRemedy \/ WriteCodeReview
             \/ CompleteCodeReview
  BY <1>3 DEF OpenCodeReview, BeginCodeReview, FinishRemedy, WriteCodeReview,
     CompleteCodeReview
<1>4. CASE SettlePanel
  BY <1>4 DEF SettlePanel
<1>5. CASE ApplyPatch("review_apply", "remediation")
  BY <1>5 DEF ApplyPatch
<1>6. CASE FinishPatches("review_apply", "review_entry")
  BY <1>6 DEF FinishPatches
<1>7. CASE CheckEntry("review_entry", "review_command", "review_block")
  BY <1>7 DEF CheckEntry
<1>8. CASE RunCommand("review_command", "review_panel", "review_block", CommandsLeave)
  BY <1>8 DEF RunCommand
<1>9. QED
  BY <1>1, <1>2, <1>3, <1>4, <1>5, <1>6, <1>7, <1>8 DEF CodeReviewNext

LEMMA CodeReviewStepEvidence ==
  ASSUME TypeOK, Evidence, CodeReviewNext(CommandsLeave), UNCHANGED <<signed, envVars>>
  PROVE  Evidence'
<1> USE DEF Goto, Return, runVars, fileVars, gitVars
<1>1. /\ RunningIsOpen' /\ (approval \subseteq signed)'
      /\ ImplementedOnce' /\ DeliveredAsApproved'
      /\ \A b : OnBase(b) <=> OnBase(b)'
  BY CodeReviewFrame, OpenStep, StepsApart DEF ImplementationBody
<1>2. VerificationEvidence' /\ DeliveryEvidence'
  BY <1>1, CodeReviewFrame, StepsApart
     DEF Evidence, VerificationEvidence, DeliveryEvidence, VerificationBody
<1>3. ReviewEvidence'
  <2>1. pc' \in CodeReviewBody => OnBase(mem'.base)
    BY CodeReviewMemory, StepsApart DEF Evidence, VerificationEvidence, ReviewEvidence
  <2>2. pc' \in {"review_open", "review_begin", "review_panel", "review_write",
                 "review_complete", "review_record"} => mem'.commit \in verified'
    <3>1. CASE RunCommand("review_command", "review_panel", "review_block", CommandsLeave)
      <4>1. pc' = "review_panel" => mem.commit \in verified'
        BY <3>1 DEF RunCommand
      <4>2. mem'.commit = mem.commit
        BY <3>1 DEF RunCommand, TypeOK, Memory
      <4>3. pc' \in {"review_panel", "review_block", "review_command"}
        BY <3>1 DEF RunCommand
      <4>4. QED
        BY <4>1, <4>2, <4>3
    <3>2. CASE StartCodeReview
      BY <3>2, CodeReviewFrame DEF StartCodeReview, Evidence, VerificationEvidence,
         TypeOK, Memory
    <3>3. CASE OpenCodeReview \/ BeginCodeReview \/ WriteCodeReview \/ CompleteCodeReview
      BY <3>3 DEF OpenCodeReview, BeginCodeReview, WriteCodeReview, CompleteCodeReview,
         Evidence, ReviewEvidence
    <3>4. CASE SettlePanel
      BY <3>4 DEF SettlePanel, Evidence, ReviewEvidence, TypeOK, Memory
    <3>5. CASE \/ FinishRemedy \/ ApplyPatch("review_apply", "remediation")
               \/ FinishPatches("review_apply", "review_entry")
               \/ CheckEntry("review_entry", "review_command", "review_block")
               \/ RecordCodeReview
      BY <3>5 DEF FinishRemedy, ApplyPatch, FinishPatches, CheckEntry, RecordCodeReview
    <3>6. QED
      BY <3>1, <3>2, <3>3, <3>4, <3>5 DEF CodeReviewNext
  <2>3. pc' \in {"review_write", "review_complete", "review_record"} =>
          mem'.commit \in reviewed' /\ mem'.commit # mem'.base
    <3>1. CASE SettlePanel
      BY <3>1 DEF SettlePanel, TypeOK, Memory
    <3>2. CASE WriteCodeReview \/ CompleteCodeReview
      BY <3>2 DEF WriteCodeReview, CompleteCodeReview, Evidence, ReviewEvidence
    <3>3. CASE ~SettlePanel /\ ~WriteCodeReview /\ ~CompleteCodeReview
      BY <3>3 DEF CodeReviewNext, StartCodeReview, OpenCodeReview, BeginCodeReview,
         FinishRemedy, ApplyPatch, FinishPatches, CheckEntry, RunCommand, RecordCodeReview
    <3>4. QED
      BY <3>1, <3>2, <3>3
  <2>4. \A r \in records'.review :
          r.head \in (verified \cap reviewed)' /\ OnBase(r.base) /\ r.base # r.head
    <3>1. CASE WriteCodeReview
      <4>1. records'.review = {[base |-> mem.base, head |-> mem.commit]}
        BY <3>1 DEF WriteCodeReview, TypeOK
      <4>2. /\ mem.commit \in verified \cap reviewed /\ mem.base # mem.commit
            /\ OnBase(mem.base)
        BY <3>1 DEF WriteCodeReview, Evidence, ReviewEvidence, CodeReviewBody
      <4>3. QED
        BY <4>1, <4>2, CodeReviewFrame
    <3>2. CASE records' = records
      BY <3>2, CodeReviewFrame DEF Evidence, ReviewEvidence
    <3>3. QED
      BY <3>1, <3>2 DEF CodeReviewNext, StartCodeReview, OpenCodeReview, BeginCodeReview,
         SettlePanel, FinishRemedy, ApplyPatch, FinishPatches, CheckEntry, RunCommand,
         CompleteCodeReview, RecordCodeReview
  <2>5. QED
    BY <1>1, <2>1, <2>2, <2>3, <2>4 DEF ReviewEvidence
<1>4. QED
  BY <1>1, <1>2, <1>3 DEF Evidence

-----------------------------------------------------------------------------
(* Delivery and authorization *)

LEMMA CheckEvidence ==
  ASSUME TypeOK, Evidence, CheckDelivery, UNCHANGED <<signed, envVars>>
  PROVE  Evidence'
<1> USE DEF Goto, runVars, fileVars, gitVars
<1>1. /\ status = "in_progress" /\ pc' = "deliver" /\ approval # {}
      /\ UNCHANGED <<status, chain, gate, approval, records, verified, reviewed>>
  BY DEF CheckDelivery, MayStart
<1>2. PICK r \in records.review :
        BranchAgrees(r) /\ mem' = [mem EXCEPT !.base = r.base, !.commit = r.head]
  BY DEF CheckDelivery
<1>3. mem'.base = r.base /\ mem'.commit = r.head
  BY <1>2 DEF TypeOK, Memory
<1>4. DeliveryEvidence'
  BY <1>1, <1>2, <1>3
     DEF DeliveryEvidence, Evidence, ReviewEvidence, BranchAgrees, IsStrictPrefix, OnBase
<1>5. /\ RunningIsOpen' /\ (approval \subseteq signed)'
      /\ ImplementedOnce' /\ DeliveredAsApproved' /\ \A b : OnBase(b) <=> OnBase(b)'
  BY <1>1, OpenStep DEF ImplementationBody, HasStage
<1>6. VerificationEvidence' /\ ReviewEvidence'
  BY <1>1, <1>5 DEF Evidence, VerificationEvidence, ReviewEvidence, VerificationBody,
     CodeReviewBody
<1>7. QED
  BY <1>4, <1>5, <1>6 DEF Evidence

LEMMA FinalizeEvidence ==
  ASSUME TypeOK, Evidence, FinalizeDelivery, UNCHANGED <<signed, envVars>>
  PROVE  Evidence'
<1> USE DEF Return, fileVars, gitVars
<1>1. /\ pc = "deliver" /\ pc' = "idle"
      /\ UNCHANGED <<approval, records, verified, reviewed>>
  BY DEF FinalizeDelivery
<1>2. gate'.implementation = gate.implementation
  <2>1. gate' = gate \/ \E w : RecordGate("delivery", w)
    BY DEF FinalizeDelivery
  <2>2. QED
    BY <2>1, OtherFields DEF TypeOK, GateNames
<1>3. HasStage("implementation") => HasStage("implementation")'
  BY RowsStay, KindNames DEF FinalizeDelivery, RowStatuses
<1>4. DeliveredAsApproved'
  <2>1. CASE status' = "completed"
    <3>1. RecordGate("delivery", [base |-> mem.base, head |-> mem.commit])
      BY <2>1 DEF FinalizeDelivery
    <3>2. gate'.delivery = {[base |-> mem.base, head |-> mem.commit]}
      BY <3>1, OtherFields DEF TypeOK, GateNames
    <3>3. PICK g \in gate.implementation : g.base = mem.base
      BY <1>1 DEF Evidence, DeliveryEvidence, OnBase
    <3>4. /\ mem.commit \in verified \cap reviewed
          /\ IsStrictPrefix(mem.base, mem.commit)
          /\ approval # {} /\ approval \subseteq signed
      BY <1>1 DEF Evidence, DeliveryEvidence
    <3> DEFINE d == [base |-> mem.base, head |-> mem.commit]
    <3>5. d.base = mem.base /\ d.head = mem.commit
      OBVIOUS
    <3>6. d \in gate'.delivery /\ g \in gate'.implementation
      BY <1>2, <3>2
    <3> HIDE DEF d
    <3>7. QED
      BY <1>1, <3>3, <3>4, <3>5, <3>6 DEF DeliveredAsApproved
  <2>2. CASE status' # "completed"
    BY <2>2 DEF DeliveredAsApproved
  <2>3. QED
    BY <2>1, <2>2
<1>5. ImplementedOnce' /\ DeliveryEvidence' /\ RunningIsOpen'
  BY <1>1, <1>2, <1>3
     DEF Evidence, ImplementedOnce, DeliveryEvidence, RunningIsOpen, ImplementationBody
<1>6. VerificationEvidence' /\ ReviewEvidence'
  BY <1>1, <1>2 DEF Evidence, VerificationEvidence, ReviewEvidence, VerificationBody,
     CodeReviewBody, OnBase
<1>7. QED
  BY <1>1, <1>4, <1>5, <1>6 DEF Evidence

LEMMA RollBackEvidence ==
  ASSUME TypeOK, Evidence, RollBackDelivery, UNCHANGED <<signed, envVars>>
  PROVE  Evidence'
<1>1. Untouched /\ status' = status /\ pc' = "idle"
  BY DEF RollBackDelivery, Untouched, Return, runVars, fileVars, gitVars, HasStage
<1>2. QED
  BY <1>1, QuietStep DEF Quiet, RunningIsOpen

LEMMA AuthorizationEvidence ==
  ASSUME TypeOK, Evidence, Authorization
  PROVE  Evidence'
<1> USE DEF runVars, ctlVars, fileVars, gitVars
<1>1. CASE SignBinding
  <2>1. Untouched /\ UNCHANGED <<status, pc, mem>>
    BY <1>1 DEF Authorization, SignBinding, Untouched, HasStage
  <2>2. QED
    BY <2>1, OutsideStep
<1>2. CASE Approve
  <2>1. /\ status = "in_progress" /\ pc = "idle" /\ approval' \subseteq signed'
        /\ UNCHANGED <<status, gate, pc, mem, records, verified, reviewed, signed>>
    BY <1>2 DEF Approve, BindingIsOffered, MayStart
  <2>2. HasStage("implementation") => HasStage("implementation")'
    BY <1>2, RowsStay, KindNames DEF Approve, RowStatuses
  <2>3. RunningIsOpen' /\ ImplementedOnce' /\ DeliveredAsApproved' /\ DeliveryEvidence'
    BY <2>1, <2>2 DEF Evidence, RunningIsOpen, ImplementedOnce, DeliveredAsApproved,
       DeliveryEvidence, ImplementationBody
  <2>4. VerificationEvidence' /\ ReviewEvidence'
    BY <2>1 DEF Evidence, VerificationEvidence, ReviewEvidence, OnBase
  <2>5. QED
    BY <2>1, <2>3, <2>4 DEF Evidence
<1>3. QED
  BY <1>1, <1>2 DEF Authorization

-----------------------------------------------------------------------------
LEMMA EvidenceInvariant == Spec => []Evidence
<1>1. Init => Evidence
  BY DEF Init, Evidence, RunningIsOpen, ImplementedOnce, VerificationEvidence,
     ReviewEvidence, DeliveryEvidence, DeliveredAsApproved, NoGates, ImplementationBody,
     VerificationBody, CodeReviewBody
<1>2. TypeOK /\ Evidence /\ [Next]_vars => Evidence'
  <2> SUFFICES ASSUME TypeOK, Evidence, [Next]_vars PROVE Evidence'
    OBVIOUS
  <2>1. CASE Stage
    BY <2>1, EarlyEvidence, ImplementationEvidence, VerificationStepEvidence,
       CodeReviewStepEvidence, CheckEvidence, FinalizeEvidence, RollBackEvidence DEF Stage
  <2>2. CASE UNCHANGED vars
    <3>1. Untouched /\ UNCHANGED <<status, pc, mem>>
      BY <2>2 DEF vars, runVars, ctlVars, fileVars, gitVars, Untouched, HasStage
    <3>2. QED
      BY <3>1, OutsideStep
  <2>3. QED
    BY <2>1, <2>2, AuthorizationEvidence, FailureEvidence, EnvironmentEvidence DEF Next
<1>3. QED
  BY <1>1, <1>2, RunTypes, PTL DEF Spec

(* A completed run delivered a commit that every frozen command passed at and *)
(* that a whole panel reviewed without blocking, on the base implementation   *)
(* recorded, under a signed approval: for every number of rounds, commands,   *)
(* patches, edits, kills and manual commands, and whatever the commands leave *)
(* in the worktree.                                                           *)
THEOREM DeliveryHolds == Spec => []DeliveredAsApproved
<1>1. Evidence => DeliveredAsApproved
  BY DEF Evidence
<1>2. QED
  BY <1>1, EvidenceInvariant, PTL

-----------------------------------------------------------------------------
(* On a run that is closed no invocation is at work, so what can still happen *)
(* happens around it.                                                         *)
LEMMA ClosedStep ==
  ASSUME TypeOK, RunningIsOpen, status # "in_progress", [Next]_vars
  PROVE  UNCHANGED <<status, gate, approval, answers>> /\ Len(chain') = Len(chain)
<1> USE DEF runVars, fileVars, gitVars, ctlVars
<1>1. pc = "idle"
  BY DEF RunningIsOpen
<1>2. ~Stage
  <2>1. ~SpecNext
    BY <1>1 DEF SpecNext, StartSpec, OpenSpec, DraftSpec, CritiqueSpec, CompleteSpec,
       OpenSpecReview, ReconcileSpec, PassSpecGate, CompleteSpecReview, OpenPassedDecision,
       CompletePassedDecision, RecordPassedDecision
  <2>2. ~DecisionNext
    BY <1>1 DEF DecisionNext, AnswerQuestion, ObserveDecision, StartDecision,
       RefuseDecision, OpenDecision, PassAllDenied, FoldAnswers, CompleteDecision,
       RecordDecision
  <2>3. ~PlanNext
    BY <1>1 DEF PlanNext, StartPlan, MayStart, OpenPlan, DraftPlan, CritiquePlan,
       CompletePlan, OpenPlanReview, ReconcilePlan, PassPlanGate, CompletePlanReview
  <2>4. ~ImplementationNext
    BY <1>1 DEF ImplementationNext, StartImplementation, MayStart, OpenImplementation,
       CreateWorktree, CommitProjections, ReadBase, FinishDispatch, ApplyPatch,
       FinishPatches, CompleteImplementation, RecordImplementation
  <2>5. ~VerificationNext(CommandsLeave)
    BY <1>1 DEF VerificationNext, StartVerification, MayStart, OpenVerification,
       BeginVerification, CheckEntry, RunCommand, WriteVerification, CompleteVerification,
       RecordVerification
  <2>6. ~CodeReviewNext(CommandsLeave)
    BY <1>1 DEF CodeReviewNext, StartCodeReview, MayStart, OpenCodeReview, BeginCodeReview,
       SettlePanel, FinishRemedy, ApplyPatch, FinishPatches, CheckEntry, RunCommand,
       WriteCodeReview, CompleteCodeReview, RecordCodeReview
  <2>7. ~CheckDelivery /\ ~FinalizeDelivery /\ ~RollBackDelivery
    BY <1>1 DEF CheckDelivery, MayStart, FinalizeDelivery, RollBackDelivery
  <2>8. QED
    BY <2>1, <2>2, <2>3, <2>4, <2>5, <2>6, <2>7 DEF Stage
<1>3. ~Authorization /\ ~Crash /\ ~StageAdd
  BY <1>1 DEF Authorization, SignBinding, Approve, BindingIsOffered, MayStart, Crash, StageAdd
<1>4. ~Failure
  BY <1>1 DEF Failure, Abort, AbortStage, BlockRun, Throw, CatchStage, CatchFails, Aborts,
     Bodies, SpecAborts, DecisionAborts, PlanAborts, ImplementationAborts,
     VerificationAborts, CodeReviewAborts, SpecBody, DecisionBody, PlanBody,
     ImplementationBody, VerificationBody, CodeReviewBody
<1>5. CASE EditSpec \/ EditPlan \/ MoveBranch \/ TouchWorktree
  BY <1>5 DEF EditSpec, EditPlan, MoveBranch, TouchWorktree
<1>6. CASE StageComplete
  <2>1. PICK i \in DOMAIN chain, s \in {"passed", "blocked"} :
          chain' = [chain EXCEPT ![i].status = s]
    BY <1>6 DEF StageComplete
  <2>2. i \in Nat /\ s \in RowStatuses
    BY DEF TypeOK, RowStatuses
  <2>3. Len(chain') = Len(chain)
    BY <2>1, <2>2, UpdatedRow DEF TypeOK
  <2>4. QED
    BY <1>6, <2>3 DEF StageComplete
<1>7. CASE UNCHANGED vars
  BY <1>7 DEF vars
<1>8. QED
  BY <1>2, <1>3, <1>4, <1>5, <1>6, <1>7 DEF Next, Environment

(* Nothing reopens or rewrites a closed run: the outcome, every gate event, the *)
(* approval and the answers stay, and no row is added.                          *)
THEOREM ClosedRunHolds == Spec => ClosedRunIsFrozen
<1>1. TypeOK /\ Evidence /\ [Next]_vars =>
        [status # "in_progress" =>
           UNCHANGED <<status, gate, approval, answers>> /\ Len(chain') = Len(chain)]_vars
  BY ClosedStep DEF Evidence
<1>2. QED
  BY <1>1, RunTypes, EvidenceInvariant, PTL DEF Spec, ClosedRunIsFrozen

-----------------------------------------------------------------------------
(* How a run's gates follow each other: each is passed once, in the order the *)
(* run promises, under the approval of the document the decision gate         *)
(* recorded.                                                                  *)

(* The steps that lead up to a gate: those before the gate's row is inserted, *)
(* and those after it.                                                        *)
Opens == [spec |-> {"spec_open"},
          decision |-> {"spec_review_complete", "spec_decision_open",
                        "decision_start", "decision_open"},
          plan |-> {"plan_open"},
          implementation |-> {"impl_open"},
          verification |-> {"verif_open"},
          review |-> {"review_open"},
          delivery |-> {"deliver"}]

Draws == [spec |-> {"spec_draft", "spec_critique", "spec_complete", "spec_review_open",
                    "spec_round", "spec_gate"},
          decision |-> {"spec_decision_complete", "spec_decision_record", "decision_fold",
                        "decision_complete", "decision_record"},
          plan |-> PlanBody \ {"plan_open", "plan_review_complete"},
          implementation |-> ImplementationBody \ {"impl_open"},
          verification |-> VerificationBody \ {"verif_open"},
          review |-> CodeReviewBody \ {"review_open"},
          delivery |-> {}]

Group(g) == Opens[g] \cup Draws[g]

(* The row whose presence says that the group has begun. *)
RowOf == [spec |-> "spec", decision |-> "spec_decision", plan |-> "plan",
          implementation |-> "implementation", verification |-> "verification",
          review |-> "code_review", delivery |-> "delivery_check"]

Prior == [spec |-> {}, decision |-> {"spec"}, plan |-> {"decision"},
          implementation |-> {"plan"}, verification |-> {"implementation"},
          review |-> {"verification"}, delivery |-> {"review"}]

PriorPassed(g) == \A h \in Prior[g] : gate[h] # {}

(* A gate that has passed has its row and the gate before it; one that a     *)
(* running group leads up to has not passed, although the one before it has. *)
GateDue(g) ==
  /\ gate[g] # {} => HasStage(RowOf[g]) /\ PriorPassed(g)
  /\ pc \in Group(g) => gate[g] = {} /\ PriorPassed(g)
  /\ pc \in Draws[g] => HasStage(RowOf[g])

ApprovalDue ==
  /\ approval # {} => HasStage("awaiting_approval") /\ approval = gate.decision
  /\ gate.plan # {} \/ pc \in Group("plan") => approval # {}

OneEach == \A g \in GateNames : gate[g] = {} \/ \E w : gate[g] = {w}

(* The inductive invariant. *)
GatesDue ==
  /\ \A g \in GateNames : GateDue(g)
  /\ ApprovalDue
  /\ OneEach

-----------------------------------------------------------------------------
(* What a step of the run does to its gates, whatever else it does. *)

RowsKept == \A k : HasStage(k) => HasStage(k)'

(* It begins no group, and inserts the row of one it goes on with. *)
Moves(g) ==
  /\ pc' \in Group(g) => pc \in Group(g)
  /\ pc' \in Draws[g] => pc \in Draws[g] \/ HasStage(RowOf[g])'

KeepsGates ==
  /\ UNCHANGED <<gate, approval>>
  /\ RowsKept
  /\ \A g \in GateNames : Moves(g)
  /\ status' = status \/ (status = "in_progress" /\ status' = "blocked")

(* It begins a group that no command has begun before. *)
BeginsGroup(g) ==
  /\ UNCHANGED <<status, gate, approval>>
  /\ RowsKept
  /\ pc' \in Opens[g]
  /\ ~HasStage(RowOf[g])
  /\ PriorPassed(g)
  /\ g = "plan" => approval # {}

(* It passes the gate that its group leads up to. *)
PassesGate(g) ==
  /\ pc \in Group(g)
  /\ \E w : RecordGate(g, w)
  /\ UNCHANGED approval
  /\ RowsKept /\ HasStage(RowOf[g])'
  /\ status = "in_progress"
  /\ status' = IF g = "delivery" THEN "completed" ELSE status
  /\ \/ \A h \in GateNames : pc' \notin Group(h)
     \/ g = "spec" /\ pc' \in Opens["decision"]

(* It approves the run. *)
Approves ==
  /\ status = "in_progress"
  /\ UNCHANGED <<status, gate, pc>>
  /\ RowsKept
  /\ ~HasStage("awaiting_approval") /\ HasStage("awaiting_approval")'
  /\ gate.decision # {}
  /\ approval' = gate.decision

GateStep ==
  \/ KeepsGates
  \/ \E g \in GateNames : BeginsGroup(g)
  \/ \E g \in GateNames : PassesGate(g)
  \/ Approves

-----------------------------------------------------------------------------
(* The tables, gate by gate. *)

LEMMA GroupTable ==
  /\ Opens["spec"] = {"spec_open"}
  /\ Opens["decision"] = {"spec_review_complete", "spec_decision_open", "decision_start",
                          "decision_open"}
  /\ Opens["plan"] = {"plan_open"} /\ Opens["implementation"] = {"impl_open"}
  /\ Opens["verification"] = {"verif_open"} /\ Opens["review"] = {"review_open"}
  /\ Opens["delivery"] = {"deliver"}
  /\ Draws["spec"] = {"spec_draft", "spec_critique", "spec_complete", "spec_review_open",
                      "spec_round", "spec_gate"}
  /\ Draws["decision"] = {"spec_decision_complete", "spec_decision_record", "decision_fold",
                          "decision_complete", "decision_record"}
  /\ Draws["plan"] = {"plan_draft", "plan_critique", "plan_complete", "plan_review_open",
                      "plan_round", "plan_gate"}
  /\ Draws["implementation"] = {"impl_worktree", "impl_project", "impl_base",
                                "impl_dispatch", "impl_apply", "impl_complete", "impl_record"}
  /\ Draws["verification"] = {"verif_begin", "verif_entry", "verif_command", "verif_write",
                              "verif_complete", "verif_record", "verif_block"}
  /\ Draws["review"] = {"review_begin", "review_panel", "review_remedy", "review_apply",
                        "review_entry", "review_command", "review_write", "review_complete",
                        "review_record", "review_block"}
  /\ Draws["delivery"] = {}
BY DEF Opens, Draws, PlanBody, ImplementationBody, VerificationBody, CodeReviewBody

LEMMA RowTable ==
  /\ RowOf["spec"] = "spec" /\ RowOf["decision"] = "spec_decision"
  /\ RowOf["plan"] = "plan" /\ RowOf["implementation"] = "implementation"
  /\ RowOf["verification"] = "verification" /\ RowOf["review"] = "code_review"
  /\ RowOf["delivery"] = "delivery_check"
  /\ Prior["spec"] = {} /\ Prior["decision"] = {"spec"} /\ Prior["plan"] = {"decision"}
  /\ Prior["implementation"] = {"plan"} /\ Prior["verification"] = {"implementation"}
  /\ Prior["review"] = {"verification"} /\ Prior["delivery"] = {"review"}
BY DEF RowOf, Prior

LEMMA PriorNames == \A g \in GateNames : Prior[g] \subseteq GateNames
BY RowTable DEF GateNames

(* No step is in two groups, and outside of the stages there is none. *)
LEMMA GroupsApart ==
  /\ \A g, h \in GateNames : g # h => Group(g) \cap Group(h) = {}
  /\ \A s \in {"idle", "plan_review_complete", "abort_stage", "abort_run", "catch",
               "catch_run"} : \A g \in GateNames : s \notin Group(g)
<1>1. \A g \in GateNames : \A s \in Group(g) :
        g = IF s \in Group("spec") THEN "spec"
            ELSE IF s \in Group("decision") THEN "decision"
            ELSE IF s \in Group("plan") THEN "plan"
            ELSE IF s \in Group("implementation") THEN "implementation"
            ELSE IF s \in Group("verification") THEN "verification"
            ELSE IF s \in Group("review") THEN "review" ELSE "delivery"
  BY GroupTable DEF Group, GateNames
<1>2. QED
  BY <1>1, GroupTable DEF Group, GateNames

LEMMA OutsideGroups ==
  ASSUME pc' \in {"idle", "plan_review_complete", "abort_stage", "abort_run", "catch",
                  "catch_run"}
  PROVE  \A g \in GateNames : Moves(g)
BY GroupsApart DEF Moves, Group

LEMMA InsideGroup ==
  ASSUME NEW g \in GateNames, pc \in Group(g), pc' \in Group(g),
         pc' \in Draws[g] => pc \in Draws[g] \/ HasStage(RowOf[g])'
  PROVE  \A h \in GateNames : Moves(h)
BY GroupsApart DEF Moves, Group

LEMMA OpensApart == \A g \in GateNames : Opens[g] \cap Draws[g] = {}
BY GroupTable DEF GateNames

LEMMA SameStep == ASSUME pc' = pc PROVE \A g \in GateNames : Moves(g)
BY DEF Moves
-----------------------------------------------------------------------------
(* Every kind of step preserves the invariant. *)

LEMMA KeepsDue == ASSUME GatesDue, KeepsGates PROVE GatesDue'
<1>1. ASSUME NEW g \in GateNames PROVE GateDue(g)'
  BY <1>1 DEF GatesDue, GateDue, KeepsGates, RowsKept, Moves, PriorPassed
<1>2. ApprovalDue'
  <2>1. Moves("plan")
    BY DEF KeepsGates, GateNames
  <2>2. QED
    BY <2>1 DEF GatesDue, ApprovalDue, KeepsGates, RowsKept, Moves
<1>3. OneEach'
  BY DEF GatesDue, OneEach, KeepsGates
<1>4. QED
  BY <1>1, <1>2, <1>3 DEF GatesDue

LEMMA BeginsDue == ASSUME GatesDue, NEW g \in GateNames, BeginsGroup(g) PROVE GatesDue'
<1>1. pc' \in Group(g)
  BY DEF BeginsGroup, Group
<1>2. ASSUME NEW h \in GateNames PROVE GateDue(h)'
  <2>1. (gate[h] # {} => HasStage(RowOf[h]) /\ PriorPassed(h))'
    BY DEF GatesDue, GateDue, BeginsGroup, RowsKept, PriorPassed
  <2>2. pc' \in Group(h) => h = g
    BY <1>1, GroupsApart
  <2>3. pc' \in Group(h) => (gate[h] = {} /\ PriorPassed(h))'
    BY <2>2 DEF GatesDue, GateDue, BeginsGroup, PriorPassed
  <2>4. pc' \notin Draws[h]
    BY <2>2, OpensApart DEF BeginsGroup, Group
  <2>5. QED
    BY <2>1, <2>3, <2>4 DEF GateDue
<1>3. ApprovalDue'
  <2>1. pc' \in Group("plan") => g = "plan"
    BY <1>1, GroupsApart DEF GateNames
  <2>2. QED
    BY <2>1 DEF GatesDue, ApprovalDue, BeginsGroup, RowsKept
<1>4. OneEach'
  BY DEF GatesDue, OneEach, BeginsGroup
<1>5. QED
  BY <1>2, <1>3, <1>4 DEF GatesDue

LEMMA PassesDue ==
  ASSUME TypeOK, GatesDue, NEW g \in GateNames, PassesGate(g)
  PROVE  GatesDue'
<1>1. PICK w : RecordGate(g, w)
  BY DEF PassesGate
<1>2. \A h \in GateNames : gate'[h] = IF h = g THEN {w} ELSE gate[h]
  BY <1>1, OtherGates DEF TypeOK
<1>3. gate[g] = {} /\ PriorPassed(g)
  BY DEF PassesGate, GatesDue, GateDue
<1>4. \A h \in GateNames : PriorPassed(h) => PriorPassed(h)'
  BY <1>2, PriorNames DEF PriorPassed
<1>5. ASSUME NEW h \in GateNames PROVE GateDue(h)'
  <2>1. (gate[h] # {} => HasStage(RowOf[h]) /\ PriorPassed(h))'
    BY <1>2, <1>3, <1>4 DEF GatesDue, GateDue, PassesGate, RowsKept
  <2>2. CASE pc' \notin Group(h)
    BY <2>1, <2>2 DEF GateDue, Group
  <2>3. CASE pc' \in Group(h)
    <3>1. g = "spec" /\ h = "decision" /\ pc' \in Opens["decision"]
      BY <2>3, GroupsApart DEF PassesGate, Group, GateNames
    <3>2. gate["decision"] = {}
      BY <1>3, <3>1, RowTable DEF GatesDue, GateDue, PriorPassed
    <3>3. gate'["decision"] = {} /\ gate'["spec"] = {w}
      BY <1>2, <3>1, <3>2
    <3>4. pc' \notin Draws["decision"]
      BY <3>1, OpensApart
    <3>5. QED
      BY <2>1, <3>1, <3>3, <3>4, RowTable DEF GateDue, PriorPassed
  <2>4. QED
    BY <2>2, <2>3
<1>6. ApprovalDue'
  <2>1. g = "decision" => approval = {}
    BY <1>3 DEF GatesDue, ApprovalDue
  <2>2. gate'["decision"] = IF g = "decision" THEN {w} ELSE gate["decision"]
    BY <1>2 DEF GateNames
  <2>3. gate'["plan"] = IF g = "plan" THEN {w} ELSE gate["plan"]
    BY <1>2 DEF GateNames
  <2>4. pc' \notin Group("plan")
    BY GroupsApart DEF PassesGate, Group, GateNames
  <2>5. QED
    BY <2>1, <2>2, <2>3, <2>4 DEF PassesGate, RowsKept, GatesDue, ApprovalDue
<1>7. OneEach'
  BY <1>2 DEF GatesDue, OneEach
<1>8. QED
  BY <1>5, <1>6, <1>7 DEF GatesDue

LEMMA ApprovesDue == ASSUME GatesDue, Approves PROVE GatesDue'
<1>1. ASSUME NEW g \in GateNames PROVE GateDue(g)'
  BY <1>1 DEF GatesDue, GateDue, Approves, RowsKept, PriorPassed
<1>2. ApprovalDue' /\ OneEach'
  BY DEF GatesDue, ApprovalDue, OneEach, Approves
<1>3. QED
  BY <1>1, <1>2 DEF GatesDue

LEMMA StepDue == ASSUME TypeOK, GatesDue, GateStep PROVE GatesDue'
BY KeepsDue, BeginsDue, PassesDue, ApprovesDue DEF GateStep

-----------------------------------------------------------------------------
(* The steps of each stage are of those kinds. *)

(* A step inside a group that leaves the gates and the approval alone. *)
LEMMA GroupKeeps ==
  ASSUME NEW g \in GateNames, pc \in Group(g), pc' \in Group(g),
         pc' \in Draws[g] => pc \in Draws[g] \/ HasStage(RowOf[g])',
         RowsKept, UNCHANGED <<status, gate, approval>>
  PROVE  KeepsGates
BY InsideGroup DEF KeepsGates

LEMMA ReturnKeeps ==
  ASSUME pc' \in {"idle", "plan_review_complete", "abort_stage", "abort_run", "catch",
                  "catch_run"},
         RowsKept, UNCHANGED <<gate, approval>>,
         status' = status \/ (status = "in_progress" /\ status' = "blocked")
  PROVE  KeepsGates
BY OutsideGroups DEF KeepsGates

LEMMA RowInserted ==
  ASSUME TypeOK, NEW kind \in Kinds, InsertStage(kind)
  PROVE  RowsKept /\ HasStage(kind)'
BY AppendedRow DEF InsertStage, TypeOK, RowStatuses, RowsKept

LEMMA RowSet ==
  ASSUME TypeOK, NEW s \in RowStatuses, SetLast(s)
  PROVE  RowsKept
BY LastRowSet DEF TypeOK, RowsKept

LEMMA RowsSame == ASSUME chain' = chain PROVE RowsKept
BY DEF RowsKept, HasStage

(* The last step of a group, which passes its gate and returns. *)
LEMMA RecordPasses ==
  ASSUME GatesDue, NEW g \in GateNames \ {"delivery"}, NEW w, pc \in Draws[g],
         RecordGate(g, w), UNCHANGED <<status, chain, approval>>, status = "in_progress",
         \/ pc' \in {"idle", "plan_review_complete"}
         \/ g = "spec" /\ pc' \in Opens["decision"]
  PROVE  GateStep
<1>1. RowsKept /\ HasStage(RowOf[g])'
  BY RowsSame DEF GatesDue, GateDue, RowsKept
<1>2. \/ \A h \in GateNames : pc' \notin Group(h)
      \/ g = "spec" /\ pc' \in Opens["decision"]
  BY GroupsApart
<1>3. PassesGate(g)
  BY <1>1, <1>2 DEF PassesGate, Group
<1>4. QED
  BY <1>3 DEF GateStep

LEMMA SpecGateStep ==
  ASSUME TypeOK, RunningIsOpen, GatesDue, SpecNext
  PROVE  GateStep
<1> USE GroupTable, RowTable DEF Goto, Return, runVars, fileVars, gitVars, GateNames, Group
<1>1. CASE StartSpec
  <2>1. ~HasStage("spec") /\ RowsKept
    BY <1>1, RowsSame DEF StartSpec, HasStage
  <2>2. BeginsGroup("spec")
    BY <1>1, <2>1 DEF StartSpec, BeginsGroup, PriorPassed
  <2>3. QED
    BY <2>2 DEF GateStep
<1>2. CASE OpenSpec
  <2>1. RowsKept /\ HasStage("spec")'
    BY <1>2, RowInserted, KindNames DEF OpenSpec
  <2>2. KeepsGates
    BY <1>2, <2>1, GroupKeeps DEF OpenSpec
  <2>3. QED
    BY <2>2 DEF GateStep
<1>3. CASE DraftSpec \/ CritiqueSpec \/ ReconcileSpec
  <2>1. KeepsGates
    BY <1>3, RowsSame, GroupKeeps DEF DraftSpec, CritiqueSpec, ReconcileSpec, WriteSpec
  <2>2. QED
    BY <2>1 DEF GateStep
<1>4. CASE CompleteSpec
  <2>1. KeepsGates
    BY <1>4, RowSet, GroupKeeps DEF CompleteSpec, RowStatuses
  <2>2. QED
    BY <2>1 DEF GateStep
<1>5. CASE OpenSpecReview
  <2>1. KeepsGates
    BY <1>5, RowInserted, KindNames, GroupKeeps DEF OpenSpecReview
  <2>2. QED
    BY <2>1 DEF GateStep
<1>6. CASE PassSpecGate
  BY <1>6, RecordPasses DEF PassSpecGate, RunningIsOpen
<1>7. CASE CompleteSpecReview
  <2>1. RowsKept
    BY <1>7, RowSet DEF CompleteSpecReview, RowStatuses
  <2>2. KeepsGates
    BY <1>7, <2>1, GroupKeeps, ReturnKeeps DEF CompleteSpecReview
  <2>3. QED
    BY <2>2 DEF GateStep
<1>8. CASE OpenPassedDecision
  <2>1. RowsKept /\ HasStage("spec_decision")'
    BY <1>8, RowInserted, KindNames DEF OpenPassedDecision
  <2>2. KeepsGates
    BY <1>8, <2>1, GroupKeeps DEF OpenPassedDecision
  <2>3. QED
    BY <2>2 DEF GateStep
<1>9. CASE CompletePassedDecision
  <2>1. KeepsGates
    BY <1>9, RowSet, GroupKeeps DEF CompletePassedDecision, RowStatuses
  <2>2. QED
    BY <2>1 DEF GateStep
<1>10. CASE RecordPassedDecision
  BY <1>10, RecordPasses DEF RecordPassedDecision, RunningIsOpen
<1>11. QED
  BY <1>1, <1>2, <1>3, <1>4, <1>5, <1>6, <1>7, <1>8, <1>9, <1>10 DEF SpecNext

LEMMA DecisionGateStep ==
  ASSUME TypeOK, RunningIsOpen, GatesDue, DecisionNext
  PROVE  GateStep
<1> USE GroupTable, RowTable DEF Goto, Return, runVars, fileVars, gitVars, ctlVars,
        GateNames, Group
<1>1. ASSUME NEW q \in Questions, AnswerQuestion(q) PROVE GateStep
  <2>1. KeepsGates
    BY <1>1, RowsSame, SameStep DEF AnswerQuestion, KeepsGates
  <2>2. QED
    BY <2>1 DEF GateStep
<1>2. CASE ObserveDecision
  <2>1. \A i \in DOMAIN chain : i = 1 \/ i = 2
    BY <1>2 DEF ObserveDecision, TypeOK
  <2>2. chain[1].kind = "spec" /\ chain[2].kind = "spec_review"
    BY <1>2 DEF ObserveDecision, STAGES
  <2>3. ~HasStage("spec_decision")
    BY <2>1, <2>2 DEF HasStage
  <2>4. BeginsGroup("decision")
    BY <1>2, <2>3, RowsSame DEF ObserveDecision, BeginsGroup, PriorPassed
  <2>5. QED
    BY <2>4 DEF GateStep
<1>3. CASE StartDecision \/ PassAllDenied \/ FoldAnswers
  <2>1. KeepsGates
    BY <1>3, RowsSame, GroupKeeps DEF StartDecision, PassAllDenied, FoldAnswers
  <2>2. QED
    BY <2>1 DEF GateStep
<1>4. CASE RefuseDecision
  <2>1. KeepsGates
    BY <1>4, RowsSame, ReturnKeeps DEF RefuseDecision
  <2>2. QED
    BY <2>1 DEF GateStep
<1>5. CASE OpenDecision
  <2>1. RowsKept /\ HasStage("spec_decision")'
    BY <1>5, RowInserted, KindNames DEF OpenDecision
  <2>2. KeepsGates
    BY <1>5, <2>1, GroupKeeps DEF OpenDecision
  <2>3. QED
    BY <2>2 DEF GateStep
<1>6. CASE CompleteDecision
  <2>1. KeepsGates
    BY <1>6, RowSet, GroupKeeps DEF CompleteDecision, RowStatuses
  <2>2. QED
    BY <2>1 DEF GateStep
<1>7. CASE RecordDecision
  BY <1>7, RecordPasses DEF RecordDecision, RunningIsOpen
<1>8. QED
  BY <1>1, <1>2, <1>3, <1>4, <1>5, <1>6, <1>7 DEF DecisionNext

LEMMA PlanGateStep ==
  ASSUME TypeOK, RunningIsOpen, GatesDue, PlanNext
  PROVE  GateStep
<1> USE GroupTable, RowTable DEF Goto, Return, runVars, fileVars, gitVars, GateNames, Group
<1>1. CASE StartPlan
  <2>1. gate["decision"] # {} /\ ~HasStage("plan")
    BY <1>1 DEF StartPlan, MayStart
  <2>2. BeginsGroup("plan")
    BY <1>1, <2>1, RowsSame DEF StartPlan, MayStart, BeginsGroup, PriorPassed
  <2>3. QED
    BY <2>2 DEF GateStep
<1>2. CASE OpenPlan
  <2>1. RowsKept /\ HasStage("plan")'
    BY <1>2, RowInserted, KindNames DEF OpenPlan
  <2>2. KeepsGates
    BY <1>2, <2>1, GroupKeeps DEF OpenPlan
  <2>3. QED
    BY <2>2 DEF GateStep
<1>3. CASE DraftPlan \/ CritiquePlan \/ ReconcilePlan
  <2>1. RowsKept /\ UNCHANGED <<status, gate, approval>> /\ pc \in Draws["plan"]
    BY <1>3, RowsSame DEF DraftPlan, CritiquePlan, ReconcilePlan, RevisePlan
  <2>2. pc' \in Draws["plan"] \/ pc' = "abort_stage"
    BY <1>3 DEF DraftPlan, CritiquePlan, ReconcilePlan
  <2>3. KeepsGates
    BY <2>1, <2>2, GroupKeeps, ReturnKeeps
  <2>4. QED
    BY <2>3 DEF GateStep
<1>4. CASE CompletePlan
  <2>1. KeepsGates
    BY <1>4, RowSet, GroupKeeps DEF CompletePlan, RowStatuses
  <2>2. QED
    BY <2>1 DEF GateStep
<1>5. CASE OpenPlanReview
  <2>1. KeepsGates
    BY <1>5, RowInserted, KindNames, GroupKeeps DEF OpenPlanReview
  <2>2. QED
    BY <2>1 DEF GateStep
<1>6. CASE PassPlanGate
  BY <1>6, RecordPasses DEF PassPlanGate, RunningIsOpen
<1>7. CASE CompletePlanReview
  <2>1. KeepsGates
    BY <1>7, RowSet, ReturnKeeps DEF CompletePlanReview, RowStatuses
  <2>2. QED
    BY <2>1 DEF GateStep
<1>8. QED
  BY <1>1, <1>2, <1>3, <1>4, <1>5, <1>6, <1>7 DEF PlanNext

(* A step that draws up a gate and leaves the tables of the store alone. *)
LEMMA DrawsOn ==
  ASSUME NEW g \in GateNames, pc \in Draws[g], pc' \in Draws[g], UNCHANGED runVars
  PROVE  GateStep
<1>1. KeepsGates
  BY RowsSame, GroupKeeps DEF Group, runVars
<1>2. QED
  BY <1>1 DEF GateStep

(* The same for one that updates the group's row. *)
LEMMA DrawsOnRow ==
  ASSUME TypeOK, NEW g \in GateNames, NEW s \in RowStatuses, SetLast(s),
         pc \in Draws[g], pc' \in Draws[g], UNCHANGED <<status, gate, approval>>
  PROVE  GateStep
<1>1. KeepsGates
  BY RowSet, GroupKeeps DEF Group
<1>2. QED
  BY <1>1 DEF GateStep

(* The first step of a group that one row is for. *)
LEMMA OpensRow ==
  ASSUME TypeOK, NEW g \in GateNames, RowOf[g] \in Kinds, InsertStage(RowOf[g]),
         pc \in Opens[g], pc' \in Draws[g], UNCHANGED <<status, gate, approval>>
  PROVE  GateStep
<1>1. RowsKept /\ HasStage(RowOf[g])'
  BY RowInserted
<1>2. KeepsGates
  BY <1>1, GroupKeeps DEF Group
<1>3. QED
  BY <1>2 DEF GateStep

LEMMA ImplementationGateStep ==
  ASSUME TypeOK, RunningIsOpen, GatesDue, ImplementationNext
  PROVE  GateStep
<1> USE GroupTable, RowTable DEF Goto, Return, fileVars, gitVars, GateNames
<1>1. CASE StartImplementation
  <2>1. gate["plan"] # {} /\ ~HasStage("implementation")
    BY <1>1 DEF StartImplementation, DocumentsAreGated, MayStart
  <2>2. BeginsGroup("implementation")
    BY <1>1, <2>1, RowsSame DEF StartImplementation, BeginsGroup, PriorPassed, runVars
  <2>3. QED
    BY <2>2 DEF GateStep
<1>2. CASE OpenImplementation
  BY <1>2, OpensRow, KindNames DEF OpenImplementation
<1>3. CASE CreateWorktree \/ CommitProjections \/ ReadBase \/ FinishDispatch
             \/ ApplyPatch("impl_apply", "patch") \/ FinishPatches("impl_apply", "impl_complete")
  BY <1>3, DrawsOn DEF CreateWorktree, CommitProjections, ReadBase, FinishDispatch,
     ApplyPatch, FinishPatches
<1>4. CASE CompleteImplementation
  BY <1>4, DrawsOnRow DEF CompleteImplementation, RowStatuses
<1>5. CASE RecordImplementation
  BY <1>5, RecordPasses DEF RecordImplementation, RunningIsOpen
<1>6. QED
  BY <1>1, <1>2, <1>3, <1>4, <1>5 DEF ImplementationNext

LEMMA VerificationGateStep ==
  ASSUME TypeOK, RunningIsOpen, GatesDue, VerificationNext(CommandsLeave)
  PROVE  GateStep
<1> USE GroupTable, RowTable DEF Goto, Return, fileVars, gitVars, GateNames
<1>1. CASE StartVerification
  <2>1. gate["implementation"] # {} /\ ~HasStage("verification")
    BY <1>1 DEF StartVerification, MayStart
  <2>2. BeginsGroup("verification")
    BY <1>1, <2>1, RowsSame DEF StartVerification, BeginsGroup, PriorPassed, runVars
  <2>3. QED
    BY <2>2 DEF GateStep
<1>2. CASE OpenVerification
  BY <1>2, OpensRow, KindNames DEF OpenVerification
<1>3. CASE BeginVerification \/ CompleteVerification
  BY <1>3, DrawsOnRow DEF BeginVerification, CompleteVerification, RowStatuses
<1>4. CASE CheckEntry("verif_entry", "verif_command", "verif_block") \/ WriteVerification
             \/ RunCommand("verif_command", "verif_write", "verif_block", CommandsLeave)
  BY <1>4, DrawsOn DEF CheckEntry, RunCommand, WriteVerification
<1>5. CASE RecordVerification
  BY <1>5, RecordPasses DEF RecordVerification, RunningIsOpen
<1>6. QED
  BY <1>1, <1>2, <1>3, <1>4, <1>5 DEF VerificationNext

LEMMA CodeReviewGateStep ==
  ASSUME TypeOK, RunningIsOpen, GatesDue, CodeReviewNext(CommandsLeave)
  PROVE  GateStep
<1> USE GroupTable, RowTable DEF Goto, Return, fileVars, gitVars, GateNames
<1>1. CASE StartCodeReview
  <2>1. gate["verification"] # {} /\ ~HasStage("code_review")
    BY <1>1 DEF StartCodeReview, MayStart
  <2>2. BeginsGroup("review")
    BY <1>1, <2>1, RowsSame DEF StartCodeReview, BeginsGroup, PriorPassed, runVars
  <2>3. QED
    BY <2>2 DEF GateStep
<1>2. CASE OpenCodeReview
  BY <1>2, OpensRow, KindNames DEF OpenCodeReview
<1>3. CASE BeginCodeReview \/ CompleteCodeReview
  BY <1>3, DrawsOnRow DEF BeginCodeReview, CompleteCodeReview, RowStatuses
<1>4. CASE SettlePanel \/ FinishRemedy \/ ApplyPatch("review_apply", "remediation")
             \/ FinishPatches("review_apply", "review_entry") \/ WriteCodeReview
             \/ CheckEntry("review_entry", "review_command", "review_block")
             \/ RunCommand("review_command", "review_panel", "review_block", CommandsLeave)
  BY <1>4, DrawsOn DEF SettlePanel, FinishRemedy, ApplyPatch, FinishPatches,
     WriteCodeReview, CheckEntry, RunCommand
<1>5. CASE RecordCodeReview
  BY <1>5, RecordPasses DEF RecordCodeReview, RunningIsOpen
<1>6. QED
  BY <1>1, <1>2, <1>3, <1>4, <1>5 DEF CodeReviewNext

LEMMA DeliveryGateStep ==
  ASSUME TypeOK, RunningIsOpen, GatesDue,
         CheckDelivery \/ FinalizeDelivery \/ RollBackDelivery
  PROVE  GateStep
<1> USE GroupTable, RowTable DEF Goto, Return, runVars, fileVars, gitVars, GateNames
<1>1. CASE CheckDelivery
  <2>1. gate["review"] # {} /\ ~HasStage("delivery_check")
    BY <1>1 DEF CheckDelivery, RecordsAgree, MayStart
  <2>2. BeginsGroup("delivery")
    BY <1>1, <2>1, RowsSame DEF CheckDelivery, BeginsGroup, PriorPassed
  <2>3. QED
    BY <2>2 DEF GateStep
<1>2. CASE FinalizeDelivery
  <2>1. status = "in_progress" /\ pc \in Group("delivery")
    BY <1>2 DEF FinalizeDelivery, RunningIsOpen, Group
  <2>2. RowsKept /\ HasStage("delivery_check")'
    <3>1. PICK s \in RowStatuses :
            chain' = Append(chain, [kind |-> "delivery_check", status |-> s])
      BY <1>2 DEF FinalizeDelivery, RowStatuses
    <3>2. "delivery_check" \in Kinds /\ chain \in Seq(StageRows)
      BY KindNames DEF TypeOK
    <3>3. QED
      BY <3>1, <3>2, AppendedRow DEF RowsKept
  <2>3. CASE gate' = gate /\ status' = "blocked"
    <3>1. KeepsGates
      BY <1>2, <2>1, <2>2, <2>3, ReturnKeeps DEF FinalizeDelivery
    <3>2. QED
      BY <3>1 DEF GateStep
  <2>4. CASE status' = "completed" /\ \E w : RecordGate("delivery", w)
    <3>1. PassesGate("delivery")
      BY <1>2, <2>1, <2>2, <2>4, GroupsApart DEF FinalizeDelivery, PassesGate
    <3>2. QED
      BY <3>1 DEF GateStep
  <2>5. QED
    BY <1>2, <2>3, <2>4 DEF FinalizeDelivery
<1>3. CASE RollBackDelivery
  <2>1. KeepsGates
    BY <1>3, RowsSame, ReturnKeeps DEF RollBackDelivery
  <2>2. QED
    BY <2>1 DEF GateStep
<1>4. QED
  BY <1>1, <1>2, <1>3

LEMMA AuthorizationGateStep ==
  ASSUME TypeOK, RunningIsOpen, GatesDue, Authorization
  PROVE  GateStep
<1> USE DEF runVars, fileVars, gitVars, ctlVars
<1>1. CASE SignBinding
  <2>1. KeepsGates
    BY <1>1, RowsSame, SameStep DEF SignBinding, KeepsGates
  <2>2. QED
    BY <2>1 DEF GateStep
<1>2. CASE Approve
  <2>1. RowsKept /\ HasStage("awaiting_approval")'
    <3>1. "awaiting_approval" \in Kinds /\ "passed" \in RowStatuses /\ chain \in Seq(StageRows)
      BY KindNames DEF TypeOK, RowStatuses
    <3>2. chain' = Append(chain, [kind |-> "awaiting_approval", status |-> "passed"])
      BY <1>2 DEF Approve
    <3>3. QED
      BY <3>1, <3>2, AppendedRow DEF RowsKept
  <2>2. Binding # {} /\ Binding \subseteq gate.decision /\ approval' = Binding
    BY <1>2 DEF Approve, BindingIsOffered
  <2>3. gate.decision = {} \/ \E w : gate.decision = {w}
    BY DEF GatesDue, OneEach, GateNames
  <2>4. gate.decision # {} /\ approval' = gate.decision
    BY <2>2, <2>3
  <2>5. Approves
    BY <1>2, <2>1, <2>4 DEF Approve, BindingIsOffered, MayStart, Approves
  <2>6. QED
    BY <2>5 DEF GateStep
<1>3. QED
  BY <1>1, <1>2 DEF Authorization

LEMMA FailureGateStep ==
  ASSUME TypeOK, RunningIsOpen, GatesDue, Failure
  PROVE  GateStep
<1> USE DEF Goto, Return, runVars, fileVars, gitVars
<1>1. CASE Abort \/ Throw \/ CatchFails
  <2>1. KeepsGates
    BY <1>1, RowsSame, ReturnKeeps DEF Abort, Throw, CatchFails
  <2>2. QED
    BY <2>1 DEF GateStep
<1>2. CASE AbortStage \/ CatchStage
  <2>1. RowsKept
    BY <1>2, RowSet, RowsSame DEF AbortStage, CatchStage, RowStatuses
  <2>2. KeepsGates
    BY <1>2, <2>1, ReturnKeeps DEF AbortStage, CatchStage
  <2>3. QED
    BY <2>2 DEF GateStep
<1>3. CASE BlockRun
  <2>1. status = "in_progress"
    BY <1>3 DEF BlockRun, RunningIsOpen
  <2>2. KeepsGates
    BY <1>3, <2>1, RowsSame, ReturnKeeps DEF BlockRun
  <2>3. QED
    BY <2>2 DEF GateStep
<1>4. QED
  BY <1>1, <1>2, <1>3 DEF Failure

LEMMA EnvironmentGateStep ==
  ASSUME TypeOK, Environment
  PROVE  GateStep
<1> USE DEF Return, runVars, fileVars, gitVars, ctlVars
<1>1. CASE Crash
  <2>1. KeepsGates
    BY <1>1, RowsSame, ReturnKeeps DEF Crash
  <2>2. QED
    BY <2>1 DEF GateStep
<1>2. CASE EditSpec \/ EditPlan \/ MoveBranch \/ TouchWorktree
  <2>1. KeepsGates
    BY <1>2, RowsSame, SameStep DEF EditSpec, EditPlan, MoveBranch, TouchWorktree, KeepsGates
  <2>2. QED
    BY <2>1 DEF GateStep
<1>3. CASE StageAdd
  <2>1. RowsKept
    BY <1>3, RowInserted DEF StageAdd
  <2>2. KeepsGates
    BY <1>3, <2>1, SameStep DEF StageAdd, KeepsGates
  <2>3. QED
    BY <2>2 DEF GateStep
<1>4. CASE StageComplete
  <2>1. PICK i \in DOMAIN chain, s \in {"passed", "blocked"} :
          chain' = [chain EXCEPT ![i].status = s]
    BY <1>4 DEF StageComplete
  <2>2. i \in Nat /\ s \in RowStatuses
    BY DEF TypeOK, RowStatuses
  <2>3. RowsKept
    BY <2>1, <2>2, UpdatedRow DEF TypeOK, RowsKept
  <2>4. KeepsGates
    BY <1>4, <2>3, SameStep DEF StageComplete, KeepsGates
  <2>5. QED
    BY <2>4 DEF GateStep
<1>5. QED
  BY <1>1, <1>2, <1>3, <1>4 DEF Environment

LEMMA NextGateStep ==
  ASSUME TypeOK, RunningIsOpen, GatesDue, [Next]_vars
  PROVE  GateStep
<1>1. CASE Stage
  BY <1>1, SpecGateStep, DecisionGateStep, PlanGateStep, ImplementationGateStep,
     VerificationGateStep, CodeReviewGateStep, DeliveryGateStep DEF Stage
<1>2. CASE UNCHANGED vars
  <2>1. KeepsGates
    BY <1>2, RowsSame, SameStep DEF vars, runVars, ctlVars, KeepsGates
  <2>2. QED
    BY <2>1 DEF GateStep
<1>3. QED
  BY <1>1, <1>2, AuthorizationGateStep, FailureGateStep, EnvironmentGateStep DEF Next

LEMMA GatesDueInvariant == Spec => []GatesDue
<1>1. Init => GatesDue
  <2> SUFFICES ASSUME Init PROVE GatesDue
    OBVIOUS
  <2>1. \A g \in GateNames : gate[g] = {}
    BY DEF Init, NoGates, GateNames
  <2>2. \A g \in GateNames : pc \notin Group(g)
    BY GroupsApart DEF Init
  <2>3. \A g \in GateNames : GateDue(g)
    BY <2>1, <2>2 DEF GateDue, Group
  <2>4. ApprovalDue /\ OneEach
    BY <2>1, <2>2 DEF Init, ApprovalDue, OneEach, GateNames
  <2>5. QED
    BY <2>3, <2>4 DEF GatesDue
<1>2. TypeOK /\ RunningIsOpen /\ GatesDue /\ [Next]_vars => GatesDue'
  BY NextGateStep, StepDue
<1>3. Evidence => RunningIsOpen
  BY DEF Evidence
<1>4. QED
  BY <1>1, <1>2, <1>3, RunTypes, EvidenceInvariant, PTL DEF Spec

-----------------------------------------------------------------------------
(* What a gate recorded is never recorded again, whatever is killed, edited  *)
(* or added and completed by hand: a group begins only while no row of its   *)
(* kind exists, its own row is there before its gate passes, and rows stay.  *)
THEOREM GateEventsStay == Spec => GateEventsAreFinal
<1>1. TypeOK /\ GatesDue /\ GateStep =>
        [\A g \in GateNames : gate[g] # {} => gate'[g] = gate[g]]_vars
  <2> SUFFICES ASSUME TypeOK, GatesDue, GateStep, NEW h \in GateNames, gate[h] # {}
               PROVE  gate'[h] = gate[h]
    OBVIOUS
  <2>1. ASSUME NEW g \in GateNames, PassesGate(g) PROVE gate'[h] = gate[h]
    <3>1. gate[g] = {}
      BY <2>1 DEF PassesGate, GatesDue, GateDue
    <3>2. QED
      BY <2>1, <3>1, OtherGates DEF PassesGate, TypeOK
  <2>2. QED
    BY <2>1 DEF GateStep, KeepsGates, BeginsGroup, Approves
<1>2. TypeOK /\ RunningIsOpen /\ GatesDue /\ [Next]_vars => GateStep
  BY NextGateStep
<1>3. Evidence => RunningIsOpen
  BY DEF Evidence
<1>4. QED
  BY <1>1, <1>2, <1>3, RunTypes, EvidenceInvariant, GatesDueInvariant, PTL
     DEF Spec, GateEventsAreFinal

(* The gates that have passed before the next one are the ones before it. *)
LEMMA PassedBefore ==
  ASSUME GatesDue
  PROVE  \A g \in GateNames : PriorPassed(g) /\ gate[g] = {} =>
           \E i \in 1..7 : /\ Promise!Order[i] = g
                           /\ {h \in GateNames : gate[h] # {}} = Promise!Before(i)
<1>1. /\ Promise!Order[1] = "spec" /\ Promise!Order[2] = "decision"
      /\ Promise!Order[3] = "plan" /\ Promise!Order[4] = "implementation"
      /\ Promise!Order[5] = "verification" /\ Promise!Order[6] = "review"
      /\ Promise!Order[7] = "delivery"
  BY DEF Promise!Order
<1>2. /\ Promise!Before(1) = {} /\ Promise!Before(2) = {"spec"}
      /\ Promise!Before(3) = {"spec", "decision"}
      /\ Promise!Before(4) = {"spec", "decision", "plan"}
      /\ Promise!Before(5) = {"spec", "decision", "plan", "implementation"}
      /\ Promise!Before(6) = {"spec", "decision", "plan", "implementation", "verification"}
      /\ Promise!Before(7) = {"spec", "decision", "plan", "implementation", "verification",
                              "review"}
  BY <1>1 DEF Promise!Before
<1>3. /\ gate["decision"] # {} => gate["spec"] # {}
      /\ gate["plan"] # {} => gate["decision"] # {}
      /\ gate["implementation"] # {} => gate["plan"] # {}
      /\ gate["verification"] # {} => gate["implementation"] # {}
      /\ gate["review"] # {} => gate["verification"] # {}
      /\ gate["delivery"] # {} => gate["review"] # {}
  BY RowTable DEF GatesDue, GateDue, PriorPassed, GateNames
<1>4. QED
  BY <1>1, <1>2, <1>3, RowTable DEF PriorPassed, GateNames

LEMMA StepIsPromised ==
  ASSUME TypeOK, GatesDue, GateStep
  PROVE  [Promise!Next]_(Promise!orderVars)
<1> DEFINE passed == {g \in GateNames : gate[g] # {}}
<1>1. CASE KeepsGates
  <2>1. passed' = passed /\ (approval # {})' = (approval # {})
    BY <1>1 DEF KeepsGates
  <2>2. QED
    BY <1>1, <2>1 DEF KeepsGates, Promise!Next, Promise!Block, Promise!orderVars
<1>2. CASE \E g \in GateNames : BeginsGroup(g)
  BY <1>2 DEF BeginsGroup, Promise!orderVars
<1>3. ASSUME NEW g \in GateNames, PassesGate(g) PROVE Promise!Next
  <2>1. gate[g] = {} /\ PriorPassed(g)
    BY <1>3 DEF PassesGate, GatesDue, GateDue
  <2>2. PICK i \in 1..7 : Promise!Order[i] = g /\ passed = Promise!Before(i)
    BY <2>1, PassedBefore
  <2>3. PICK w : RecordGate(g, w)
    BY <1>3 DEF PassesGate
  <2>4. \A h \in GateNames : gate'[h] = IF h = g THEN {w} ELSE gate[h]
    BY <2>3, OtherGates DEF TypeOK
  <2>5. passed' = passed \cup {g}
    BY <2>4
  <2>6. i > 2 => approval # {}
    <3>1. i > 2 => g \notin {"spec", "decision"}
      BY <2>2 DEF Promise!Order
    <3>2. g \notin {"spec", "decision", "plan"} => gate["plan"] # {}
      BY <2>1, RowTable DEF GatesDue, GateDue, PriorPassed, GateNames
    <3>3. g = "plan" => pc \in Group("plan")
      BY <1>3 DEF PassesGate
    <3>4. QED
      BY <3>1, <3>2, <3>3 DEF GatesDue, ApprovalDue
  <2>7. Promise!PassGate(i)
    BY <1>3, <2>2, <2>5, <2>6 DEF PassesGate, Promise!PassGate
  <2>8. QED
    BY <2>7 DEF Promise!Next
<1>4. CASE Approves
  <2>1. approval = {}
    BY <1>4 DEF Approves, GatesDue, ApprovalDue
  <2>2. gate["plan"] = {} /\ gate["decision"] # {}
    BY <1>4, <2>1 DEF Approves, GatesDue, ApprovalDue
  <2>3. PriorPassed("plan") /\ "plan" \in GateNames
    BY <2>2, RowTable DEF PriorPassed, GateNames
  <2>4. PICK i \in 1..7 : Promise!Order[i] = "plan" /\ passed = Promise!Before(i)
    BY <2>2, <2>3, PassedBefore
  <2>5. i = 3
    BY <2>4 DEF Promise!Order
  <2>6. approval' # {} /\ passed' = passed
    BY <1>4 DEF Approves
  <2>7. Promise!Authorize
    BY <1>4, <2>1, <2>4, <2>5, <2>6 DEF Approves, Promise!Authorize
  <2>8. QED
    BY <2>7 DEF Promise!Next
<1>5. QED
  BY <1>1, <1>2, <1>3, <1>4 DEF GateStep

(* The run implements the order of gates it promises (DeliveryOrder): each    *)
(* of its steps passes the next gate, authorizes the run once, between the    *)
(* decision and the plan, closes the run, or does none of these.              *)
THEOREM GateOrderHolds == Spec => GatesPassInOrder
<1>1. Init => Promise!Init
  <2> SUFFICES ASSUME Init PROVE Promise!Init
    OBVIOUS
  <2>1. \A g \in GateNames : gate[g] = {}
    BY DEF Init, NoGates, GateNames
  <2>2. QED
    BY <2>1 DEF Init, Promise!Init
<1>2. TypeOK /\ RunningIsOpen /\ GatesDue /\ [Next]_vars => [Promise!Next]_(Promise!orderVars)
  BY NextGateStep, StepIsPromised
<1>3. Evidence => RunningIsOpen
  BY DEF Evidence
<1>4. QED
  BY <1>1, <1>2, <1>3, RunTypes, EvidenceInvariant, GatesDueInvariant, PTL
     DEF Spec, GatesPassInOrder, Promise!Spec

-----------------------------------------------------------------------------
(* The documents that the authorization binds. *)

ApprovedSpec == {a.spec : a \in approval}

(* The plan stage works from the approved specification, and every plan it   *)
(* holds after its draft was checked to be written from it.                  *)
PlanIsForApproved ==
  /\ pc \in PlanBody => mem.spec = ApprovedSpec
  /\ pc \in PlanBody \ {"plan_open", "plan_draft"} => \A p \in mem.plan : p.for \in mem.spec
  /\ \A p \in gate.plan : \A a \in approval : p.for = a.spec

(* Once the plan gate has passed, neither it nor the approval changes. *)
LEMMA Settled ==
  ASSUME TypeOK, GatesDue, GateStep, gate.plan # {}
  PROVE  approval # {} /\ approval' = approval /\ gate'.plan = gate.plan
<1>1. approval # {} /\ HasStage("awaiting_approval")
  BY DEF GatesDue, ApprovalDue
<1>2. ASSUME NEW g \in GateNames, PassesGate(g) PROVE gate'["plan"] = gate["plan"]
  <2>1. g # "plan"
    BY <1>2 DEF PassesGate, GatesDue, GateDue
  <2>2. QED
    BY <1>2, <2>1, OtherGates DEF PassesGate, TypeOK, GateNames
<1>3. QED
  BY <1>1, <1>2 DEF GateStep, KeepsGates, BeginsGroup, PassesGate, Approves

(* A step that is not the plan stage's. *)
PlanQuiet ==
  /\ gate'.plan = gate.plan
  /\ pc' \in PlanBody => UNCHANGED <<pc, mem, approval>>

LEMMA PlanQuietSteps ==
  ASSUME TypeOK,
         \/ SpecNext \/ DecisionNext \/ ImplementationNext
         \/ VerificationNext(CommandsLeave) \/ CodeReviewNext(CommandsLeave)
         \/ CheckDelivery \/ FinalizeDelivery \/ RollBackDelivery
         \/ Authorization \/ Failure \/ Environment \/ UNCHANGED vars
  PROVE  PlanQuiet
<1> USE DEF Goto, Return, runVars, fileVars, gitVars, ctlVars, PlanQuiet, PlanBody
<1>0. ASSUME NEW g \in GateNames \ {"plan"}, NEW w, RecordGate(g, w)
      PROVE  gate'.plan = gate.plan
  BY <1>0, OtherGates DEF TypeOK, GateNames
<1>1. CASE SpecNext
  BY <1>0, <1>1 DEF SpecNext, StartSpec, OpenSpec, DraftSpec, CritiqueSpec, WriteSpec,
     CompleteSpec, OpenSpecReview, ReconcileSpec, PassSpecGate, CompleteSpecReview,
     OpenPassedDecision, CompletePassedDecision, RecordPassedDecision, GateNames
<1>2. CASE DecisionNext
  BY <1>0, <1>2 DEF DecisionNext, AnswerQuestion, ObserveDecision, StartDecision,
     RefuseDecision, OpenDecision, PassAllDenied, FoldAnswers, CompleteDecision,
     RecordDecision, GateNames
<1>3. CASE ImplementationNext
  BY <1>0, <1>3 DEF ImplementationNext, StartImplementation, OpenImplementation,
     CreateWorktree, CommitProjections, ReadBase, FinishDispatch, ApplyPatch,
     FinishPatches, CompleteImplementation, RecordImplementation, GateNames
<1>4. CASE VerificationNext(CommandsLeave)
  BY <1>0, <1>4 DEF VerificationNext, StartVerification, OpenVerification,
     BeginVerification, CheckEntry, RunCommand, WriteVerification, CompleteVerification,
     RecordVerification, GateNames
<1>5. CASE CodeReviewNext(CommandsLeave)
  BY <1>0, <1>5 DEF CodeReviewNext, StartCodeReview, OpenCodeReview, BeginCodeReview,
     SettlePanel, FinishRemedy, ApplyPatch, FinishPatches, CheckEntry, RunCommand,
     WriteCodeReview, CompleteCodeReview, RecordCodeReview, GateNames
<1>6. CASE CheckDelivery \/ FinalizeDelivery \/ RollBackDelivery
  BY <1>0, <1>6 DEF CheckDelivery, FinalizeDelivery, RollBackDelivery, GateNames
<1>7. CASE Authorization
  BY <1>7 DEF Authorization, SignBinding, Approve, BindingIsOffered, MayStart
<1>8. CASE Failure
  BY <1>8 DEF Failure, Abort, AbortStage, BlockRun, Throw, CatchStage, CatchFails
<1>9. CASE Environment
  BY <1>9 DEF Environment, Crash, EditSpec, EditPlan, MoveBranch, TouchWorktree,
     StageAdd, StageComplete
<1>10. CASE UNCHANGED vars
  BY <1>10 DEF vars
<1>11. QED
  BY <1>1, <1>2, <1>3, <1>4, <1>5, <1>6, <1>7, <1>8, <1>9, <1>10

LEMMA PlanQuietKeeps ==
  ASSUME TypeOK, GatesDue, GateStep, PlanIsForApproved, PlanQuiet
  PROVE  PlanIsForApproved'
<1>1. (\A p \in gate.plan : \A a \in approval : p.for = a.spec)'
  BY Settled DEF PlanIsForApproved, PlanQuiet
<1>2. QED
  BY <1>1 DEF PlanIsForApproved, PlanQuiet, ApprovedSpec

LEMMA PlanStepKeeps ==
  ASSUME TypeOK, GatesDue, GateStep, PlanIsForApproved, PlanNext
  PROVE  PlanIsForApproved'
<1> USE DEF Goto, Return, runVars, fileVars, gitVars, PlanBody
<1>1. approval' = approval
  BY DEF PlanNext, StartPlan, OpenPlan, DraftPlan, CritiquePlan, RevisePlan, CompletePlan,
     OpenPlanReview, ReconcilePlan, PassPlanGate, CompletePlanReview
<1>2. CASE gate'.plan = gate.plan
  <2>1. (\A p \in gate.plan : \A a \in approval : p.for = a.spec)'
    BY <1>1, <1>2 DEF PlanIsForApproved
  <2>2. CASE StartPlan
    <3>1. PICK g \in gate.decision : disk.spec = {g.spec}
      BY <2>2 DEF StartPlan
    <3>2. approval = gate.decision /\ \E w : gate["decision"] = {w}
      BY <2>2, <3>1 DEF StartPlan, GatesDue, ApprovalDue, OneEach, GateNames
    <3>3. ApprovedSpec = disk.spec
      BY <3>1, <3>2 DEF ApprovedSpec
    <3>4. mem'.spec = disk.spec /\ pc' = "plan_open"
      BY <2>2 DEF StartPlan, TypeOK, Memory
    <3>5. QED
      BY <1>1, <2>1, <3>3, <3>4 DEF PlanIsForApproved, ApprovedSpec
  <2>3. CASE OpenPlan \/ CompletePlan \/ OpenPlanReview \/ PassPlanGate \/ CompletePlanReview
    BY <1>1, <2>1, <2>3 DEF PlanIsForApproved, ApprovedSpec, OpenPlan, CompletePlan,
       OpenPlanReview, PassPlanGate, CompletePlanReview
  <2>4. CASE DraftPlan \/ CritiquePlan \/ ReconcilePlan
    <3>1. PICK p \in PlanDocs : /\ mem'.plan = {p} /\ mem'.spec = mem.spec
                                /\ p.for \in mem.spec \/ pc' = "abort_stage"
      BY <2>4 DEF DraftPlan, CritiquePlan, RevisePlan, ReconcilePlan, TypeOK, Memory
    <3>2. mem.spec = ApprovedSpec
      BY <2>4 DEF DraftPlan, CritiquePlan, ReconcilePlan, PlanIsForApproved
    <3>3. QED
      BY <1>1, <2>1, <3>1, <3>2 DEF PlanIsForApproved, ApprovedSpec
  <2>5. QED
    BY <2>2, <2>3, <2>4 DEF PlanNext
<1>3. CASE PassPlanGate
  <2>1. PICK p \in mem.plan : RecordGate("plan", p)
    BY <1>3 DEF PassPlanGate
  <2>2. gate'.plan = {p}
    BY <2>1, OtherGates DEF TypeOK, GateNames
  <2>3. p.for \in mem.spec /\ mem.spec = ApprovedSpec
    BY <1>3 DEF PassPlanGate, PlanIsForApproved
  <2>4. \E w : approval \subseteq {w}
    BY DEF GatesDue, ApprovalDue, OneEach, GateNames
  <2>5. \A a \in approval : p.for = a.spec
    BY <2>3, <2>4 DEF ApprovedSpec
  <2>6. QED
    BY <1>1, <1>3, <2>2, <2>5 DEF PassPlanGate, PlanIsForApproved, ApprovedSpec
<1>4. gate'.plan = gate.plan \/ PassPlanGate
  BY DEF PlanNext, StartPlan, OpenPlan, DraftPlan, CritiquePlan, RevisePlan, CompletePlan,
     OpenPlanReview, ReconcilePlan, PassPlanGate, CompletePlanReview
<1>5. QED
  BY <1>2, <1>3, <1>4

LEMMA PlanInvariant == Spec => []PlanIsForApproved
<1>1. Init => PlanIsForApproved
  BY DEF Init, PlanIsForApproved, NoGates, PlanBody
<1>2. TypeOK /\ RunningIsOpen /\ GatesDue /\ PlanIsForApproved /\ [Next]_vars
        => PlanIsForApproved'
  BY NextGateStep, PlanQuietSteps, PlanQuietKeeps, PlanStepKeeps DEF Next, Stage
<1>3. Evidence => RunningIsOpen
  BY DEF Evidence
<1>4. QED
  BY <1>1, <1>2, <1>3, RunTypes, EvidenceInvariant, GatesDueInvariant, PTL DEF Spec

(* The operator authorized the very specification and risk that the decision  *)
(* gate recorded, with a signature, and whatever is saved over the files, the *)
(* plan gate only passes a plan written from that specification.              *)
THEOREM AuthorizationHolds == Spec => []AuthorizationBinds
<1>1. Evidence /\ GatesDue /\ PlanIsForApproved => AuthorizationBinds
  <2> SUFFICES ASSUME Evidence, GatesDue, PlanIsForApproved PROVE AuthorizationBinds
    OBVIOUS
  <2>1. approval # {} => approval = gate.decision /\ approval \subseteq signed
    BY DEF Evidence, GatesDue, ApprovalDue
  <2>2. gate.plan # {} => approval # {}
    BY DEF GatesDue, ApprovalDue
  <2>3. QED
    BY <2>1, <2>2 DEF AuthorizationBinds, PlanIsForApproved
<1>2. QED
  BY <1>1, EvidenceInvariant, GatesDueInvariant, PlanInvariant, PTL

-----------------------------------------------------------------------------
(* The documents that the branch carries. *)

IsProjection(change) == change.by = "projections"

(* The documents in a commit are the gated ones, below the given length. *)
GatedBelow(c, n) ==
  \A i \in DOMAIN c : IsProjection(c[i]) =>
    i <= n /\ c[i].spec = ApprovedSpec /\ c[i].plan = gate.plan

(* The inductive invariant: the branch only carries the documents that were   *)
(* gated before it existed, and every base the stages know lies above them.   *)
BranchIsGated ==
  /\ tree.exists \/ tree.head # StartingCommit => gate.plan # {}
  /\ pc \in {"impl_open", "impl_worktree", "impl_project"} =>
       mem.spec = ApprovedSpec /\ mem.plan = gate.plan
  /\ GatedBelow(tree.head, Len(tree.head))
  /\ \A g \in gate.implementation : GatedBelow(tree.head, Len(g.base))
  /\ pc \in {"impl_dispatch", "impl_apply", "impl_complete", "impl_record"} =>
       GatedBelow(tree.head, Len(mem.base))
  /\ pc = "deliver" => GatedBelow(mem.commit, Len(mem.base))
  /\ \A d \in gate.delivery : GatedBelow(d.head, Len(d.base))

(* A head that carries no documents that the branch did not carry before. *)
NoNewDocuments ==
  \A i \in DOMAIN tree'.head : IsProjection(tree'.head[i]) =>
    i \in DOMAIN tree.head /\ tree'.head[i] = tree.head[i]

(* A step that neither brings documents onto the branch nor uses them. *)
BranchQuiet ==
  /\ NoNewDocuments
  /\ tree'.exists \/ tree'.head # StartingCommit =>
       tree.exists \/ tree.head # StartingCommit \/ gate.plan # {}
  /\ gate'.implementation = gate.implementation /\ gate'.delivery = gate.delivery
  /\ pc' \in ImplementationBody \cup {"deliver"} => UNCHANGED <<pc, mem>>

(* What is gated stays gated while the approval and the gated plan stay. *)
LEMMA GatedStays ==
  ASSUME UNCHANGED <<approval, gate.plan>>
  PROVE  /\ \A c, n : GatedBelow(c, n) => GatedBelow(c, n)'
         /\ NoNewDocuments => \A n : GatedBelow(tree.head, n) => GatedBelow(tree.head, n)'
BY DEF GatedBelow, ApprovedSpec, NoNewDocuments

(* No gate after the plan's has passed, and no later stage runs, before it. *)
LEMMA NothingPlanned ==
  ASSUME GatesDue, gate.plan = {}
  PROVE  /\ gate.implementation = {} /\ gate.delivery = {}
         /\ pc \notin ImplementationBody \cup CodeReviewBody \cup {"deliver"}
<1>1. gate["implementation"] = {} /\ pc \notin Group("implementation")
  BY RowTable DEF GatesDue, GateDue, PriorPassed, GateNames
<1>2. gate["verification"] = {}
  BY <1>1, RowTable DEF GatesDue, GateDue, PriorPassed, GateNames
<1>3. gate["review"] = {} /\ pc \notin Group("review")
  BY <1>2, RowTable DEF GatesDue, GateDue, PriorPassed, GateNames
<1>4. gate["delivery"] = {} /\ pc \notin Group("delivery")
  BY <1>3, RowTable DEF GatesDue, GateDue, PriorPassed, GateNames
<1>5. QED
  BY <1>1, <1>3, <1>4, GroupTable DEF Group, ImplementationBody, CodeReviewBody

LEMMA BranchQuietKeeps ==
  ASSUME TypeOK, TypeOK', GatesDue, GateStep, BranchIsGated, BranchQuiet
  PROVE  BranchIsGated'
<1>1. CASE gate.plan # {}
  <2>1. approval' = approval /\ gate'.plan = gate.plan
    BY <1>1, Settled
  <2>2. ApprovedSpec' = ApprovedSpec
    BY <2>1 DEF ApprovedSpec
  <2>3. \A n : GatedBelow(tree.head, n) => GatedBelow(tree.head, n)'
    BY <2>1, GatedStays DEF BranchQuiet
  <2>4. \A c, n : GatedBelow(c, n) => GatedBelow(c, n)'
    BY <2>1, GatedStays
  <2>5. GatedBelow(tree.head, Len(tree.head))'
    <3>1. GatedBelow(tree.head, Len(tree.head))'
            <=> \A i \in DOMAIN tree'.head : IsProjection(tree'.head[i]) =>
                  /\ i <= Len(tree'.head)
                  /\ tree'.head[i].spec = ApprovedSpec /\ tree'.head[i].plan = gate.plan
      BY <2>1, <2>2 DEF GatedBelow
    <3>2. \A i \in DOMAIN tree'.head : i <= Len(tree'.head)
      BY DEF TypeOK, Trees, Commits
    <3>3. QED
      BY <3>1, <3>2 DEF BranchIsGated, BranchQuiet, NoNewDocuments, GatedBelow
  <2>6. (\A g \in gate.implementation : GatedBelow(tree.head, Len(g.base)))'
    BY <2>3 DEF BranchIsGated, BranchQuiet
  <2>7. (\A d \in gate.delivery : GatedBelow(d.head, Len(d.base)))'
    BY <2>4 DEF BranchIsGated, BranchQuiet
  <2>8. (pc = "deliver" => GatedBelow(mem.commit, Len(mem.base)))'
    BY <2>4 DEF BranchIsGated, BranchQuiet
  <2>9. (pc \in {"impl_dispatch", "impl_apply", "impl_complete", "impl_record"} =>
           GatedBelow(tree.head, Len(mem.base)))'
    BY <2>3 DEF BranchIsGated, BranchQuiet, ImplementationBody
  <2>10. (pc \in {"impl_open", "impl_worktree", "impl_project"} =>
           mem.spec = ApprovedSpec /\ mem.plan = gate.plan)'
    BY <2>1, <2>2 DEF BranchIsGated, BranchQuiet, ImplementationBody
  <2>11. QED
    BY <1>1, <2>1, <2>5, <2>6, <2>7, <2>8, <2>9, <2>10 DEF BranchIsGated
<1>2. CASE gate.plan = {}
  <2>1. /\ gate'.implementation = {} /\ gate'.delivery = {}
        /\ pc' \notin ImplementationBody /\ pc' # "deliver"
    BY <1>2, NothingPlanned DEF BranchQuiet
  <2>2. tree'.head = StartingCommit /\ ~tree'.exists
    BY <1>2 DEF BranchIsGated, BranchQuiet, TypeOK, Trees
  <2>3. \A n : GatedBelow(tree.head, n)'
    BY <2>2 DEF GatedBelow, StartingCommit
  <2>4. QED
    BY <2>1, <2>2, <2>3 DEF BranchIsGated, ImplementationBody
<1>3. QED
  BY <1>1, <1>2

LEMMA SameHead == ASSUME tree'.head = tree.head PROVE NoNewDocuments
BY DEF NoNewDocuments

LEMMA ChangedHead ==
  ASSUME TypeOK, NEW by \in {"patch", "remediation", "foreign"},
         tree'.head = Append(tree.head, Change(by))
  PROVE  NoNewDocuments
<1>1. tree.head \in Seq(Changes) /\ Change(by) \in Changes
  BY NewChange DEF TypeOK, Trees, Commits
<1>2. \A i \in DOMAIN tree'.head : i = Len(tree.head) + 1 \/ i \in DOMAIN tree.head
  BY <1>1
<1>3. tree'.head[Len(tree.head) + 1] = Change(by)
  BY <1>1
<1>4. \A i \in DOMAIN tree.head : tree'.head[i] = tree.head[i]
  BY <1>1
<1>5. ~IsProjection(Change(by))
  BY DEF IsProjection, Change
<1>6. QED
  BY <1>2, <1>3, <1>4, <1>5 DEF NoNewDocuments

LEMMA ResetHead ==
  ASSUME TypeOK, NEW n \in 0..(Len(tree.head) - 1), tree'.head = SubSeq(tree.head, 1, n)
  PROVE  NoNewDocuments
<1>1. tree.head \in Seq(Changes) /\ n \in Nat /\ n <= Len(tree.head)
  BY DEF TypeOK, Trees, Commits
<1>2. QED
  BY <1>1 DEF NoNewDocuments

LEMMA BranchQuietSteps ==
  ASSUME TypeOK, GatesDue,
         \/ SpecNext \/ DecisionNext \/ PlanNext
         \/ VerificationNext(CommandsLeave) \/ CodeReviewNext(CommandsLeave)
         \/ RollBackDelivery
         \/ Authorization \/ Failure \/ Environment \/ UNCHANGED vars
  PROVE  BranchQuiet
<1> USE DEF Goto, Return, runVars, fileVars, gitVars, ctlVars, BranchQuiet,
        ImplementationBody
<1>0. ASSUME NEW g \in GateNames \ {"implementation", "delivery"}, NEW w, RecordGate(g, w)
      PROVE  gate'.implementation = gate.implementation /\ gate'.delivery = gate.delivery
  BY <1>0, OtherGates DEF TypeOK, GateNames
<1>1. CASE SpecNext
  BY <1>0, <1>1, SameHead DEF SpecNext, StartSpec, OpenSpec, DraftSpec, CritiqueSpec,
     WriteSpec, CompleteSpec, OpenSpecReview, ReconcileSpec, PassSpecGate,
     CompleteSpecReview, OpenPassedDecision, CompletePassedDecision,
     RecordPassedDecision, GateNames
<1>2. CASE DecisionNext
  BY <1>0, <1>2, SameHead DEF DecisionNext, AnswerQuestion, ObserveDecision,
     StartDecision, RefuseDecision, OpenDecision, PassAllDenied, FoldAnswers,
     CompleteDecision, RecordDecision, GateNames
<1>3. CASE PlanNext
  BY <1>0, <1>3, SameHead DEF PlanNext, StartPlan, OpenPlan, DraftPlan, CritiquePlan,
     RevisePlan, CompletePlan, OpenPlanReview, ReconcilePlan, PassPlanGate,
     CompletePlanReview, GateNames
<1>4. CASE VerificationNext(CommandsLeave)
  <2>1. UNCHANGED <<tree.head, tree.exists>>
    BY <1>4 DEF VerificationNext, StartVerification, OpenVerification, BeginVerification,
       CheckEntry, RunCommand, WriteVerification, CompleteVerification,
       RecordVerification, TypeOK, Trees
  <2>2. QED
    BY <1>0, <1>4, <2>1, SameHead DEF VerificationNext, StartVerification,
       OpenVerification, BeginVerification, CheckEntry, RunCommand, WriteVerification,
       CompleteVerification, RecordVerification, GateNames
<1>5. CASE CodeReviewNext(CommandsLeave)
  <2>1. tree' = tree \/ (\E d : tree' = [tree EXCEPT !.dirt = d])
          \/ ApplyPatch("review_apply", "remediation")
    BY <1>5 DEF CodeReviewNext, StartCodeReview, OpenCodeReview, BeginCodeReview,
       SettlePanel, FinishRemedy, FinishPatches, CheckEntry, RunCommand,
       WriteCodeReview, CompleteCodeReview, RecordCodeReview
  <2>2. NoNewDocuments /\ tree'.exists = tree.exists
    <3>1. ASSUME ApplyPatch("review_apply", "remediation")
          PROVE  /\ tree'.head = Append(tree.head, Change("remediation"))
                 /\ tree'.exists = tree.exists
      BY <3>1 DEF ApplyPatch, TypeOK, Trees
    <3>2. QED
      BY <2>1, <3>1, SameHead, ChangedHead DEF TypeOK, Trees
  <2>3. tree'.head # StartingCommit => tree.head # StartingCommit \/ gate.plan # {}
    <3>1. ApplyPatch("review_apply", "remediation") => gate.plan # {}
      BY NothingPlanned DEF ApplyPatch, CodeReviewBody
    <3>2. QED
      BY <2>1, <3>1 DEF TypeOK, Trees
  <2>4. QED
    BY <1>0, <1>5, <2>2, <2>3 DEF CodeReviewNext, StartCodeReview, OpenCodeReview,
       BeginCodeReview, SettlePanel, FinishRemedy, ApplyPatch, FinishPatches, CheckEntry,
       RunCommand, WriteCodeReview, CompleteCodeReview, RecordCodeReview, GateNames
<1>6. CASE RollBackDelivery \/ Authorization \/ UNCHANGED vars
  BY <1>6, SameHead DEF RollBackDelivery, Authorization, SignBinding, Approve, vars
<1>7. CASE Failure
  BY <1>7, SameHead DEF Failure, Abort, AbortStage, BlockRun, Throw, CatchStage, CatchFails
<1>8. CASE Environment
  <2>1. CASE MoveBranch
    <3>1. PICK h \in {Append(tree.head, Change("foreign"))}
                       \cup {SubSeq(tree.head, 1, n) : n \in 0..(Len(tree.head) - 1)} :
            tree' = [tree EXCEPT !.head = h]
      BY <2>1 DEF MoveBranch
    <3>2. tree'.head = h
      BY <3>1 DEF TypeOK, Trees
    <3>3. NoNewDocuments
      BY <3>2, ChangedHead, ResetHead
    <3>4. QED
      BY <2>1, <3>3 DEF MoveBranch
  <2>2. CASE TouchWorktree
    <3>1. UNCHANGED <<tree.head, tree.exists>>
      BY <2>2 DEF TouchWorktree, TypeOK, Trees
    <3>2. QED
      BY <2>2, <3>1, SameHead DEF TouchWorktree
  <2>3. CASE Crash \/ EditSpec \/ EditPlan \/ StageAdd \/ StageComplete
    BY <2>3, SameHead DEF Crash, EditSpec, EditPlan, StageAdd, StageComplete
  <2>4. QED
    BY <1>8, <2>1, <2>2, <2>3 DEF Environment
<1>9. QED
  BY <1>1, <1>2, <1>3, <1>4, <1>5, <1>6, <1>7, <1>8

LEMMA ImplementationBranch ==
  ASSUME TypeOK, TypeOK', GatesDue, GateStep, BranchIsGated, ImplementationNext
  PROVE  BranchIsGated'
<1> USE DEF Goto, Return, runVars, fileVars, gitVars, ImplementationBody
<1>1. gate.plan # {}
  BY NothingPlanned DEF ImplementationNext, StartImplementation, DocumentsAreGated,
     OpenImplementation, CreateWorktree, CommitProjections, ReadBase, FinishDispatch,
     ApplyPatch, FinishPatches, CompleteImplementation, RecordImplementation
<1>2. approval' = approval /\ gate'.plan = gate.plan /\ ApprovedSpec' = ApprovedSpec
  BY <1>1, Settled DEF ApprovedSpec
<1>3. /\ gate'.delivery = gate.delivery
      /\ gate'.implementation = gate.implementation \/ RecordImplementation
  BY OtherGates DEF ImplementationNext, StartImplementation, OpenImplementation,
     CreateWorktree, CommitProjections, ReadBase, FinishDispatch, ApplyPatch,
     FinishPatches, CompleteImplementation, RecordImplementation, GateNames, TypeOK
<1>4. \A c, n : GatedBelow(c, n) => GatedBelow(c, n)'
  BY <1>2, GatedStays
<1>5. (\A d \in gate.delivery : GatedBelow(d.head, Len(d.base)))'
  BY <1>3, <1>4 DEF BranchIsGated
<1>6. pc \in ImplementationBody => gate.implementation = {}
  BY GroupTable DEF GatesDue, GateDue, Group, GateNames
<1>7. CASE StartImplementation
  <2>1. mem'.spec = disk.spec /\ mem'.plan = disk.plan
    BY <1>7 DEF StartImplementation, TypeOK, Memory
  <2>2. mem'.spec = ApprovedSpec /\ mem'.plan = gate.plan
    BY <1>7, <2>1 DEF StartImplementation, DocumentsAreGated, ApprovedSpec
  <2>3. tree' = tree /\ pc' = "impl_open" /\ gate'.implementation = gate.implementation
    BY <1>7 DEF StartImplementation
  <2>4. QED
    BY <1>1, <1>2, <1>4, <1>5, <2>2, <2>3 DEF BranchIsGated
<1>8. CASE OpenImplementation
  BY <1>1, <1>2, <1>4, <1>5, <1>6, <1>8 DEF BranchIsGated, OpenImplementation
<1>9. CASE CreateWorktree
  <2>1. \A n : GatedBelow(tree.head, n)'
    BY <1>9 DEF CreateWorktree, GatedBelow, StartingCommit
  <2>2. QED
    BY <1>1, <1>2, <1>5, <1>9, <2>1 DEF BranchIsGated, CreateWorktree
<1>10. CASE CommitProjections
  <2>1. PICK s \in mem.spec, p \in mem.plan :
          tree' = [tree EXCEPT !.head = Append(@, Projections(s, p))]
    BY <1>10 DEF CommitProjections
  <2>2. mem.spec = ApprovedSpec /\ mem.plan = gate.plan
    BY <1>10 DEF CommitProjections, BranchIsGated
  <2>3. \E w : approval = {w}
    BY <1>1 DEF GatesDue, ApprovalDue, OneEach, GateNames
  <2>4. ApprovedSpec = {s}
    BY <2>2, <2>3 DEF ApprovedSpec
  <2>5. \E w : gate["plan"] = {w}
    BY <1>1 DEF GatesDue, OneEach, GateNames
  <2>6. gate.plan = {p}
    BY <2>2, <2>5
  <2>7. tree'.head = Append(tree.head, Projections(s, p)) /\ tree.head \in Seq(Changes)
    BY <2>1 DEF TypeOK, Trees, Commits
  <2>8. Projections(s, p) \in Changes
    BY <2>1, NewChange DEF TypeOK, Memory
  <2>9. /\ Len(tree'.head) = Len(tree.head) + 1
        /\ tree'.head[Len(tree.head) + 1] = Projections(s, p)
        /\ \A i \in DOMAIN tree'.head : i = Len(tree.head) + 1 \/ i \in DOMAIN tree.head
        /\ \A i \in DOMAIN tree.head : tree'.head[i] = tree.head[i]
        /\ \A i \in DOMAIN tree'.head : i <= Len(tree'.head)
    BY <2>7, <2>8
  <2>10. Projections(s, p).spec = ApprovedSpec /\ Projections(s, p).plan = gate.plan
    BY <2>4, <2>6 DEF Projections
  <2>11. GatedBelow(tree.head, Len(tree.head))
    BY DEF BranchIsGated
  <2>12. \A i \in DOMAIN tree'.head : IsProjection(tree'.head[i]) =>
           tree'.head[i].spec = ApprovedSpec /\ tree'.head[i].plan = gate.plan
    BY <2>9, <2>10, <2>11 DEF GatedBelow
  <2>13. GatedBelow(tree.head, Len(tree.head))'
    BY <1>2, <2>9, <2>12 DEF GatedBelow
  <2>14. QED
    BY <1>1, <1>2, <1>3, <1>5, <1>6, <1>10, <2>13 DEF BranchIsGated, CommitProjections
<1>11. CASE ReadBase
  <2>1. mem'.base = tree.head
    BY <1>11 DEF ReadBase, TypeOK, Memory
  <2>2. QED
    BY <1>1, <1>2, <1>4, <1>5, <1>6, <1>11, <2>1 DEF BranchIsGated, ReadBase
<1>12. CASE FinishDispatch \/ FinishPatches("impl_apply", "impl_complete")
              \/ CompleteImplementation
  <2>1. /\ mem'.base = mem.base /\ UNCHANGED <<tree, gate>>
        /\ pc \in {"impl_dispatch", "impl_apply", "impl_complete"}
    BY <1>12 DEF FinishDispatch, FinishPatches, CompleteImplementation, TypeOK, Memory
  <2>2. pc' \in {"impl_apply", "impl_complete", "impl_record"}
    BY <1>12 DEF FinishDispatch, FinishPatches, CompleteImplementation
  <2>3. QED
    BY <1>1, <1>2, <1>4, <1>5, <2>1, <2>2 DEF BranchIsGated
<1>13. CASE ApplyPatch("impl_apply", "patch")
  <2>1. tree'.head = Append(tree.head, Change("patch"))
    BY <1>13 DEF ApplyPatch, TypeOK, Trees
  <2>2. NoNewDocuments
    BY <2>1, ChangedHead
  <2>3. \A n : GatedBelow(tree.head, n) => GatedBelow(tree.head, n)'
    BY <1>2, <2>2, GatedStays
  <2>4. mem'.base = mem.base /\ pc' = "impl_apply" /\ pc = "impl_apply"
    BY <1>13 DEF ApplyPatch, TypeOK, Memory
  <2>5. Len(tree'.head) >= Len(tree.head) /\ \A i \in DOMAIN tree'.head : i <= Len(tree'.head)
    BY <2>1, NewChange DEF TypeOK, Trees, Commits
  <2>6. GatedBelow(tree.head, Len(tree.head))'
    BY <2>3, <2>5 DEF BranchIsGated, GatedBelow
  <2>7. QED
    BY <1>1, <1>2, <1>3, <1>5, <1>6, <1>13, <2>3, <2>4, <2>6 DEF BranchIsGated, ApplyPatch
<1>14. CASE RecordImplementation
  <2>1. gate'.implementation = {[base |-> mem.base, head |-> mem.commit]}
    BY <1>14, OtherGates DEF RecordImplementation, GateNames, TypeOK
  <2>2. GatedBelow(tree.head, Len(mem.base))
    BY <1>14 DEF RecordImplementation, BranchIsGated
  <2>3. tree' = tree /\ pc' = "idle"
    BY <1>14 DEF RecordImplementation
  <2>4. \A g \in gate'.implementation : GatedBelow(tree.head, Len(g.base))
    BY <2>1, <2>2
  <2>5. (\A g \in gate.implementation : GatedBelow(tree.head, Len(g.base)))'
    BY <1>4, <2>3, <2>4
  <2>6. QED
    BY <1>1, <1>2, <1>4, <1>5, <2>3, <2>5 DEF BranchIsGated
<1>15. QED
  BY <1>7, <1>8, <1>9, <1>10, <1>11, <1>12, <1>13, <1>14 DEF ImplementationNext

LEMMA DeliveryBranch ==
  ASSUME TypeOK, Evidence, GatesDue, GateStep, BranchIsGated,
         CheckDelivery \/ FinalizeDelivery
  PROVE  BranchIsGated'
<1> USE DEF Goto, Return, runVars, fileVars, gitVars
<1>1. CASE CheckDelivery
  <2>1. PICK r \in records.review :
          /\ BranchAgrees(r)
          /\ mem' = [mem EXCEPT !.base = r.base, !.commit = r.head]
    BY <1>1 DEF CheckDelivery
  <2>2. mem'.base = r.base /\ mem'.commit = tree.head
    BY <2>1 DEF BranchAgrees, TypeOK, Memory
  <2>3. PICK g \in gate.implementation : g.base = r.base
    BY DEF Evidence, ReviewEvidence, OnBase
  <2>4. GatedBelow(tree.head, Len(r.base))
    BY <2>3 DEF BranchIsGated
  <2>5. UNCHANGED <<tree, gate, approval>> /\ pc' = "deliver"
    BY <1>1 DEF CheckDelivery
  <2>6. \A c, n : GatedBelow(c, n) => GatedBelow(c, n)'
    BY <2>5, GatedStays
  <2>7. QED
    BY <2>2, <2>4, <2>5, <2>6 DEF BranchIsGated
<1>2. CASE FinalizeDelivery
  <2>1. gate.plan # {} /\ GatedBelow(mem.commit, Len(mem.base))
    BY <1>2, NothingPlanned DEF FinalizeDelivery, BranchIsGated
  <2>2. approval' = approval /\ gate'.plan = gate.plan
    BY <2>1, Settled
  <2>3. \A c, n : GatedBelow(c, n) => GatedBelow(c, n)'
    BY <2>2, GatedStays
  <2>4. tree' = tree /\ pc' = "idle"
    BY <1>2 DEF FinalizeDelivery
  <2>5. /\ gate'.implementation = gate.implementation
        /\ gate'.delivery \in {gate.delivery, {[base |-> mem.base, head |-> mem.commit]}}
    BY <1>2, OtherGates DEF FinalizeDelivery, GateNames, TypeOK
  <2>6. \A d \in gate'.delivery : GatedBelow(d.head, Len(d.base))
    BY <2>1, <2>5 DEF BranchIsGated
  <2>7. QED
    BY <2>1, <2>2, <2>3, <2>4, <2>5, <2>6 DEF BranchIsGated
<1>3. QED
  BY <1>1, <1>2

LEMMA BranchInvariant == Spec => []BranchIsGated
<1>1. Init => BranchIsGated
  BY DEF Init, BranchIsGated, GatedBelow, NoGates, StartingCommit
<1>2. TypeOK /\ TypeOK' /\ Evidence /\ GatesDue /\ BranchIsGated /\ [Next]_vars
        => BranchIsGated'
  <2>1. Evidence => RunningIsOpen
    BY DEF Evidence
  <2>2. QED
    BY <2>1, NextGateStep, BranchQuietSteps, BranchQuietKeeps, ImplementationBranch,
       DeliveryBranch DEF Next, Stage
<1>3. QED
  BY <1>1, <1>2, RunTypes, EvidenceInvariant, GatesDueInvariant, PTL DEF Spec

(* The documents on a delivered branch are the approved specification and the *)
(* gated plan, whoever saves other documents, resets the branch or commits to *)
(* it meanwhile, and they lie below the base of the range that was verified   *)
(* and reviewed: a document never counts as delivered work.                   *)
THEOREM DocumentsHold == Spec => []CertifiesGatedDocuments
<1>1. TypeOK /\ BranchIsGated => CertifiesGatedDocuments
  <2> SUFFICES ASSUME TypeOK, BranchIsGated, NEW d \in gate.delivery, NEW i \in DOMAIN d.head,
                      IsProjection(d.head[i])
               PROVE  /\ i \in DOMAIN d.base
                      /\ d.head[i].spec = ApprovedSpec /\ d.head[i].plan = gate.plan
    BY DEF CertifiesGatedDocuments, IsProjection, ApprovedSpec
  <2>1. i <= Len(d.base) /\ d.head[i].spec = ApprovedSpec /\ d.head[i].plan = gate.plan
    BY DEF BranchIsGated, GatedBelow
  <2>2. d.head \in Seq(Changes) /\ d.base \in Seq(Changes)
    BY DEF TypeOK, GateEvents, Ranges, Commits
  <2>3. QED
    BY <2>1, <2>2
<1>2. QED
  BY <1>1, RunTypes, BranchInvariant, PTL

-----------------------------------------------------------------------------
(* The rows that a run without manual commands has, and where an invocation   *)
(* may leave them.                                                            *)

InOrder ==
  /\ Len(chain) <= 10
  /\ \A i \in DOMAIN chain :
       /\ chain[i].kind = STAGES[i]
       /\ i < Len(chain) => chain[i].status = "passed"

AllPassed == \A i \in DOMAIN chain : chain[i].status = "passed"

(* How many rows there are at each step, and at which steps all have passed. *)
RowsInPlace ==
  /\ pc = "spec_open" => Len(chain) = 0
  /\ pc \in {"spec_draft", "spec_critique", "spec_complete", "spec_review_open"} =>
       Len(chain) = 1
  /\ pc \in {"spec_round", "spec_gate"} \cup Opens["decision"] => Len(chain) = 2
  /\ pc \in Draws["decision"] => Len(chain) = 3
  /\ pc = "plan_open" => Len(chain) = 4
  /\ pc \in {"plan_draft", "plan_critique", "plan_complete", "plan_review_open"} =>
       Len(chain) = 5
  /\ pc \in {"plan_round", "plan_gate", "plan_review_complete", "impl_open"} =>
       Len(chain) = 6
  /\ pc \in Draws["implementation"] \cup {"verif_open"} => Len(chain) = 7
  /\ pc \in Draws["verification"] \cup {"review_open"} => Len(chain) = 8
  /\ pc \in Draws["review"] \cup {"deliver"} => Len(chain) = 9
  /\ pc \in {"spec_open", "spec_review_open", "spec_decision_open", "decision_start",
             "decision_open", "spec_decision_record", "decision_record", "plan_open",
             "plan_review_open", "impl_open", "impl_record", "verif_open",
             "verif_record", "review_open", "review_record", "deliver"} => AllPassed

(* A gate passes at the last row of its group, and before any later row. *)
GatesAndRows ==
  /\ \A g \in GateNames : /\ gate[g] # {} => GateStage[g] <= Len(chain)
                          /\ GateStage[g] < Len(chain) => gate[g] # {}
  /\ approval # {} <=> Len(chain) >= 4
  /\ pc = "plan_review_complete" => gate.plan # {}

RowsFollow == InOrder /\ RowsInPlace /\ GatesAndRows

(* The inductive invariant. *)
RowsHold == manual = 0 => RowsFollow

LEMMA StageNames ==
  /\ STAGES[1] = "spec" /\ STAGES[2] = "spec_review" /\ STAGES[3] = "spec_decision"
  /\ STAGES[4] = "awaiting_approval" /\ STAGES[5] = "plan"
  /\ STAGES[6] = "plan_review" /\ STAGES[7] = "implementation"
  /\ STAGES[8] = "verification" /\ STAGES[9] = "code_review"
  /\ STAGES[10] = "delivery_check"
BY DEF STAGES

LEMMA StagesDiffer == \A i, j \in 1..10 : STAGES[i] = STAGES[j] => i = j
<1> SUFFICES ASSUME NEW i \in 1..10, NEW j \in 1..10, STAGES[i] = STAGES[j] PROVE i = j
  OBVIOUS
<1>1. /\ i = 1 \/ i = 2 \/ i = 3 \/ i = 4 \/ i = 5 \/ i = 6 \/ i = 7 \/ i = 8 \/ i = 9 \/ i = 10
      /\ j = 1 \/ j = 2 \/ j = 3 \/ j = 4 \/ j = 5 \/ j = 6 \/ j = 7 \/ j = 8 \/ j = 9 \/ j = 10
  OBVIOUS
<1>2. QED
  BY <1>1, StageNames

LEMMA GateStages ==
  /\ GateStage["spec"] = 2 /\ GateStage["decision"] = 3 /\ GateStage["plan"] = 6
  /\ GateStage["implementation"] = 7 /\ GateStage["verification"] = 8
  /\ GateStage["review"] = 9 /\ GateStage["delivery"] = 10
BY DEF GateStage

LEMMA RowsUnchanged ==
  ASSUME chain' = chain
  PROVE  Len(chain') = Len(chain) /\ (InOrder => InOrder') /\ (AllPassed => AllPassed')
BY DEF InOrder, AllPassed

LEMMA LastRowInOrder ==
  ASSUME TypeOK, InOrder, NEW s \in RowStatuses, SetLast(s)
  PROVE  Len(chain') = Len(chain) /\ InOrder' /\ (s = "passed" => AllPassed')
<1>1. CASE chain = <<>>
  <2>1. chain' = chain
    BY <1>1 DEF SetLast
  <2>2. QED
    BY <1>1, <2>1 DEF InOrder, AllPassed
<1>2. CASE chain # <<>>
  <2> DEFINE n == Len(chain)
             row == [chain[n] EXCEPT !.status = s]
  <2>1. chain \in Seq(StageRows) /\ n \in 1..Len(chain) /\ n \in Nat
    BY <1>2 DEF TypeOK
  <2>2. chain[n] \in StageRows
    BY <2>1
  <2>3. row \in StageRows /\ row.kind = chain[n].kind /\ row.status = s
    BY <2>2 DEF StageRows, RowStatuses
  <2>4. chain' = [chain EXCEPT ![n] = row]
    BY DEF SetLast
  <2> HIDE DEF row, n
  <2>5. /\ Len(chain') = Len(chain) /\ DOMAIN chain' = DOMAIN chain
        /\ \A j \in DOMAIN chain : chain'[j] = IF j = n THEN row ELSE chain[j]
    BY <2>1, <2>3, <2>4, ExceptSeq
  <2>6. \A j \in DOMAIN chain : j < n \/ j = n
    BY <2>1 DEF n
  <2>7. QED
    BY <2>3, <2>5, <2>6 DEF InOrder, AllPassed, n
<1>3. QED
  BY <1>1, <1>2

LEMMA NextRowInOrder ==
  ASSUME TypeOK, InOrder, AllPassed, NEW n \in 1..10, Len(chain) = n - 1,
         NEW s \in RowStatuses,
         chain' = Append(chain, [kind |-> STAGES[n], status |-> s])
  PROVE  Len(chain') = n /\ InOrder' /\ (s = "passed" => AllPassed')
<1> DEFINE row == [kind |-> STAGES[n], status |-> s]
<1>1. chain \in Seq(StageRows) /\ Len(chain) + 1 = n
  BY DEF TypeOK
<1>2. row.kind = STAGES[n] /\ row.status = s
  OBVIOUS
<1>3. STAGES[n] \in Kinds
  BY DEF Kinds
<1>4. row \in StageRows
  BY <1>3 DEF StageRows, RowStatuses
<1> HIDE DEF row
<1>5. /\ Len(chain') = n /\ DOMAIN chain' = 1..n
      /\ chain'[n] = row
      /\ \A j \in DOMAIN chain : chain'[j] = chain[j]
      /\ \A j \in DOMAIN chain' : j \in DOMAIN chain \/ j = n
  BY <1>1, <1>4 DEF row
<1>6. QED
  BY <1>1, <1>2, <1>5 DEF InOrder, AllPassed

(* The row an invocation looks at before it starts is where its kind says. *)
LEMMA StartsAtItsRow ==
  ASSUME TypeOK, InOrder, NEW n \in 1..10, EndsWithPassed(STAGES[n])
  PROVE  Len(chain) = n /\ AllPassed
<1>1. chain \in Seq(StageRows) /\ chain # <<>> /\ Len(chain) <= 10
  BY DEF TypeOK, EndsWithPassed, InOrder
<1>2. Len(chain) \in 1..10 /\ Len(chain) \in DOMAIN chain
  <2>1. Len(chain) \in Nat /\ Len(chain) # 0 /\ DOMAIN chain = 1..Len(chain)
    BY <1>1, EmptySeq
  <2>2. \A l \in Nat : l # 0 /\ l <= 10 => l \in 1..10 /\ l \in 1..l
    OBVIOUS
  <2>3. Len(chain) \in 1..10 /\ Len(chain) \in 1..Len(chain)
    BY <1>1, <2>1, <2>2
  <2>4. QED
    BY <2>1, <2>3
<1>3. chain[Len(chain)] = [kind |-> STAGES[n], status |-> "passed"]
  BY DEF EndsWithPassed, Last
<1>4. STAGES[Len(chain)] = STAGES[n] /\ chain[Len(chain)].status = "passed"
  BY <1>2, <1>3 DEF InOrder
<1>5. Len(chain) = n
  BY <1>2, <1>4, StagesDiffer
<1>6. \A i \in DOMAIN chain : i < Len(chain) \/ i = Len(chain)
  BY <1>1
<1>7. QED
  BY <1>4, <1>5, <1>6 DEF InOrder, AllPassed

(* The gates follow each other. *)
LEMMA GatesFollow ==
  ASSUME GatesDue
  PROVE  /\ \A g \in GateNames : pc \in Group(g) => PriorPassed(g) /\ gate[g] = {}
         /\ gate["decision"] # {} => gate["spec"] # {}
         /\ gate["plan"] # {} => gate["decision"] # {}
         /\ gate["implementation"] # {} => gate["plan"] # {}
         /\ gate["verification"] # {} => gate["implementation"] # {}
         /\ gate["review"] # {} => gate["verification"] # {}
         /\ gate["delivery"] # {} => gate["review"] # {}
BY RowTable DEF GatesDue, GateDue, PriorPassed, GateNames

(* How the gates keep in step with the rows. *)
LEMMA GatesStayInStep ==
  ASSUME TypeOK, GatesAndRows, Len(chain') = Len(chain),
         pc' = "plan_review_complete" => gate'.plan # {},
         \/ UNCHANGED <<gate, approval>>
         \/ /\ UNCHANGED approval
            /\ \E g \in GateNames : \E w : RecordGate(g, w) /\ GateStage[g] = Len(chain)
  PROVE  GatesAndRows'
<1>1. CASE UNCHANGED <<gate, approval>>
  BY <1>1 DEF GatesAndRows
<1>2. ASSUME NEW g \in GateNames, NEW w, RecordGate(g, w), GateStage[g] = Len(chain),
             UNCHANGED approval
      PROVE  GatesAndRows'
  <2>1. \A h \in GateNames : gate'[h] = IF h = g THEN {w} ELSE gate[h]
    BY <1>2, OtherGates DEF TypeOK
  <2>2. GateStage[g] <= Len(chain)
    BY <1>2 DEF TypeOK
  <2>3. QED
    BY <1>2, <2>1, <2>2 DEF GatesAndRows
<1>3. QED
  BY <1>1, <1>2

(* The next row, when the gates of the rows before it have passed. *)
LEMMA NextRowFollows ==
  ASSUME TypeOK, InOrder, GatesAndRows, AllPassed, NEW n \in 1..10, Len(chain) = n - 1,
         NEW s \in RowStatuses,
         chain' = Append(chain, [kind |-> STAGES[n], status |-> s]),
         gate' = gate, pc' # "plan_review_complete",
         \A g \in GateNames : GateStage[g] = n - 1 => gate[g] # {},
         \/ n # 4 /\ approval' = approval
         \/ n = 4 /\ approval' # {}
  PROVE  Len(chain') = n /\ InOrder' /\ GatesAndRows' /\ (s = "passed" => AllPassed')
<1>1. Len(chain') = n /\ InOrder' /\ (s = "passed" => AllPassed')
  BY NextRowInOrder
<1>2. ASSUME NEW g \in GateNames
      PROVE  /\ gate[g] # {} => GateStage[g] <= n
             /\ GateStage[g] < n => gate[g] # {}
  <2>1. GateStage[g] \in Nat
    BY GateStages DEF GateNames
  <2>2. /\ gate[g] # {} => GateStage[g] <= n - 1
        /\ GateStage[g] < n - 1 => gate[g] # {}
        /\ GateStage[g] = n - 1 => gate[g] # {}
    BY DEF GatesAndRows
  <2>3. QED
    BY <2>1, <2>2
<1>3. approval # {} <=> n - 1 >= 4
  BY DEF GatesAndRows
<1>4. approval' # {} <=> n >= 4
  BY <1>3
<1>5. QED
  BY <1>1, <1>2, <1>4 DEF GatesAndRows

LEMMA SpecRows ==
  ASSUME TypeOK, GatesDue, RowsFollow, SpecNext
  PROVE  RowsFollow'
<1> USE DEF Goto, Return, runVars, fileVars, gitVars, RowsFollow
<1>1. CASE StartSpec
  BY <1>1, RowsUnchanged, GroupTable DEF StartSpec, RowsInPlace, AllPassed, GatesAndRows
<1>2. CASE DraftSpec \/ CritiqueSpec \/ ReconcileSpec
  <2>1. chain' = chain /\ gate' = gate /\ approval' = approval
    BY <1>2 DEF DraftSpec, CritiqueSpec, ReconcileSpec, WriteSpec
  <2>2. RowsInPlace'
    BY <1>2, <2>1, RowsUnchanged, GroupTable DEF DraftSpec, CritiqueSpec, ReconcileSpec,
       WriteSpec, RowsInPlace
  <2>3. pc' # "plan_review_complete"
    BY <1>2 DEF DraftSpec, CritiqueSpec, ReconcileSpec
  <2>4. QED
    BY <2>1, <2>2, <2>3, RowsUnchanged, GatesStayInStep
<1>3. CASE OpenSpec
  <2>1. Len(chain) = 1 - 1 /\ AllPassed /\ InsertStage(STAGES[1])
    BY <1>3, StageNames DEF OpenSpec, RowsInPlace
  <2>2. \A g \in GateNames : GateStage[g] = 1 - 1 => gate[g] # {}
    BY GateStages DEF GateNames
  <2>3. Len(chain') = 1 /\ InOrder' /\ GatesAndRows'
    BY <1>3, <2>1, <2>2, NextRowFollows DEF OpenSpec, InsertStage, RowStatuses
  <2>4. QED
    BY <1>3, <2>3, GroupTable DEF OpenSpec, RowsInPlace
<1>4. CASE OpenSpecReview
  <2>1. Len(chain) = 2 - 1 /\ AllPassed /\ InsertStage(STAGES[2])
    BY <1>4, StageNames DEF OpenSpecReview, RowsInPlace
  <2>2. \A g \in GateNames : GateStage[g] = 2 - 1 => gate[g] # {}
    BY GateStages DEF GateNames
  <2>3. Len(chain') = 2 /\ InOrder' /\ GatesAndRows'
    BY <1>4, <2>1, <2>2, NextRowFollows DEF OpenSpecReview, InsertStage, RowStatuses
  <2>4. QED
    BY <1>4, <2>3, GroupTable DEF OpenSpecReview, RowsInPlace
<1>5. CASE OpenPassedDecision
  <2>1. Len(chain) = 3 - 1 /\ AllPassed /\ InsertStage(STAGES[3])
    BY <1>5, StageNames, GroupTable DEF OpenPassedDecision, RowsInPlace
  <2>2. \A g \in GateNames : GateStage[g] = 3 - 1 => gate[g] # {}
    BY <1>5, GateStages, GatesFollow, GroupTable, RowTable
       DEF GateNames, OpenPassedDecision, Group, PriorPassed
  <2>3. Len(chain') = 3 /\ InOrder' /\ GatesAndRows'
    BY <1>5, <2>1, <2>2, NextRowFollows DEF OpenPassedDecision, InsertStage, RowStatuses
  <2>4. QED
    BY <1>5, <2>3, GroupTable DEF OpenPassedDecision, RowsInPlace
<1>6. CASE CompleteSpec \/ CompleteSpecReview \/ CompletePassedDecision
  <2>1. SetLast("passed") /\ UNCHANGED <<gate, approval>> /\ pc' # "plan_review_complete"
    BY <1>6 DEF CompleteSpec, CompleteSpecReview, CompletePassedDecision
  <2>2. Len(chain') = Len(chain) /\ InOrder' /\ AllPassed'
    BY <2>1, LastRowInOrder DEF RowStatuses
  <2>3. RowsInPlace'
    BY <1>6, <2>2, GroupTable DEF CompleteSpec, CompleteSpecReview, CompletePassedDecision,
       RowsInPlace
  <2>4. QED
    BY <2>1, <2>2, <2>3, GatesStayInStep
<1>7. CASE PassSpecGate \/ RecordPassedDecision
  <2>1. PICK g \in {"spec", "decision"} :
          /\ \E w : RecordGate(g, w)
          /\ UNCHANGED <<chain, approval>>
          /\ \/ g = "spec" /\ pc = "spec_gate" /\ pc' = "spec_review_complete"
             \/ g = "decision" /\ pc = "spec_decision_record" /\ pc' = "idle"
    BY <1>7 DEF PassSpecGate, RecordPassedDecision
  <2>2. GateStage[g] = Len(chain) /\ g \in GateNames
    BY <2>1, GateStages, GroupTable DEF RowsInPlace, GateNames
  <2>3. RowsInPlace'
    BY <2>1, RowsUnchanged, GroupTable DEF RowsInPlace
  <2>4. QED
    BY <2>1, <2>2, <2>3, RowsUnchanged, GatesStayInStep
<1>8. QED
  BY <1>1, <1>2, <1>3, <1>4, <1>5, <1>6, <1>7 DEF SpecNext

LEMMA RowsStayInPlace ==
  ASSUME TypeOK, RowsFollow, UNCHANGED <<chain, gate, approval>>, RowsInPlace',
         pc' # "plan_review_complete"
  PROVE  RowsFollow'
BY RowsUnchanged, GatesStayInStep DEF RowsFollow

LEMMA OutsidePlaces ==
  ASSUME pc' \in {"idle", "abort_stage", "abort_run", "catch", "catch_run"}
  PROVE  RowsInPlace'
BY GroupTable DEF RowsInPlace

LEMMA RecordInPlace ==
  ASSUME TypeOK, RowsFollow, UNCHANGED <<chain, approval>>, RowsInPlace',
         NEW g \in GateNames, \E w : RecordGate(g, w), GateStage[g] = Len(chain),
         pc' # "plan_review_complete"
  PROVE  RowsFollow'
BY RowsUnchanged, GatesStayInStep DEF RowsFollow

LEMMA DecisionRows ==
  ASSUME TypeOK, GatesDue, RowsFollow, DecisionNext
  PROVE  RowsFollow'
<1> USE DEF Goto, Return, runVars, fileVars, gitVars, ctlVars, RowsFollow
<1>1. ASSUME NEW q \in Questions, AnswerQuestion(q) PROVE RowsFollow'
  <2>1. UNCHANGED <<chain, gate, approval>> /\ pc = "idle" /\ pc' = "idle"
    BY <1>1 DEF AnswerQuestion
  <2>2. QED
    BY <2>1, RowsStayInPlace, OutsidePlaces
<1>2. CASE ObserveDecision
  <2>1. Len(chain) = 2 /\ UNCHANGED <<chain, gate, approval>>
    BY <1>2 DEF ObserveDecision
  <2>2. \A i \in DOMAIN chain : i \in 1..2
    BY <2>1 DEF TypeOK
  <2>3. AllPassed
    BY <1>2, <2>2 DEF ObserveDecision, AllPassed
  <2>4. RowsInPlace'
    BY <1>2, <2>1, <2>3, RowsUnchanged, GroupTable DEF ObserveDecision, RowsInPlace
  <2>5. QED
    BY <1>2, <2>1, <2>4, RowsStayInPlace DEF ObserveDecision
<1>3. CASE StartDecision \/ RefuseDecision \/ PassAllDenied \/ FoldAnswers
  <2>1. UNCHANGED <<chain, gate, approval>> /\ pc' # "plan_review_complete"
    BY <1>3 DEF StartDecision, RefuseDecision, PassAllDenied, FoldAnswers
  <2>2. RowsInPlace'
    BY <1>3, <2>1, RowsUnchanged, GroupTable DEF StartDecision, RefuseDecision, PassAllDenied, FoldAnswers, RowsInPlace
  <2>3. QED
    BY <2>1, <2>2, RowsStayInPlace
<1>4. CASE OpenDecision
  <2>1. Len(chain) = 3 - 1 /\ AllPassed /\ InsertStage(STAGES[3])
    BY <1>4, StageNames, GroupTable DEF OpenDecision, RowsInPlace
  <2>2. \A g \in GateNames : GateStage[g] = 3 - 1 => gate[g] # {}
    BY <1>4, GateStages, GatesFollow, GroupTable, RowTable
       DEF GateNames, OpenDecision, Group, PriorPassed
  <2>3. Len(chain') = 3 /\ InOrder' /\ GatesAndRows'
    BY <1>4, <2>1, <2>2, NextRowFollows DEF OpenDecision, InsertStage, RowStatuses
  <2>4. QED
    BY <1>4, <2>3, GroupTable DEF OpenDecision, RowsInPlace
<1>5. CASE CompleteDecision
  <2>1. /\ SetLast("passed") \/ SetLast("in_progress")
        /\ UNCHANGED <<gate, approval>> /\ pc' # "plan_review_complete"
    BY <1>5 DEF CompleteDecision
  <2>2. Len(chain') = Len(chain) /\ InOrder' /\ (SetLast("passed") => AllPassed')
    BY <2>1, LastRowInOrder DEF RowStatuses
  <2>3. RowsInPlace'
    BY <1>5, <2>2, GroupTable DEF CompleteDecision, RowsInPlace
  <2>4. QED
    BY <2>1, <2>2, <2>3, GatesStayInStep
<1>6. CASE RecordDecision
  <2>1. \E w : RecordGate("decision", w)
    BY <1>6 DEF RecordDecision
  <2>2. GateStage["decision"] = Len(chain) /\ "decision" \in GateNames
    BY <1>6, GateStages, GroupTable DEF RecordDecision, RowsInPlace, GateNames
  <2>3. QED
    BY <1>6, <2>1, <2>2, RecordInPlace, OutsidePlaces DEF RecordDecision
<1>7. QED
  BY <1>1, <1>2, <1>3, <1>4, <1>5, <1>6 DEF DecisionNext

LEMMA PlanRows ==
  ASSUME TypeOK, GatesDue, RowsFollow, PlanNext
  PROVE  RowsFollow'
<1> USE DEF Goto, Return, runVars, fileVars, gitVars, ctlVars, RowsFollow
<1>1. CASE StartPlan
  <2>1. EndsWithPassed(STAGES[4])
    BY <1>1, StageNames DEF StartPlan, MayStart
  <2>2. Len(chain) = 4 /\ AllPassed
    BY <2>1, StartsAtItsRow
  <2>3. UNCHANGED <<chain, gate, approval>> /\ pc' # "plan_review_complete"
    BY <1>1 DEF StartPlan, MayStart
  <2>4. RowsInPlace'
    BY <1>1, <2>2, <2>3, RowsUnchanged, GroupTable DEF StartPlan, MayStart, RowsInPlace
  <2>5. QED
    BY <2>3, <2>4, RowsStayInPlace
<1>2. CASE OpenPlan
  <2>1. Len(chain) = 5 - 1 /\ AllPassed /\ InsertStage(STAGES[5])
    BY <1>2, StageNames, GroupTable DEF OpenPlan, RowsInPlace
  <2>2. \A g \in GateNames : GateStage[g] = 5 - 1 => gate[g] # {}
    BY GateStages DEF GateNames
  <2>3. Len(chain') = 5 /\ InOrder' /\ GatesAndRows'
    BY <1>2, <2>1, <2>2, NextRowFollows DEF OpenPlan, InsertStage, RowStatuses
  <2>4. QED
    BY <1>2, <2>3, GroupTable DEF OpenPlan, RowsInPlace
<1>3. CASE DraftPlan \/ CritiquePlan \/ ReconcilePlan
  <2>1. UNCHANGED <<chain, gate, approval>> /\ pc' # "plan_review_complete"
    BY <1>3 DEF DraftPlan, CritiquePlan, ReconcilePlan, RevisePlan
  <2>2. RowsInPlace'
    BY <1>3, <2>1, RowsUnchanged, GroupTable DEF DraftPlan, CritiquePlan, ReconcilePlan, RevisePlan, RowsInPlace
  <2>3. QED
    BY <2>1, <2>2, RowsStayInPlace
<1>4. CASE CompletePlan \/ CompletePlanReview
  <2>1. /\ SetLast("passed") \/ SetLast("in_progress")
        /\ UNCHANGED <<gate, approval>> /\ pc' # "plan_review_complete"
    BY <1>4 DEF CompletePlan, CompletePlanReview
  <2>2. Len(chain') = Len(chain) /\ InOrder' /\ (SetLast("passed") => AllPassed')
    BY <2>1, LastRowInOrder DEF RowStatuses
  <2>3. RowsInPlace'
    BY <1>4, <2>2, GroupTable DEF CompletePlan, CompletePlanReview, RowsInPlace
  <2>4. QED
    BY <2>1, <2>2, <2>3, GatesStayInStep
<1>5. CASE OpenPlanReview
  <2>1. Len(chain) = 6 - 1 /\ AllPassed /\ InsertStage(STAGES[6])
    BY <1>5, StageNames, GroupTable DEF OpenPlanReview, RowsInPlace
  <2>2. \A g \in GateNames : GateStage[g] = 6 - 1 => gate[g] # {}
    BY GateStages DEF GateNames
  <2>3. Len(chain') = 6 /\ InOrder' /\ GatesAndRows'
    BY <1>5, <2>1, <2>2, NextRowFollows DEF OpenPlanReview, InsertStage, RowStatuses
  <2>4. QED
    BY <1>5, <2>3, GroupTable DEF OpenPlanReview, RowsInPlace
<1>6. CASE PassPlanGate
  <2>1. PICK p : RecordGate("plan", p)
    BY <1>6 DEF PassPlanGate
  <2>2. GateStage["plan"] = Len(chain) /\ "plan" \in GateNames
    BY <1>6, GateStages DEF PassPlanGate, RowsInPlace, GateNames
  <2>3. gate'.plan = {p}
    BY <2>1, OtherGates DEF TypeOK, GateNames
  <2>4. RowsInPlace'
    BY <1>6, RowsUnchanged, GroupTable DEF PassPlanGate, RowsInPlace
  <2>5. GatesAndRows'
    BY <1>6, <2>1, <2>2, <2>3, GatesStayInStep DEF PassPlanGate
  <2>6. QED
    BY <1>6, <2>4, <2>5, RowsUnchanged DEF PassPlanGate
<1>7. QED
  BY <1>1, <1>2, <1>3, <1>4, <1>5, <1>6 DEF PlanNext

LEMMA ImplementationRows ==
  ASSUME TypeOK, GatesDue, RowsFollow, ImplementationNext
  PROVE  RowsFollow'
<1> USE DEF Goto, Return, runVars, fileVars, gitVars, ctlVars, RowsFollow
<1>1. CASE StartImplementation
  <2>1. EndsWithPassed(STAGES[6])
    BY <1>1, StageNames DEF StartImplementation, MayStart
  <2>2. Len(chain) = 6 /\ AllPassed
    BY <2>1, StartsAtItsRow
  <2>3. UNCHANGED <<chain, gate, approval>> /\ pc' # "plan_review_complete"
    BY <1>1 DEF StartImplementation, MayStart
  <2>4. RowsInPlace'
    BY <1>1, <2>2, <2>3, RowsUnchanged, GroupTable DEF StartImplementation, MayStart, RowsInPlace
  <2>5. QED
    BY <2>3, <2>4, RowsStayInPlace
<1>2. CASE OpenImplementation
  <2>1. Len(chain) = 7 - 1 /\ AllPassed /\ InsertStage(STAGES[7])
    BY <1>2, StageNames, GroupTable DEF OpenImplementation, RowsInPlace
  <2>2. \A g \in GateNames : GateStage[g] = 7 - 1 => gate[g] # {}
    BY <1>2, GateStages, GatesFollow, GroupTable, RowTable
       DEF GateNames, OpenImplementation, Group, PriorPassed
  <2>3. Len(chain') = 7 /\ InOrder' /\ GatesAndRows'
    BY <1>2, <2>1, <2>2, NextRowFollows DEF OpenImplementation, InsertStage, RowStatuses
  <2>4. QED
    BY <1>2, <2>3, GroupTable DEF OpenImplementation, RowsInPlace
<1>3. CASE CreateWorktree \/ CommitProjections \/ ReadBase \/ FinishDispatch
             \/ ApplyPatch("impl_apply", "patch") \/ FinishPatches("impl_apply", "impl_complete")
  <2>1. UNCHANGED <<chain, gate, approval>> /\ pc' # "plan_review_complete"
    BY <1>3 DEF CreateWorktree, CommitProjections, ReadBase, FinishDispatch,
       ApplyPatch, FinishPatches
  <2>2. RowsInPlace'
    BY <1>3, <2>1, RowsUnchanged, GroupTable DEF CreateWorktree, CommitProjections, ReadBase, FinishDispatch,
       ApplyPatch, FinishPatches, RowsInPlace
  <2>3. QED
    BY <2>1, <2>2, RowsStayInPlace
<1>4. CASE CompleteImplementation
  <2>1. /\ SetLast("passed") \/ SetLast("in_progress")
        /\ UNCHANGED <<gate, approval>> /\ pc' # "plan_review_complete"
    BY <1>4 DEF CompleteImplementation
  <2>2. Len(chain') = Len(chain) /\ InOrder' /\ (SetLast("passed") => AllPassed')
    BY <2>1, LastRowInOrder DEF RowStatuses
  <2>3. RowsInPlace'
    BY <1>4, <2>2, GroupTable DEF CompleteImplementation, RowsInPlace
  <2>4. QED
    BY <2>1, <2>2, <2>3, GatesStayInStep
<1>5. CASE RecordImplementation
  <2>1. \E w : RecordGate("implementation", w)
    BY <1>5 DEF RecordImplementation
  <2>2. GateStage["implementation"] = Len(chain) /\ "implementation" \in GateNames
    BY <1>5, GateStages, GroupTable DEF RecordImplementation, RowsInPlace, GateNames
  <2>3. QED
    BY <1>5, <2>1, <2>2, RecordInPlace, OutsidePlaces DEF RecordImplementation
<1>6. QED
  BY <1>1, <1>2, <1>3, <1>4, <1>5 DEF ImplementationNext

LEMMA VerificationRows ==
  ASSUME TypeOK, GatesDue, RowsFollow, VerificationNext(CommandsLeave)
  PROVE  RowsFollow'
<1> USE DEF Goto, Return, runVars, fileVars, gitVars, ctlVars, RowsFollow
<1>1. CASE StartVerification
  <2>1. EndsWithPassed(STAGES[7])
    BY <1>1, StageNames DEF StartVerification, MayStart
  <2>2. Len(chain) = 7 /\ AllPassed
    BY <2>1, StartsAtItsRow
  <2>3. UNCHANGED <<chain, gate, approval>> /\ pc' # "plan_review_complete"
    BY <1>1 DEF StartVerification, MayStart
  <2>4. RowsInPlace'
    BY <1>1, <2>2, <2>3, RowsUnchanged, GroupTable DEF StartVerification, MayStart, RowsInPlace
  <2>5. QED
    BY <2>3, <2>4, RowsStayInPlace
<1>2. CASE OpenVerification
  <2>1. Len(chain) = 8 - 1 /\ AllPassed /\ InsertStage(STAGES[8])
    BY <1>2, StageNames, GroupTable DEF OpenVerification, RowsInPlace
  <2>2. \A g \in GateNames : GateStage[g] = 8 - 1 => gate[g] # {}
    BY <1>2, GateStages, GatesFollow, GroupTable, RowTable
       DEF GateNames, OpenVerification, Group, PriorPassed
  <2>3. Len(chain') = 8 /\ InOrder' /\ GatesAndRows'
    BY <1>2, <2>1, <2>2, NextRowFollows DEF OpenVerification, InsertStage, RowStatuses
  <2>4. QED
    BY <1>2, <2>3, GroupTable DEF OpenVerification, RowsInPlace
<1>3. CASE BeginVerification \/ CompleteVerification
  <2>1. /\ SetLast("passed") \/ SetLast("in_progress")
        /\ UNCHANGED <<gate, approval>> /\ pc' # "plan_review_complete"
    BY <1>3 DEF BeginVerification, CompleteVerification
  <2>2. Len(chain') = Len(chain) /\ InOrder' /\ (SetLast("passed") => AllPassed')
    BY <2>1, LastRowInOrder DEF RowStatuses
  <2>3. RowsInPlace'
    BY <1>3, <2>2, GroupTable DEF BeginVerification, CompleteVerification, RowsInPlace
  <2>4. QED
    BY <2>1, <2>2, <2>3, GatesStayInStep
<1>4. CASE CheckEntry("verif_entry", "verif_command", "verif_block") \/ WriteVerification
             \/ RunCommand("verif_command", "verif_write", "verif_block", CommandsLeave)
  <2>1. UNCHANGED <<chain, gate, approval>> /\ pc' # "plan_review_complete"
    BY <1>4 DEF CheckEntry, RunCommand, WriteVerification
  <2>2. RowsInPlace'
    BY <1>4, <2>1, RowsUnchanged, GroupTable DEF CheckEntry, RunCommand, WriteVerification, RowsInPlace
  <2>3. QED
    BY <2>1, <2>2, RowsStayInPlace
<1>5. CASE RecordVerification
  <2>1. \E w : RecordGate("verification", w)
    BY <1>5 DEF RecordVerification
  <2>2. GateStage["verification"] = Len(chain) /\ "verification" \in GateNames
    BY <1>5, GateStages, GroupTable DEF RecordVerification, RowsInPlace, GateNames
  <2>3. QED
    BY <1>5, <2>1, <2>2, RecordInPlace, OutsidePlaces DEF RecordVerification
<1>6. QED
  BY <1>1, <1>2, <1>3, <1>4, <1>5 DEF VerificationNext

LEMMA CodeReviewRows ==
  ASSUME TypeOK, GatesDue, RowsFollow, CodeReviewNext(CommandsLeave)
  PROVE  RowsFollow'
<1> USE DEF Goto, Return, runVars, fileVars, gitVars, ctlVars, RowsFollow
<1>1. CASE StartCodeReview
  <2>1. EndsWithPassed(STAGES[8])
    BY <1>1, StageNames DEF StartCodeReview, MayStart
  <2>2. Len(chain) = 8 /\ AllPassed
    BY <2>1, StartsAtItsRow
  <2>3. UNCHANGED <<chain, gate, approval>> /\ pc' # "plan_review_complete"
    BY <1>1 DEF StartCodeReview, MayStart
  <2>4. RowsInPlace'
    BY <1>1, <2>2, <2>3, RowsUnchanged, GroupTable DEF StartCodeReview, MayStart, RowsInPlace
  <2>5. QED
    BY <2>3, <2>4, RowsStayInPlace
<1>2. CASE OpenCodeReview
  <2>1. Len(chain) = 9 - 1 /\ AllPassed /\ InsertStage(STAGES[9])
    BY <1>2, StageNames, GroupTable DEF OpenCodeReview, RowsInPlace
  <2>2. \A g \in GateNames : GateStage[g] = 9 - 1 => gate[g] # {}
    BY <1>2, GateStages, GatesFollow, GroupTable, RowTable
       DEF GateNames, OpenCodeReview, Group, PriorPassed
  <2>3. Len(chain') = 9 /\ InOrder' /\ GatesAndRows'
    BY <1>2, <2>1, <2>2, NextRowFollows DEF OpenCodeReview, InsertStage, RowStatuses
  <2>4. QED
    BY <1>2, <2>3, GroupTable DEF OpenCodeReview, RowsInPlace
<1>3. CASE BeginCodeReview \/ CompleteCodeReview
  <2>1. /\ SetLast("passed") \/ SetLast("in_progress")
        /\ UNCHANGED <<gate, approval>> /\ pc' # "plan_review_complete"
    BY <1>3 DEF BeginCodeReview, CompleteCodeReview
  <2>2. Len(chain') = Len(chain) /\ InOrder' /\ (SetLast("passed") => AllPassed')
    BY <2>1, LastRowInOrder DEF RowStatuses
  <2>3. RowsInPlace'
    BY <1>3, <2>2, GroupTable DEF BeginCodeReview, CompleteCodeReview, RowsInPlace
  <2>4. QED
    BY <2>1, <2>2, <2>3, GatesStayInStep
<1>4. CASE SettlePanel \/ FinishRemedy \/ ApplyPatch("review_apply", "remediation")
             \/ FinishPatches("review_apply", "review_entry") \/ WriteCodeReview
             \/ CheckEntry("review_entry", "review_command", "review_block")
             \/ RunCommand("review_command", "review_panel", "review_block", CommandsLeave)
  <2>1. UNCHANGED <<chain, gate, approval>> /\ pc' # "plan_review_complete"
    BY <1>4 DEF SettlePanel, FinishRemedy, ApplyPatch, FinishPatches,
       WriteCodeReview, CheckEntry, RunCommand
  <2>2. RowsInPlace'
    BY <1>4, <2>1, RowsUnchanged, GroupTable DEF SettlePanel, FinishRemedy, ApplyPatch, FinishPatches,
       WriteCodeReview, CheckEntry, RunCommand, RowsInPlace
  <2>3. QED
    BY <2>1, <2>2, RowsStayInPlace
<1>5. CASE RecordCodeReview
  <2>1. \E w : RecordGate("review", w)
    BY <1>5 DEF RecordCodeReview
  <2>2. GateStage["review"] = Len(chain) /\ "review" \in GateNames
    BY <1>5, GateStages, GroupTable DEF RecordCodeReview, RowsInPlace, GateNames
  <2>3. QED
    BY <1>5, <2>1, <2>2, RecordInPlace, OutsidePlaces DEF RecordCodeReview
<1>6. QED
  BY <1>1, <1>2, <1>3, <1>4, <1>5 DEF CodeReviewNext

LEMMA DeliveryRows ==
  ASSUME TypeOK, GatesDue, RowsFollow, CheckDelivery \/ FinalizeDelivery \/ RollBackDelivery
  PROVE  RowsFollow'
<1> USE DEF Goto, Return, runVars, fileVars, gitVars, RowsFollow
<1>1. CASE CheckDelivery
  <2>1. EndsWithPassed(STAGES[9])
    BY <1>1, StageNames DEF CheckDelivery, MayStart
  <2>2. Len(chain) = 9 /\ AllPassed
    BY <2>1, StartsAtItsRow
  <2>3. UNCHANGED <<chain, gate, approval>> /\ pc' # "plan_review_complete"
    BY <1>1 DEF CheckDelivery
  <2>4. RowsInPlace'
    BY <1>1, <2>2, <2>3, RowsUnchanged, GroupTable DEF CheckDelivery, RowsInPlace
  <2>5. QED
    BY <2>3, <2>4, RowsStayInPlace
<1>2. CASE FinalizeDelivery
  <2>1. PICK s \in RowStatuses : chain' = Append(chain, [kind |-> STAGES[10], status |-> s])
    BY <1>2, StageNames DEF FinalizeDelivery, RowStatuses
  <2>2. Len(chain) = 10 - 1 /\ AllPassed
    BY <1>2, GroupTable DEF FinalizeDelivery, RowsInPlace
  <2>3. Len(chain') = 10 /\ InOrder'
    BY <2>1, <2>2, NextRowInOrder
  <2>4. \A g \in GateNames \ {"delivery"} : gate[g] # {}
    BY <1>2, GatesFollow, GroupTable, RowTable
       DEF GateNames, FinalizeDelivery, Group, PriorPassed
  <2>5. \A g \in GateNames : gate'[g] # {} \/ g = "delivery"
    BY <1>2, <2>4, OtherGates DEF FinalizeDelivery, TypeOK, GateNames
  <2>6. approval # {} /\ approval' = approval
    BY <1>2, <2>2 DEF FinalizeDelivery, GatesAndRows
  <2>7. \A g \in GateNames : GateStage[g] <= 10 /\ (GateStage[g] < 10 => g # "delivery")
    BY GateStages DEF GateNames
  <2>8. GatesAndRows'
    BY <1>2, <2>3, <2>5, <2>6, <2>7 DEF FinalizeDelivery, GatesAndRows
  <2>9. QED
    BY <1>2, <2>3, <2>8, OutsidePlaces DEF FinalizeDelivery
<1>3. CASE RollBackDelivery
  BY <1>3, RowsStayInPlace, OutsidePlaces DEF RollBackDelivery
<1>4. QED
  BY <1>1, <1>2, <1>3

LEMMA AuthorizationRows ==
  ASSUME TypeOK, GatesDue, RowsFollow, Authorization
  PROVE  RowsFollow'
<1> USE DEF runVars, ctlVars, fileVars, gitVars, RowsFollow
<1>1. pc = "idle" /\ pc' = "idle"
  BY DEF Authorization, SignBinding, Approve, BindingIsOffered, MayStart
<1>2. CASE SignBinding
  BY <1>1, <1>2, RowsStayInPlace, OutsidePlaces DEF SignBinding
<1>3. CASE Approve
  <2>1. EndsWithPassed(STAGES[3])
    BY <1>3, StageNames DEF Approve, BindingIsOffered, MayStart
  <2>2. Len(chain) = 4 - 1 /\ AllPassed
    BY <2>1, StartsAtItsRow
  <2>3. gate["decision"] # {} /\ gate["spec"] # {} /\ approval' # {} /\ gate' = gate
    BY <1>3, GatesFollow DEF Approve, BindingIsOffered
  <2>4. \A g \in GateNames : GateStage[g] = 4 - 1 => gate[g] # {}
    BY <2>3, GateStages DEF GateNames
  <2>5. chain' = Append(chain, [kind |-> STAGES[4], status |-> "passed"])
    BY <1>3, StageNames DEF Approve
  <2>6. InOrder' /\ GatesAndRows'
    BY <1>1, <2>2, <2>3, <2>4, <2>5, NextRowFollows DEF RowStatuses
  <2>7. QED
    BY <1>1, <2>6, OutsidePlaces
<1>4. QED
  BY <1>2, <1>3 DEF Authorization

LEMMA FailureRows ==
  ASSUME TypeOK, RowsFollow, Failure
  PROVE  RowsFollow'
<1> USE DEF Goto, Return, runVars, fileVars, gitVars, RowsFollow
<1>1. CASE Abort \/ BlockRun \/ Throw \/ CatchFails
  BY <1>1, RowsStayInPlace, OutsidePlaces DEF Abort, BlockRun, Throw, CatchFails
<1>2. CASE AbortStage \/ CatchStage
  <2>1. /\ chain' = chain \/ SetLast("blocked")
        /\ UNCHANGED <<gate, approval>> /\ pc' \in {"abort_run", "catch_run"}
    BY <1>2 DEF AbortStage, CatchStage
  <2>2. Len(chain') = Len(chain) /\ InOrder'
    BY <2>1, LastRowInOrder, RowsUnchanged DEF RowStatuses
  <2>3. QED
    BY <2>1, <2>2, GatesStayInStep, OutsidePlaces
<1>3. QED
  BY <1>1, <1>2 DEF Failure

LEMMA EnvironmentRows ==
  ASSUME TypeOK, RowsFollow, Environment, manual' = 0
  PROVE  RowsFollow'
<1> USE DEF Return, runVars, fileVars, gitVars, ctlVars
<1>1. CASE Crash
  BY <1>1, RowsStayInPlace, OutsidePlaces DEF Crash
<1>2. CASE EditSpec \/ EditPlan \/ MoveBranch \/ TouchWorktree
  <2>1. UNCHANGED <<chain, gate, approval, pc>>
    BY <1>2 DEF EditSpec, EditPlan, MoveBranch, TouchWorktree
  <2>2. QED
    BY <2>1 DEF RowsFollow, InOrder, RowsInPlace, AllPassed, GatesAndRows
<1>3. CASE StageAdd \/ StageComplete
  BY <1>3 DEF StageAdd, StageComplete, TypeOK
<1>4. QED
  BY <1>1, <1>2, <1>3 DEF Environment

(* The manual commands are counted, and nothing takes the count back. *)
LEMMA ManualCounts ==
  ASSUME TypeOK, [Next]_vars
  PROVE  manual' = manual \/ (manual' = manual + 1 /\ manual < MaxManual)
BY DEF Next, Stage, Authorization, Failure, Abort, AbortStage, BlockRun, Throw, CatchStage,
   CatchFails, Environment, Crash, Edit, EditSpec, EditPlan, MoveBranch, TouchWorktree,
   StageAdd, StageComplete, envVars, vars

LEMMA RowsInvariant == Spec => []RowsHold
<1>1. Init => RowsHold
  <2> SUFFICES ASSUME Init PROVE RowsFollow
    BY DEF RowsHold
  <2>1. chain = <<>> /\ Len(chain) = 0 /\ pc = "idle" /\ approval = {}
    BY DEF Init
  <2>2. \A g \in GateNames : gate[g] = {} /\ GateStage[g] > 0
    BY GateStages DEF Init, NoGates, GateNames
  <2>3. RowsInPlace
    BY <2>1, GroupTable DEF RowsInPlace
  <2>4. InOrder
    BY <2>1 DEF InOrder
  <2>5. \A g \in GateNames : ~(GateStage[g] < 0)
    BY GateStages DEF GateNames
  <2>6. GatesAndRows
    BY <2>1, <2>2, <2>5 DEF GatesAndRows
  <2>7. QED
    BY <2>3, <2>4, <2>6 DEF RowsFollow
<1>2. TypeOK /\ GatesDue /\ RowsHold /\ [Next]_vars => RowsHold'
  <2> SUFFICES ASSUME TypeOK, GatesDue, RowsHold, [Next]_vars, manual' = 0
               PROVE  RowsFollow'
    BY DEF RowsHold
  <2>1. manual = 0
    BY ManualCounts DEF TypeOK
  <2>2. RowsFollow
    BY <2>1 DEF RowsHold
  <2>3. CASE Stage
    BY <2>2, <2>3, SpecRows, DecisionRows, PlanRows, ImplementationRows, VerificationRows,
       CodeReviewRows, DeliveryRows DEF Stage
  <2>4. CASE UNCHANGED vars
    BY <2>2, <2>4 DEF vars, runVars, ctlVars, RowsFollow, InOrder, RowsInPlace, AllPassed,
       GatesAndRows
  <2>5. QED
    BY <2>2, <2>3, <2>4, AuthorizationRows, FailureRows, EnvironmentRows DEF Next
<1>3. QED
  BY <1>1, <1>2, RunTypes, GatesDueInvariant, PTL DEF Spec

-----------------------------------------------------------------------------
(* A group of stages has ended, and its gate has passed. *)
Rested ==
  /\ AllPassed
  /\ Len(chain) \in {0, 2, 3, 4, 6, 7, 8, 9}
  /\ \A g \in GateNames : GateStage[g] = Len(chain) => gate[g] # {}
  /\ Len(chain) = 2 => \E q \in Questions : answers[q] # "none"

LEMMA RestedAtBoundary ==
  ASSUME TypeOK, RowsFollow, Rested
  PROVE  AtBoundary
<1>1. \A i \in DOMAIN chain : chain[i] = [kind |-> STAGES[i], status |-> "passed"]
  <2> SUFFICES ASSUME NEW i \in DOMAIN chain
               PROVE  chain[i] = [kind |-> STAGES[i], status |-> "passed"]
    OBVIOUS
  <2>1. chain[i] \in StageRows
    BY DEF TypeOK
  <2>2. chain[i].kind = STAGES[i] /\ chain[i].status = "passed"
    BY DEF RowsFollow, InOrder, Rested, AllPassed
  <2>3. QED
    BY <2>1, <2>2 DEF StageRows
<1>2. ASSUME NEW g \in GateNames PROVE gate[g] # {} <=> GateStage[g] <= Len(chain)
  <2>1. GateStage[g] \in Nat /\ Len(chain) \in Nat
    BY GateStages DEF GateNames, TypeOK
  <2>2. QED
    BY <2>1 DEF RowsFollow, GatesAndRows, Rested
<1>3. QED
  BY <1>1, <1>2 DEF AtBoundary, Rested, RowsFollow, GatesAndRows

(* What an invocation leaves that is not killed and whose catch block writes. *)
RestsAtBoundary ==
  ~interrupted /\ manual = 0 =>
    /\ pc = "idle" /\ status = "in_progress" => Rested
    /\ pc = "decision_start" => \E q \in Questions : answers[q] # "none"

LEMMA StaysRested ==
  ASSUME Rested, UNCHANGED <<chain, gate, answers>>
  PROVE  Rested'
BY DEF Rested, AllPassed

(* A stage that records its gate, or completes its last row, and returns. *)
LEMMA RecordRests ==
  ASSUME TypeOK, RowsFollow, NEW g \in GateNames \ {"spec"}, \E w : RecordGate(g, w),
         pc \in {"spec_decision_record", "decision_record", "impl_record", "verif_record",
                 "review_record"},
         GateStage[g] = Len(chain), chain' = chain
  PROVE  Rested'
<1>1. AllPassed /\ Len(chain) \in {3, 7, 8, 9}
  BY GroupTable DEF RowsFollow, RowsInPlace
<1>2. gate'[g] # {}
  BY OtherGates DEF TypeOK
<1>3. \A h \in GateNames : GateStage[h] = GateStage[g] => h = g
  BY GateStages DEF GateNames
<1>4. AllPassed' /\ Len(chain') = Len(chain)
  BY <1>1, RowsUnchanged
<1>5. \A h \in GateNames : GateStage[h] = Len(chain) => gate'[h] # {}
  BY <1>2, <1>3
<1>6. \A l \in {3, 7, 8, 9} : l # 2 /\ l \in {0, 2, 3, 4, 6, 7, 8, 9}
  OBVIOUS
<1>7. Len(chain) # 2 /\ Len(chain) \in {0, 2, 3, 4, 6, 7, 8, 9}
  BY <1>1, <1>6, Zenon
<1>8. QED
  BY <1>4, <1>5, <1>7 DEF Rested

LEMMA StageRests ==
  ASSUME TypeOK, GatesDue, RowsFollow, RestsAtBoundary, manual = 0,
         Stage, pc' = "idle", status' = "in_progress", ~interrupted
  PROVE  Rested'
<1> USE DEF Goto, Return, runVars, fileVars, gitVars, ctlVars
<1>1. CASE SpecNext
  <2>1. CompleteSpecReview \/ RecordPassedDecision
    BY <1>1 DEF SpecNext, StartSpec, OpenSpec, DraftSpec, CritiqueSpec, CompleteSpec,
       OpenSpecReview, ReconcileSpec, PassSpecGate, CompleteSpecReview, OpenPassedDecision,
       CompletePassedDecision, RecordPassedDecision
  <2>2. CASE CompleteSpecReview
    <3>1. SetLast("passed") /\ Len(chain) = 2 /\ InOrder
      BY <2>2, GroupTable DEF CompleteSpecReview, RowsFollow, RowsInPlace
    <3>2. Len(chain') = 2 /\ AllPassed'
      BY <3>1, LastRowInOrder DEF RowStatuses
    <3>3. gate["spec"] # {} /\ gate' = gate
      BY <2>2, GatesFollow, GroupTable, RowTable
         DEF CompleteSpecReview, Group, PriorPassed, GateNames
    <3>4. \A g \in GateNames : GateStage[g] = 2 => gate'[g] # {}
      BY <3>3, GateStages DEF GateNames
    <3>5. \E q \in Questions : answers'[q] # "none"
      BY <2>2 DEF CompleteSpecReview
    <3>6. QED
      BY <3>2, <3>4, <3>5 DEF Rested
  <2>3. CASE RecordPassedDecision
    <3>1. \E w : RecordGate("decision", w)
      BY <2>3 DEF RecordPassedDecision
    <3>2. GateStage["decision"] = Len(chain) /\ "decision" \in GateNames \ {"spec"}
      BY <2>3, GateStages, GroupTable
         DEF RecordPassedDecision, RowsFollow, RowsInPlace, GateNames
    <3>3. QED
      BY <2>3, <3>1, <3>2, RecordRests DEF RecordPassedDecision
  <2>4. QED
    BY <2>1, <2>2, <2>3
<1>2. CASE DecisionNext
  <2>1. ASSUME NEW q \in Questions, AnswerQuestion(q) PROVE Rested'
    <3>1. Rested /\ UNCHANGED <<chain, gate>>
      BY <2>1 DEF AnswerQuestion, RestsAtBoundary
    <3>2. answers'[q] # "none"
      BY <2>1 DEF AnswerQuestion, TypeOK
    <3>3. QED
      BY <3>1, <3>2 DEF Rested, AllPassed
  <2>2. CASE RefuseDecision
    <3>1. Len(chain) = 2 /\ AllPassed /\ UNCHANGED <<chain, gate, answers>>
      BY <2>2, GroupTable DEF RefuseDecision, RowsFollow, RowsInPlace
    <3>2. gate["spec"] # {}
      BY <2>2, GatesFollow, GroupTable, RowTable
         DEF RefuseDecision, Group, PriorPassed, GateNames
    <3>3. \A g \in GateNames : GateStage[g] = 2 => gate[g] # {}
      BY <3>2, GateStages DEF GateNames
    <3>4. \E q \in Questions : answers[q] # "none"
      BY <2>2 DEF RefuseDecision, RestsAtBoundary
    <3>5. Rested
      BY <3>1, <3>3, <3>4 DEF Rested
    <3>6. QED
      BY <3>1, <3>5, StaysRested
  <2>3. CASE RecordDecision
    <3>1. \E w : RecordGate("decision", w)
      BY <2>3 DEF RecordDecision
    <3>2. GateStage["decision"] = Len(chain) /\ "decision" \in GateNames \ {"spec"}
      BY <2>3, GateStages, GroupTable DEF RecordDecision, RowsFollow, RowsInPlace, GateNames
    <3>3. QED
      BY <2>3, <3>1, <3>2, RecordRests DEF RecordDecision
  <2>4. QED
    BY <1>2, <2>1, <2>2, <2>3 DEF DecisionNext, ObserveDecision, StartDecision,
       OpenDecision, PassAllDenied, FoldAnswers, CompleteDecision
<1>3. CASE PlanNext
  <2>1. CompletePlanReview
    BY <1>3 DEF PlanNext, StartPlan, OpenPlan, DraftPlan, CritiquePlan, CompletePlan,
       OpenPlanReview, ReconcilePlan, PassPlanGate, CompletePlanReview
  <2>2. SetLast("passed") /\ Len(chain) = 6 /\ InOrder /\ gate["plan"] # {} /\ gate' = gate
    BY <2>1 DEF CompletePlanReview, RowsFollow, RowsInPlace, GatesAndRows
  <2>3. Len(chain') = 6 /\ AllPassed'
    BY <2>2, LastRowInOrder DEF RowStatuses
  <2>4. \A g \in GateNames : GateStage[g] = 6 => gate'[g] # {}
    BY <2>2, GateStages DEF GateNames
  <2>5. QED
    BY <2>3, <2>4 DEF Rested
<1>4. CASE ImplementationNext
  <2>1. RecordImplementation
    BY <1>4 DEF ImplementationNext, StartImplementation, OpenImplementation,
       CreateWorktree, CommitProjections, ReadBase, FinishDispatch, ApplyPatch,
       FinishPatches, CompleteImplementation, RecordImplementation
  <2>2. \E w : RecordGate("implementation", w)
    BY <2>1 DEF RecordImplementation
  <2>3. GateStage["implementation"] = Len(chain) /\ "implementation" \in GateNames \ {"spec"}
    BY <2>1, GateStages, GroupTable
       DEF RecordImplementation, RowsFollow, RowsInPlace, GateNames
  <2>4. QED
    BY <2>1, <2>2, <2>3, RecordRests DEF RecordImplementation
<1>5. CASE VerificationNext(CommandsLeave)
  <2>1. RecordVerification
    BY <1>5 DEF VerificationNext, StartVerification, OpenVerification, BeginVerification,
       CheckEntry, RunCommand, WriteVerification, CompleteVerification, RecordVerification
  <2>2. \E w : RecordGate("verification", w)
    BY <2>1 DEF RecordVerification
  <2>3. GateStage["verification"] = Len(chain) /\ "verification" \in GateNames \ {"spec"}
    BY <2>1, GateStages, GroupTable DEF RecordVerification, RowsFollow, RowsInPlace, GateNames
  <2>4. QED
    BY <2>1, <2>2, <2>3, RecordRests DEF RecordVerification
<1>6. CASE CodeReviewNext(CommandsLeave)
  <2>1. RecordCodeReview
    BY <1>6 DEF CodeReviewNext, StartCodeReview, OpenCodeReview, BeginCodeReview,
       SettlePanel, FinishRemedy, ApplyPatch, FinishPatches, CheckEntry, RunCommand,
       WriteCodeReview, CompleteCodeReview, RecordCodeReview
  <2>2. \E w : RecordGate("review", w)
    BY <2>1 DEF RecordCodeReview
  <2>3. GateStage["review"] = Len(chain) /\ "review" \in GateNames \ {"spec"}
    BY <2>1, GateStages, GroupTable DEF RecordCodeReview, RowsFollow, RowsInPlace, GateNames
  <2>4. QED
    BY <2>1, <2>2, <2>3, RecordRests DEF RecordCodeReview
<1>7. ~CheckDelivery /\ ~FinalizeDelivery
  BY DEF CheckDelivery, FinalizeDelivery
<1>8. CASE RollBackDelivery
  <2>1. Len(chain) = 9 /\ AllPassed /\ UNCHANGED <<chain, gate, answers>>
    BY <1>8, GroupTable DEF RollBackDelivery, RowsFollow, RowsInPlace
  <2>2. \A g \in GateNames : GateStage[g] = 9 => g = "review"
    BY GateStages DEF GateNames
  <2>3. gate["review"] # {}
    BY <1>8, GatesFollow, GroupTable, RowTable
       DEF RollBackDelivery, Group, PriorPassed, GateNames
  <2>4. Rested
    BY <2>1, <2>2, <2>3 DEF Rested
  <2>5. QED
    BY <2>1, <2>4, StaysRested
<1>9. QED
  BY <1>1, <1>2, <1>3, <1>4, <1>5, <1>6, <1>7, <1>8 DEF Stage

LEMMA StepRests ==
  ASSUME TypeOK, GatesDue, RowsFollow, RestsAtBoundary, manual = 0,
         [Next]_vars, manual' = 0, pc' = "idle", status' = "in_progress", ~interrupted'
  PROVE  Rested'
<1> USE DEF Goto, Return, runVars, fileVars, gitVars, ctlVars, envVars
<1>1. CASE Stage
  BY <1>1, StageRests DEF Stage
<1>2. CASE Authorization
  <2>1. Rested
    BY <1>2 DEF Authorization, SignBinding, Approve, BindingIsOffered, MayStart,
       RestsAtBoundary
  <2>2. CASE SignBinding
    BY <2>1, <2>2, StaysRested DEF SignBinding
  <2>3. CASE Approve
    <3>1. EndsWithPassed(STAGES[3]) /\ InOrder
      BY <2>3, StageNames DEF Approve, BindingIsOffered, MayStart, RowsFollow
    <3>2. Len(chain) = 4 - 1 /\ AllPassed
      BY <3>1, StartsAtItsRow
    <3>3. chain' = Append(chain, [kind |-> STAGES[4], status |-> "passed"])
      BY <2>3, StageNames DEF Approve
    <3>4. Len(chain') = 4 /\ AllPassed'
      BY <3>1, <3>2, <3>3, NextRowInOrder DEF RowStatuses
    <3>5. \A g \in GateNames : GateStage[g] # 4
      BY GateStages DEF GateNames
    <3>6. QED
      BY <3>4, <3>5 DEF Rested
  <2>4. QED
    BY <1>2, <2>2, <2>3 DEF Authorization
<1>3. ~Failure
  BY DEF Failure, Abort, AbortStage, BlockRun, Throw, CatchStage, CatchFails
<1>4. CASE Environment
  <2>1. UNCHANGED <<pc, status, chain, gate, answers, interrupted>>
    BY <1>4 DEF Environment, Crash, Edit, EditSpec, EditPlan, MoveBranch, TouchWorktree,
       StageAdd, StageComplete, TypeOK
  <2>2. QED
    BY <2>1, StaysRested DEF RestsAtBoundary
<1>5. CASE UNCHANGED vars
  BY <1>5, StaysRested DEF vars, RestsAtBoundary
<1>6. QED
  BY <1>1, <1>2, <1>3, <1>4, <1>5 DEF Next

(* The decision starts only where there were questions. *)
LEMMA DecisionHasQuestions ==
  ASSUME RestsAtBoundary, ~interrupted, manual = 0, [Next]_vars, pc' = "decision_start"
  PROVE  \E q \in Questions : answers'[q] # "none"
<1> USE DEF Goto, Return, runVars, fileVars, gitVars, ctlVars
<1>1. CASE ObserveDecision
  BY <1>1 DEF ObserveDecision
<1>2. CASE UNCHANGED <<pc, answers>>
  BY <1>2 DEF RestsAtBoundary
<1>3. ASSUME NEW q \in Questions, AnswerQuestion(q) PROVE FALSE
  BY <1>3 DEF AnswerQuestion
<1>4. ObserveDecision \/ (UNCHANGED <<pc, answers>>)
  <2>1. CASE SpecNext
    BY <2>1 DEF SpecNext, StartSpec, OpenSpec, DraftSpec, CritiqueSpec, CompleteSpec,
       OpenSpecReview, ReconcileSpec, PassSpecGate, CompleteSpecReview, OpenPassedDecision,
       CompletePassedDecision, RecordPassedDecision
  <2>2. CASE DecisionNext
    BY <1>3, <2>2 DEF DecisionNext, StartDecision, RefuseDecision, OpenDecision,
       PassAllDenied, FoldAnswers, CompleteDecision, RecordDecision
  <2>3. CASE PlanNext
    BY <2>3 DEF PlanNext, StartPlan, OpenPlan, DraftPlan, CritiquePlan, CompletePlan,
       OpenPlanReview, ReconcilePlan, PassPlanGate, CompletePlanReview
  <2>4. CASE ImplementationNext
    BY <2>4 DEF ImplementationNext, StartImplementation, OpenImplementation,
       CreateWorktree, CommitProjections, ReadBase, FinishDispatch, ApplyPatch,
       FinishPatches, CompleteImplementation, RecordImplementation
  <2>5. CASE VerificationNext(CommandsLeave)
    BY <2>5 DEF VerificationNext, StartVerification, OpenVerification, BeginVerification,
       CheckEntry, RunCommand, WriteVerification, CompleteVerification, RecordVerification
  <2>6. CASE CodeReviewNext(CommandsLeave)
    BY <2>6 DEF CodeReviewNext, StartCodeReview, OpenCodeReview, BeginCodeReview,
       SettlePanel, FinishRemedy, ApplyPatch, FinishPatches, CheckEntry, RunCommand,
       WriteCodeReview, CompleteCodeReview, RecordCodeReview
  <2>7. CASE CheckDelivery \/ FinalizeDelivery \/ RollBackDelivery
    BY <2>7 DEF CheckDelivery, FinalizeDelivery, RollBackDelivery
  <2>8. CASE Authorization
    BY <2>8 DEF Authorization, SignBinding, Approve
  <2>9. CASE Failure
    BY <2>9 DEF Failure, Abort, AbortStage, BlockRun, Throw, CatchStage, CatchFails
  <2>10. CASE Environment
    BY <2>10 DEF Environment, Crash, EditSpec, EditPlan, MoveBranch, TouchWorktree,
       StageAdd, StageComplete
  <2>11. CASE UNCHANGED vars
    BY <2>11 DEF vars
  <2>12. QED
    BY <2>1, <2>2, <2>3, <2>4, <2>5, <2>6, <2>7, <2>8, <2>9, <2>10, <2>11 DEF Next, Stage
<1>5. QED
  BY <1>1, <1>2, <1>4

(* The history is only ever added to. *)
LEMMA Remembered ==
  ASSUME [Next]_vars, interrupted
  PROVE  interrupted'
BY DEF Next, vars, envVars, Stage, Authorization, Failure, Abort, AbortStage, BlockRun, Throw,
   CatchStage, CatchFails, Environment, Crash, Edit, EditSpec, EditPlan, MoveBranch,
   TouchWorktree, StageAdd, StageComplete

LEMMA RestInvariant == Spec => []RestsAtBoundary
<1>1. Init => RestsAtBoundary
  <2> SUFFICES ASSUME Init PROVE Rested /\ pc # "decision_start"
    BY DEF RestsAtBoundary
  <2>1. chain = <<>> /\ Len(chain) = 0 /\ pc = "idle"
    BY DEF Init
  <2>2. \A g \in GateNames : GateStage[g] # 0
    BY GateStages DEF GateNames
  <2>3. QED
    BY <2>1, <2>2 DEF Rested, AllPassed
<1>2. TypeOK /\ GatesDue /\ RowsHold /\ RestsAtBoundary /\ [Next]_vars => RestsAtBoundary'
  <2> SUFFICES ASSUME TypeOK, GatesDue, RowsHold, RestsAtBoundary, [Next]_vars,
                      ~interrupted', manual' = 0
               PROVE  /\ (pc = "idle" /\ status = "in_progress" => Rested)'
                      /\ (pc = "decision_start" => \E q \in Questions : answers[q] # "none")'
    BY DEF RestsAtBoundary
  <2>1. manual = 0
    BY ManualCounts DEF TypeOK
  <2>2. RowsFollow
    BY <2>1 DEF RowsHold
  <2>3. ~interrupted
    BY Remembered
  <2>4. QED
    BY <2>1, <2>2, <2>3, StepRests, DecisionHasQuestions
<1>3. QED
  BY <1>1, <1>2, RunTypes, GatesDueInvariant, RowsInvariant, PTL DEF Spec

(* "No run is ever left wedged": however a stage refuses or throws, an        *)
(* invocation leaves the run closed or where the next command can take it up, *)
(* unless it is killed, its catch block cannot write, or rows are written by  *)
(* hand: for every number of questions, rounds, commands and edits.           *)
THEOREM NoWedgeHolds == Spec => []NoWedge
<1>1. TypeOK /\ RowsHold /\ RestsAtBoundary => NoWedge
  BY RestedAtBoundary DEF RowsHold, RestsAtBoundary, NoWedge
<1>2. QED
  BY <1>1, RunTypes, RowsInvariant, RestInvariant, PTL

-----------------------------------------------------------------------------
(* What starts from a run that no invocation works on. *)
Starts ==
  \/ StartSpec \/ ObserveDecision \/ Approve \/ StartPlan \/ StartImplementation
  \/ StartVerification \/ StartCodeReview \/ CheckDelivery

LEMMA IdleStep ==
  ASSUME pc = "idle", [Next]_vars
  PROVE  \/ Starts \/ StageAdd \/ StageComplete
         \/ pc' = "idle" /\ UNCHANGED <<status, chain, gate, approval>>
<1> USE DEF Goto, Return, runVars, fileVars, gitVars, ctlVars
<1>1. SpecNext => StartSpec
  BY DEF SpecNext, OpenSpec, DraftSpec, CritiqueSpec, CompleteSpec, OpenSpecReview,
     ReconcileSpec, PassSpecGate, CompleteSpecReview, OpenPassedDecision,
     CompletePassedDecision, RecordPassedDecision
<1>2. DecisionNext =>
        \/ ObserveDecision
        \/ pc' = "idle" /\ UNCHANGED <<status, chain, gate, approval>>
  BY DEF DecisionNext, AnswerQuestion, StartDecision, RefuseDecision, OpenDecision,
     PassAllDenied, FoldAnswers, CompleteDecision, RecordDecision
<1>3. PlanNext => StartPlan
  BY DEF PlanNext, OpenPlan, DraftPlan, CritiquePlan, CompletePlan, OpenPlanReview,
     ReconcilePlan, PassPlanGate, CompletePlanReview
<1>4. ImplementationNext => StartImplementation
  BY DEF ImplementationNext, OpenImplementation, CreateWorktree, CommitProjections,
     ReadBase, FinishDispatch, ApplyPatch, FinishPatches, CompleteImplementation,
     RecordImplementation
<1>5. VerificationNext(CommandsLeave) => StartVerification
  BY DEF VerificationNext, OpenVerification, BeginVerification, CheckEntry, RunCommand,
     WriteVerification, CompleteVerification, RecordVerification
<1>6. CodeReviewNext(CommandsLeave) => StartCodeReview
  BY DEF CodeReviewNext, OpenCodeReview, BeginCodeReview, SettlePanel, FinishRemedy,
     ApplyPatch, FinishPatches, CheckEntry, RunCommand, WriteCodeReview,
     CompleteCodeReview, RecordCodeReview
<1>7. ~FinalizeDelivery /\ ~RollBackDelivery
  BY DEF FinalizeDelivery, RollBackDelivery
<1>8. Authorization =>
        Approve \/ (pc' = "idle" /\ UNCHANGED <<status, chain, gate, approval>>)
  BY DEF Authorization, SignBinding
<1>9. ~Failure
  BY DEF Failure, Abort, AbortStage, BlockRun, Throw, CatchStage, CatchFails, Aborts,
     Bodies, SpecAborts, DecisionAborts, PlanAborts, ImplementationAborts,
     VerificationAborts, CodeReviewAborts, SpecBody, DecisionBody, PlanBody,
     ImplementationBody, VerificationBody, CodeReviewBody
<1>10. Environment =>
         \/ StageAdd \/ StageComplete
         \/ pc' = "idle" /\ UNCHANGED <<status, chain, gate, approval>>
  BY DEF Environment, Crash, EditSpec, EditPlan, MoveBranch, TouchWorktree
<1>11. UNCHANGED vars => pc' = "idle" /\ UNCHANGED <<status, chain, gate, approval>>
  BY DEF vars
<1>12. QED
  BY <1>1, <1>2, <1>3, <1>4, <1>5, <1>6, <1>7, <1>8, <1>9, <1>10, <1>11
     DEF Next, Stage, Starts

LEMMA StartsRested ==
  ASSUME TypeOK, GatesDue, RowsFollow, Starts
  PROVE  Rested
<1>1. CASE StartSpec
  <2>1. chain = <<>> /\ Len(chain) = 0
    BY <1>1 DEF StartSpec
  <2>2. \A g \in GateNames : GateStage[g] # 0
    BY GateStages DEF GateNames
  <2>3. QED
    BY <2>1, <2>2 DEF Rested, AllPassed
<1>2. CASE ObserveDecision
  <2>1. Len(chain) = 2 /\ gate["spec"] # {} /\ \E q \in Questions : answers[q] # "none"
    BY <1>2 DEF ObserveDecision
  <2>2. \A i \in DOMAIN chain : i \in 1..2
    BY <2>1 DEF TypeOK
  <2>3. AllPassed
    BY <1>2, <2>2 DEF ObserveDecision, AllPassed
  <2>4. \A g \in GateNames : GateStage[g] = 2 => gate[g] # {}
    BY <2>1, GateStages DEF GateNames
  <2>5. QED
    BY <2>1, <2>3, <2>4 DEF Rested
<1>3. ASSUME NEW n \in {3, 4, 6, 7, 8, 9}, EndsWithPassed(STAGES[n]),
             \A g \in GateNames : GateStage[g] = n => gate[g] # {}
      PROVE  Rested
  <2>1. n \in 1..10 /\ InOrder
    BY <1>3 DEF RowsFollow
  <2>2. Len(chain) = n /\ AllPassed
    BY <1>3, <2>1, StartsAtItsRow
  <2>3. QED
    BY <1>3, <2>2 DEF Rested
<1>4. CASE Approve
  <2>1. EndsWithPassed(STAGES[3]) /\ gate["decision"] # {}
    BY <1>4, StageNames DEF Approve, BindingIsOffered, MayStart
  <2>2. \A g \in GateNames : GateStage[g] = 3 => gate[g] # {}
    BY <2>1, GateStages DEF GateNames
  <2>3. QED
    BY <1>3, <2>1, <2>2
<1>5. CASE StartPlan
  <2>1. EndsWithPassed(STAGES[4])
    BY <1>5, StageNames DEF StartPlan, MayStart
  <2>2. \A g \in GateNames : GateStage[g] = 4 => gate[g] # {}
    BY GateStages DEF GateNames
  <2>3. QED
    BY <1>3, <2>1, <2>2
<1>6. CASE StartImplementation
  <2>1. EndsWithPassed(STAGES[6]) /\ gate["plan"] # {}
    BY <1>6, StageNames DEF StartImplementation, DocumentsAreGated, MayStart
  <2>2. \A g \in GateNames : GateStage[g] = 6 => gate[g] # {}
    BY <2>1, GateStages DEF GateNames
  <2>3. QED
    BY <1>3, <2>1, <2>2
<1>7. CASE StartVerification
  <2>1. EndsWithPassed(STAGES[7]) /\ gate["implementation"] # {}
    BY <1>7, StageNames DEF StartVerification, MayStart
  <2>2. \A g \in GateNames : GateStage[g] = 7 => gate[g] # {}
    BY <2>1, GateStages DEF GateNames
  <2>3. QED
    BY <1>3, <2>1, <2>2
<1>8. CASE StartCodeReview
  <2>1. EndsWithPassed(STAGES[8]) /\ gate["verification"] # {}
    BY <1>8, StageNames DEF StartCodeReview, MayStart
  <2>2. \A g \in GateNames : GateStage[g] = 8 => gate[g] # {}
    BY <2>1, GateStages DEF GateNames
  <2>3. QED
    BY <1>3, <2>1, <2>2
<1>9. CASE CheckDelivery
  <2>1. EndsWithPassed(STAGES[9]) /\ gate["review"] # {}
    BY <1>9, StageNames DEF CheckDelivery, RecordsAgree, MayStart
  <2>2. \A g \in GateNames : GateStage[g] = 9 => gate[g] # {}
    BY <2>1, GateStages DEF GateNames
  <2>3. QED
    BY <1>3, <2>1, <2>2
<1>10. QED
  BY <1>1, <1>2, <1>4, <1>5, <1>6, <1>7, <1>8, <1>9 DEF Starts

(* Whatever a kill or a store that fails leaves behind, no command starts     *)
(* from it but from a boundary: a half-finished stage is neither repeated nor *)
(* skipped, unless somebody completes its row by hand.                        *)
THEOREM ResidueHolds == Spec => ResidueIsRefused
<1>1. TypeOK /\ GatesDue /\ RowsHold /\ [Next]_vars =>
        [pc = "idle" /\ status = "in_progress" /\ ~AtBoundary /\ manual' = 0
           => pc' = "idle" /\ UNCHANGED <<status, chain, gate, approval>>]_vars
  <2> SUFFICES ASSUME TypeOK, GatesDue, RowsHold, [Next]_vars, pc = "idle", ~AtBoundary,
                      manual' = 0
               PROVE  pc' = "idle" /\ UNCHANGED <<status, chain, gate, approval>>
    OBVIOUS
  <2>1. manual = 0
    BY ManualCounts DEF TypeOK
  <2>2. RowsFollow
    BY <2>1 DEF RowsHold
  <2>3. ~Starts
    BY <2>2, StartsRested, RestedAtBoundary
  <2>4. ~StageAdd /\ ~StageComplete
    BY DEF StageAdd, StageComplete, TypeOK
  <2>5. QED
    BY <2>3, <2>4, IdleStep
<1>2. QED
  BY <1>1, RunTypes, GatesDueInvariant, RowsInvariant, PTL DEF Spec, ResidueIsRefused
=============================================================================
