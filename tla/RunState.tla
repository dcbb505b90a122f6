------------------------------ MODULE RunState ------------------------------
(***************************************************************************)
(* The durable state of one governed run, and what every stage of it       *)
(* shares: the tables of src/store.ts, the gate events of the audit chain, *)
(* the documents and records on disk, the run's git worktree, and the      *)
(* control state of the one invocation that holds the repository lock.     *)
(*                                                                         *)
(* Because every writer of the store holds the lock (module RepoLock), at  *)
(* most one invocation is between its first and its last write.  pc says   *)
(* where it is ("idle" when there is none), mem what it has read.  The     *)
(* spec and plan files and the worktree are not protected by the lock:     *)
(* people, editors and agents change them at any moment (module            *)
(* GovernedRun).                                                           *)
(*                                                                         *)
(* A value that may be absent is a set with at most one element.           *)
(***************************************************************************)
EXTENDS SequencesExt

CONSTANTS
  Specs,          \* contents of the specification, up to normalizeText
  Plans,          \* contents of the plan, apart from its plan_for
  Risks,          \* the risks computeRisk returns
  RiskOf,         \* the risk of a specification's declared artifacts
  Questions,      \* findings a reconciler may turn into operator questions
  SpecRounds,     \* policy.specReviewRounds
  PlanRounds,     \* policy.planReviewRounds
  ReviewRounds,   \* policy.codeReviewMaxRounds
  Commands,       \* the number of frozen verification commands
  MaxPatches      \* bound: patches in one proposal

ASSUME RunConstants ==
  /\ RiskOf \in [Specs -> Risks]
  /\ SpecRounds \in Nat \ {0}
  /\ PlanRounds \in Nat \ {0}
  /\ ReviewRounds \in Nat \ {0}
  /\ Commands \in Nat \ {0}
  /\ MaxPatches \in Nat \ {0}

VARIABLES
  status,       \* run.status
  chain,        \* the stage rows of the run, in ordinal order
  gate,         \* what each gate event of the audit chain recorded
  approval,     \* the run's approval row
  answers,      \* the decision_question and decision_answer rows
  disk,         \* docs/features/<slug>/spec.md and plan.md
  records,      \* the result.json files of verification and code review
  tree,         \* the run's git worktree
  pc, mem,      \* the invocation that holds the lock
  verified,     \* history: commits every frozen command passed at
  reviewed,     \* history: commits a whole panel reviewed without blocking
  reviewedSpec  \* history: specifications the spec gate passed, or that
                \* answers were folded into

runVars  == <<status, chain, gate, approval, answers>>
fileVars == <<disk, records>>
gitVars  == <<tree, verified, reviewed>>
ctlVars  == <<pc, mem>>

-----------------------------------------------------------------------------
(* Stage rows *)

STAGES == <<"spec", "spec_review", "spec_decision", "awaiting_approval", "plan",
            "plan_review", "implementation", "verification", "code_review",
            "delivery_check">>

Kinds == {STAGES[i] : i \in 1..10}

StageRows == [kind : Kinds, status : {"pending", "in_progress", "passed", "blocked"}]

(* insertStage: a row that follows the last one, pending. *)
InsertStage(kind) == chain' = Append(chain, [kind |-> kind, status |-> "pending"])

(* setStageStatus and completeStage on the row the running stage inserted, *)
(* which is the last one as long as the lock is held.                      *)
SetLast(s) == chain' = [chain EXCEPT ![Len(chain)].status = s]

LastIsOpen == chain # <<>> /\ Last(chain).status \in {"pending", "in_progress"}

HasStage(kind) == \E i \in DOMAIN chain : chain[i].kind = kind

EndsWithPassed(kind) ==
  chain # <<>> /\ Last(chain) = [kind |-> kind, status |-> "passed"]

(* Not the code: the predecessor's row is looked at without its status. *)
MayStartAfterAnyRow(kind, predecessor) ==
  /\ pc = "idle"
  /\ status = "in_progress"
  /\ ~HasStage(kind)
  /\ chain # <<>> /\ Last(chain).kind = predecessor

(* Not the code: no requireRunInProgress. *)
MayStartOnClosedRun(kind, predecessor) ==
  /\ pc = "idle"
  /\ ~HasStage(kind)
  /\ EndsWithPassed(predecessor)

(* A stage may start when the run is in progress, its predecessor is the    *)
(* last row and passed, and no row of its own kind exists: a stage never    *)
(* runs twice.                                                              *)
MayStart(kind, predecessor) ==
  /\ pc = "idle"
  /\ status = "in_progress"
  /\ ~HasStage(kind)
  /\ EndsWithPassed(predecessor)

-----------------------------------------------------------------------------
(* Documents, commits and gate events *)

(* A plan carries the hash of the specification it was written from. *)
PlanDocs == [body : Plans, for : Specs]

(* A commit is the history of changes from the run's starting commit, which *)
(* is the empty history.  The projections commit carries both documents.    *)
Changes == [by : {"projections", "patch", "remediation", "foreign"},
            spec : SUBSET Specs, plan : SUBSET PlanDocs]
Commits == Seq(Changes)
StartingCommit == <<>>

Change(by) == [by |-> by, spec |-> {}, plan |-> {}]
Projections(s, p) == [by |-> "projections", spec |-> {s}, plan |-> {p}]

Dirt == {"clean",
         "ignored",     \* only entries .gitignore matches
         "untracked",   \* new files git does not ignore
         "tracked"}     \* uncommitted changes of tracked files

Trees == [exists : BOOLEAN, head : Commits, dirt : Dirt]

(* checkWorktreeClean: nothing tracked, staged, untracked or ignored. *)
FullyClean == tree.dirt = "clean"
(* checkCommitState: git status --porcelain does not list ignored entries. *)
AtCleanCommit(c) == tree.head = c /\ tree.dirt \in {"clean", "ignored"}

Ranges == [base : Commits, head : Commits]

(* The gate events of the audit chain: spec.gate.pass, spec_decision.gate.pass, *)
(* plan.gate.pass, implementation.gate.pass, verification.gate.pass,            *)
(* code_review.gate.pass and delivery.gate.pass.                                *)
GateNames == {"spec", "decision", "plan", "implementation", "verification",
              "review", "delivery"}

SpecGates == [spec : Specs, risk : Risks]

GateEvents == [spec : SUBSET SpecGates, decision : SUBSET SpecGates,
               plan : SUBSET PlanDocs, implementation : SUBSET Ranges,
               verification : SUBSET Commits, review : SUBSET Commits,
               delivery : SUBSET Ranges]

NoGates == [spec |-> {}, decision |-> {}, plan |-> {}, implementation |-> {},
            verification |-> {}, review |-> {}, delivery |-> {}]

(* appendAudit of a gate event; the readers take the latest one. *)
RecordGate(name, what) == gate' = [gate EXCEPT ![name] = {what}]

AnswerStates == {"none", "open", "approve", "deny", "modify"}

-----------------------------------------------------------------------------
(* The invocation *)

Memory == [spec : SUBSET Specs, plan : SUBSET PlanDocs, risk : SUBSET Risks,
           round : Nat, blocking : BOOLEAN, count : Nat,
           base : Commits, commit : Commits]

NoMemory == [spec |-> {}, plan |-> {}, risk |-> {}, round |-> 0, blocking |-> FALSE,
             count |-> 0, base |-> StartingCommit, commit |-> StartingCommit]

Goto(step) == pc' = step

(* The invocation returns and releases the lock. *)
Return == pc' = "idle" /\ mem' = NoMemory
=============================================================================
