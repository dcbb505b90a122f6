# Verification of the governed delivery control plane

BuildWorks (`bw`) drives AI-assisted changes of one repository through a fixed
chain of stages. Models propose documents and patches; deterministic gates
decide; one signed authorization of the operator stands in the middle; every
outcome is recorded in a SQLite store with an append-only audit chain. This
directory holds TLA+ models of that program, the TLC runs that check them, and
machine-checked proofs about them. Source paths below are relative to the
repository's root; line numbers refer to the commit that the models were written from.

## The system

| part | source | state it keeps | operations |
|---|---|---|---|
| repository lock | `src/lock.ts` | the lock file | acquire, inspect, take over, release |
| store | `src/store.ts`, `src/migrations` | rows of runs, stages, findings, decisions, questions, answers, approvals | inserts, status changes, transactions |
| audit chain | `src/audit.ts` | hash-chained events; the gate events are the evidence later stages read | append, verify |
| spec stages | `src/spec-stage.ts` | rows `spec`, `spec_review`, sometimes `spec_decision`; `spec.md` | draft, self-critique, rounds of panel and reconciliation, gate |
| reconciliation | `src/reconciliation.ts`, `src/proposal.ts`, `src/finding.ts` | findings per round, one decision each, questions, proposals | validate an answer, store its decisions |
| spec decision | `src/spec-decision-stage.ts` | answers; row `spec_decision`; `spec.md` | answer, fold |
| approval | `src/approval-stage.ts`, `src/approval.ts` | approval row, row `awaiting_approval` | request (binding), approve |
| plan stages | `src/plan-stage.ts` | rows `plan`, `plan_review`; `plan.md` | draft, self-critique, rounds, gate |
| implementation | `src/implementation-stage.ts`, `src/patch-application.ts` | row, worktree, branch | worktree, projections commit, dispatch, patches |
| verification | `src/verification-stage.ts`, `src/commit-verification.ts` | row, `result.json` | commands at one commit |
| code review | `src/code-review-stage.ts` | row, `result.json`, commits of remediation | panel, remediation, verification again |
| delivery | `src/delivery-stage.ts` | row, run status | cross-checks, one finalizing transaction |
| run composition | `src/run-command.ts`, `src/operator-state.ts`, `src/cli.ts` | none of its own | observe a boundary, preview, consent, run groups; `stage-add`, `stage-complete` by hand |
| intake, profile | `src/run-intake.ts`, `src/profile.ts`, `src/policy.ts` | run row, frozen profile | create, freeze, load |
| panel selection | `src/select.ts`, `src/self-critique.ts` | none | ask for a panel, staff it, seat it |
| dispatch | `src/dispatch.ts`, `src/harness.ts`, `src/verify-command.ts` | child processes, evidence files | spawn, limits, kill, settle |
| guided mode | `src/guided-command.ts`, `src/project-bootstrap.ts` | project files and commits, approval handoff directory | prepare a project, select or create a run, ask, hand over, submit |
| dashboard server | `src/dashboard-server.ts`, `src/dashboard-*.ts` | requests of one process | observe, answer, approve |
| readiness | `src/readiness.ts`, `src/doctor-diagnostics.ts` | none | read-only diagnostics |

**How they interact.** Every command that writes takes the repository lock, so
at most one invocation is between its first and its last write of the store,
unless the lock was stolen; underneath, SQLite serializes the transactions.
Guided sessions, `bw run` and the dashboard read a run without the lock, ask
their operator, and read it again with the lock before they write.
Nothing locks `spec.md`, `plan.md`, the records, the worktree or the branch:
people, editors and agents may change them while a stage waits for a model, and
between stages. The program's answer is to record the hash of what a gate passed
in the audit chain and to compare again before every use. Stages do not call
each other; each reads the rows, events and files the earlier ones left.

**What is hard here.** A stage is long (many model dispatches) and consists of
separate statements, so a throw or a kill can fall between any two of them;
everything read before a dispatch may be stale after it; several records claim
the same commit; a stage can be started by `bw run`, by its own command or from
the dashboard, and rows can be forged with `stage-add` and `stage-complete`; what an
operator is asked about may be stale when the answer comes; reviewers are
concurrent child processes that hang, flood and leave descendants; a transaction may
be retried, rolled back or killed while it commits; the
lock itself is a file protocol among processes that die. `PROJECT.json` lists
each hazard at its line with the properties that cover it.

**What makes each part correct.**

* lock: at most one holder; a dead holder does not keep everybody out.
* spec, decision, plan: a gate passes once, what it recorded is what is used;
  a failure closes the run or leaves it at a boundary.
* reconciliation: every finding is decided once, every change of a document is owned
  by a decision, and only what the author could not decide is put to the operator.
* approval: what is signed is what the decision gate recorded.
* implementation, verification, code review, delivery: the delivered commit is
  the one all commands passed at and a whole panel reviewed; its documents are
  the gated ones; nothing but the system's commits is in its range.
* dispatch: an outcome that is acted on is what the process did, and the wait ends.
* panels: a staffed panel can be seated, and a frozen profile stays usable.
* consent: what is executed is what the operator was shown, on an unchanged run;
  guided sessions open one run of an identity; nobody's payload or signature is lost.
* store: a unit of work is there wholly or not at all, the chain is never forked,
  an observation is one committed state.
* the run: gates in one order, no completion without the delivery gate, nothing
  after closing, and somebody who keeps driving it sees it end.

## The modules

`RepoLock` models `acquireLock` and its release. An *invocation* is one pass
through it; `PidOf` puts invocations into processes, because two requests of the
dashboard share a pid. `file` is the file at the lock path, named by the
invocation that created it; `written` says whose pid and token it holds.
Each of `openSync`, `writeFileSync`, the read of `inspectLock`, `process.kill(pid, 0)`,
`unlinkSync` and the two halves of release is an action, and `Die` ends a
process between any two. Both functions are synchronous, so invocations of one process do
not interleave inside them (`ProcessIsFree`), only while one holds the lock. A pid is not reused while a file names it.

`RunState` is the state of one run that all stages share:

| variable | code |
|---|---|
| `status`, `chain`, `approval`, `answers` | rows of `run`, `stage`, `approval`, `decision_question` and `decision_answer` |
| `gate` | the latest event of each gate action in the audit chain, with the hashes or commits of its summary |
| `disk`, `records` | `spec.md` and `plan.md`; `result.json` of verification and code review |
| `tree` | the run's worktree: does it exist, its head, how dirty it is |
| `pc`, `mem` | where the invocation that holds the lock is, and the local variables it has read |
| `verified`, `reviewed`, `reviewedSpec` | history: what really happened, independent of what was recorded |
| `interrupted` | history: an invocation was killed, or its catch block failed |

A document is a model value (its content after `normalizeText`, so that equality
is equality of hashes); a plan also carries its `plan_for`. A commit is the
sequence of changes since the starting commit, so ancestry is `IsPrefix`. A
value that may be absent is a set of at most one element.

`SpecStages`, `SpecDecision`, `ApprovalGate`, `PlanStages`, `Implementation`,
`Verification`, `CodeReview` and `Delivery` each model one stage function. `Start...` is
the function's preconditions (they only read, and refuse by returning; a
refusal changes nothing but an audit event and is a stutter), and every later
action is one write: a row inserted, a document written, a commit made, a row
completed, a gate event appended. `Approve`, `AnswerQuestion` and
`FinalizeDelivery` are the transactions of the code and are single actions.
`ApplyPatch`, `FinishPatches`, `CheckEntry` and `RunCommand` are the functions
that implementation, verification and remediation share, with their program
points as parameters.

`GovernedRun` composes them: the abort and catch paths all stages have (`Abort`,
`AbortStage`, `BlockRun`, `Throw`, `CatchStage`, and `CatchFails` when the store
fails for longer than one statement), `Crash`, edits of the documents and the
branch (`EditSpec`, `EditPlan`, `MoveBranch`, `TouchWorktree`), and the manual
commands `StageAdd` and `StageComplete`. A stage starts whenever its own
preconditions allow, as its own command would start it; `bw run` only restricts
that further, except for the decision group, which it alone starts and whose
observation (`ObserveDecision`) is therefore modelled.

`Reconciliation` and `DocReview` look into the rounds of the two document
reviews, which `SpecStages` and `PlanStages` treat as steps with an outcome.
`Reconciliation` is `validateReconciliation` as operators. A document is the number of
copies of each normative node, the author's answer is a sequence of decisions, and
`ValidateReconciliation` is its two passes: a citation that does not occur converts a
decision, and claims are spent in order, all or none. `DocReview` has the rows:

| variable | code |
|---|---|
| `phase`, `round`, `seat`, `raised`, `pending` | the loop of `runSpecStage` and `runPlanStage` and its local variables |
| `revisions`, `open` | normative nodes of each revision; entries of "Open decisions" |
| `findings`, `decisions`, `questions`, `proposals` | rows of those tables; a finding is its round and its identity |
| `answers`, `folded` | the operator's answers; the claims of the fold |

Storing a decision, its question and its proposal are separate actions, as they are
separate statements. `AsksQuestions` is `requireQuestions`: TRUE makes the module the
spec's review, FALSE the plan's, which has no disclosures, questions or fold. `Abort` is
every refusal and throw, `Die` a kill.

`DeliveryOrder` is the abstract specification: seven gates in one order, the
authorization between the second and the third, one closing of the run, and
completion exactly with the last gate. `GovernedRun` implements it under the
mapping in `Promise`: a gate has passed when its event is recorded, the run is
authorized when its approval row exists.

`OperatorState`, `AdvanceRun`, `ApprovalHandoff` and `GuidedCommand` are one model in
layers, of everybody who advances a run: guided sessions, `bw run` invocations and
the dashboard's two writing requests, for one run identity.

| variable | code |
|---|---|
| `runs` | the rows of each run, as the number of stages of the chain it has passed, open questions, the approval, and a `version` that every write of rows or events changes: what `boundaryFingerprint` compares |
| `lock`, `held` | the repository lock in one step (`RepoLock` has its protocol); which recorded files are as the rows say |
| `pc`, `job` | each invocation: where it is, the row it saw, the preview it showed, the groups that remain |
| `now`, `dir`, `rotating`, `archive`, `written`, `signed` | the clock; `payload.txt` and `signature.txt` of the handoff directory, moved aside, archived; what sessions wrote and the approver signed |
| `byHand`, `putBack` | history: the rows `bw new-run` created; the directories a session put back that another was about to archive |

`AdvanceRun` is `advanceRun`: preview without the lock, consent, the second
observation under it, group after group. `ApprovalHandoff` is
`approvalHandoff`: read, rotate an expired payload (rename, read again, archive or
restore), mint, write exclusively, wait, submit; the operator may sign or
discard the directory at any moment, and the clock may tick. `GuidedCommand`
selects or creates a run with its intake (row, event, freeze and its event are separate
writes), asks the questions, and has `bw run`, `bw new-run` (`Intake`, the same writes after
no look at other rows) and the requests. Several runs of the identity, which only `new-run` can
leave, are refused.

`Bootstrap` is what a guided session does before that: `prepareGuidedProject`
recognises or writes the starter file by file, commits it, and commits the
operator's design. `tree`, `index` and `head` are Git's; a session may be run again
after it stopped or was killed anywhere. `MCGuided` composes it with
`GuidedCommand`: nobody selects a run before the project is ready. `MCHandoff` has four sessions
at an approval that expired. `Spec` of
`Bootstrap` is the preparation alone, from an empty target, for the proofs. The state and the
two properties are in `BootstrapState`, which `MCGuided` extends too.

`ChildProcess` is `invokeHarness` and `runVerifyCommand` event by event. The child, a
descendant that keeps its pipe open and the kernel act on one side; `exit`, `close`,
data, the limit, idle and grace timers and the end of the evidence file are
callbacks on the other. Output is counted in units. `ReviewPanel` puts it under
`runCodeReviewStage`: the reviewers of a round run concurrently, their
reports are recorded in panel order, the round passes, is remediated (patches
with contents, a commit, the command again) or blocks, and delivery reads the record.
`CodeReview` models the same stage as steps of a run that may be killed; there a commit
has an identity, here it has contents.

`Panels` follows a profile from the registry, the policy and the operator's flags
through freezing, loading, an author's request and both selections. A
profile may also be inherited from an earlier build with other rules.
`SelectReviewers` is the code's algorithm; the reference (`Seatings`) is "some set of
eligible agents with the size and the lenses".

`Store` is the database under all of them. `disk` is what is committed; each writer
has a connection with a copy (`work`) while it is inside a transaction, `BEGIN IMMEDIATE` and its
three attempts, nested frames and `#txAborted`, and a commit that waits for readers and may be
killed half-way, which leaves a hot journal. The units of work are those of the code:
approve, answer and finalize are wrapped in one transaction, `stage-add` and
`stage-complete` are not. Migrations run one by one. A reader is `readSnapshot`.

`MCRepoLock`, `MCGovernedRun`, `MCDocReview`, `MCGuided`, `MCHandoff`, `MCReviewPanel`, `MCPanels`
and `MCStore` give the constants their values for TLC.
Definitions marked "Not the code" are plausible mistakes, each next to the
definition it would replace; no specification uses them. They show that each
property can fail.

## The runs

| run | question | bounds | result |
|---|---|---|---|
| `repo_lock` | do two invocations ever hold the lock together, other than by stealing, and is a dead holder's file cleared? | 4 invocations, 3 processes | holds |
| `repo_lock_race` | is there one writer? | 3 invocations and processes | violated, see below |
| `governed_run` | everything but liveness, with throws, kills, a store that fails again and again, and edits or manual commands anywhere | 2 specs of different risk, 1 plan text, 1 question, 2 spec rounds, 2 review rounds, 1 command, untracked residue, 1 patch; 2 edits or 2 manual commands | holds |
| `governed_live` | does a driven run end? | 2 and 2 rounds, 3 review rounds, 2 commands, 2 patches, no edits | holds |
| `doc_review` | are findings answered, questions the author's, disclosures settled, changes owned, upstream concerns filed? | 2 rounds, 2 identities, one of them disclosed or not, 2 reviewers, up to 2 findings, 1 node in up to 2 copies, 1 proposal topic | holds |
| `guided` | consent, one open run, intake, the handoff and the project's preparation | 2 sessions, 1 `bw run` or `bw new-run`, 1 request, 2 run rows, 1 question, 1 expiry, a starter of 2 files, 2 slugs; eight scenes | holds |
| `review_panel` | concurrent reviewers and the processes under them | 2 seats, 2 rounds, 2 paths, every process fault, up to 3 units of output | holds |
| `panels` | staffing, selection and freezing | up to 4 document and 3 code reviewers, 3 lenses, 3 policies, 12 inherited profiles, 18 requests | holds |
| `store` | chain, atomicity, snapshots, the delivery's record | 2 writers with 3 units, 1 reader, databases at version 0 and 2, 3 attempts | holds |
| `gate_risk`, `gate_review` | one documented claim each | smallest that shows it | violated, see below |
| `archive_race` | does an archive always hold what it is named after? | 4 sessions, 1 run, 1 expired payload | violated, see below |

The bounds are enough for the cases that matter: two specifications tell "the
gated one" from "another one", and their different risks tell a stale risk from
a fresh one; two review rounds include remediation and its second verification;
three invocations are the least for the takeover race (one dead holder, two
that saw it), and four add two of one pid; two edits allow a change and its
reversal, or a change of a document together with one of the branch; two manual
commands allow a forged row together with its completion. `governed_run` gives a behaviour one
hand at a time (`OneHand`): edits or manual commands, not both, and no second edit after a kill; the
theorems hold without that bound too. A command is one step, so a change that it makes and takes back itself is not
seen. In a review, two rounds let
a clean round follow a blocking one and a follow-up escalate; two decisions compete for
the copies of a node; two copies let one be kept while the other goes, and let one decision
claim both; one identity raised by the
author and by two reviewers is one finding. Two findings are both of one round, one of each,
or one identity that comes back: `MCDocReview` does not follow a review with a third
(`MaxFindings`). A plan's review asks no questions; the theorems of `DocReviewProofs` hold
for it as for a specification's. In `guided` each scene (`MCScenes`) starts
where two of the four invocations can meet: no run (two sessions, or a session and a
`new-run`), open questions, an approval that expired once, a run that is ready for its plan, two open
runs of which `new-run` created one, and the project before its first run, where one session with two
acts of the operator, or two sessions with one, take part. No scene has a session find several runs under
the lock that it had not found before, which takes two `new-run`s: the refusal is in `Create`, and in
the theorems. In
`review_panel` each reviewer and the command may meet each kind of fault;
output passes the memory ceiling and fills a file exactly or overflows it.
In `panels` the installations are enumerated, so the reference is compared on all of
them. In `store` one writer goes on after a unit that failed or was rolled back, both may finalize a
delivery, and a kill may fall into a commit, a migration or a retry.
`Copies` bounds the copies of a node, `MaxPatches` the
patches of a proposal, `MaxEdits`, `MaxManual` and `MaxActs` the environment, `MaxRuns` the
rows, `MaxClock` the time, `MaxUnits` the work of a writer, `MaxContent` the contents of a file. Deadlock is
not checked because a closed run or review, a seated panel, an ended invocation and a
killed process stop.

What the properties say:

* `OneWriterUnlessStolen`: the only way to two holders is a takeover that
  unlinks a live file. `StaleLockClears`: a dead holder's file is removed, if its pid was
  written: a file whose holder died before that is refused until somebody removes it.
* `DeliveredAsApproved`: a completed run's delivered commit is one at which all
  commands really passed and which a whole panel really reviewed, over the range
  implementation recorded, under an approval that was signed.
* `AuthorizationBinds`: approval equals the decision gate's record, and a passed
  plan was written from the approved specification.
* `CertifiesGatedDocuments`: the documents committed on the branch are the
  approved and gated ones and lie before the certified range.
* `NoWedge`: whatever a stage refuses and wherever its body or its abort throws, the invocation
  returns with the run closed or at a boundary of `prefixAction` (`src/operator-state.ts:257`).
  Three things are outside it, by its precondition: a kill, a store that fails again in the catch
  block (see Disagreements with the documentation), and rows written by hand.
  `ResidueIsRefused`: what a kill or such a catch block leaves is never continued. It is stated for
  runs without manual commands: later stages look at the last row only, so a row
  in the middle that was blocked by hand goes unnoticed until delivery.
* `ClosedRunIsFrozen`, `GateEventsAreFinal`: nothing is taken back.
* `GatesPassInOrder`: the run implements `DeliveryOrder`.
* `EveryFindingIsAnswered`: a review passes only with one decision for each finding
  of each round, and a blocking one only with a question for the operator.
  `OnlyAuthorsAsk`: a decision converted by a deterministic check is never that question.
* `ChangesAreOwned`: each copy of a normative node that came or went is claimed by one
  decision. Unclaimed changes are let through when some decision was converted
  (`src/spec-stage.ts:668`); that this is safe depends on the gate, and on a converted
  decision never getting a question, so the property is about all three together.
* `UpstreamIsFiled`: every upstream decision has one proposal, of its own route.
* `DisclosuresAreSettled`: an open decision disappears only through the author's own
  non-blocking decision or an approved or modified answer. An answer to any finding
  with the disclosure's identity counts, also one a reviewer raised in a later round,
  because that is how `openDecisionRefusals` looks it up.
* `RunSettles`: a run the operator keeps driving is completed or blocked.
* `ConsentedWorkOnly`: while a group is at work it is the next of those shown, and since
  the preview nobody else has written to the run: the fingerprint is compared under the lock.
  `OneOpenRun`: sessions that all found no run still create one. Rows of `bw new-run`
  (`src/cli.ts:185`) do not count: it looks for no other run.
  `UnfrozenRunIsInert`: a run whose intake failed or was killed before its profile was
  frozen never starts a group, is never answered for or approved.
* `ArchivesAreExactUnlessPutBack`: what is archived under an expiry is the payload of that expiry,
  unless a session whose own rename failed put back a directory that another had validated and was about to
  archive; how that ends otherwise is `archive_race` below. `PayloadsAreKept`: no payload a session wrote
  disappears unless the operator discards it, however sessions, kills, ticks and signatures interleave
  with a rotation.
* `ShownIsCommitted`: what a guided session commits is what its prompt showed, unless somebody
  stages or commits while the prompt is open. `RerunsResume`: sessions that follow
  each other resume from wherever the last one was killed or declined; one is refused
  only after an edit, a staging by hand, a torn file, a failing `npm`, an overlap or another slug.
* `ReportsAreKept`: a panel keeps every report of every seat that answered, in panel order, whatever
  order they end in. `PassIsDeserved`: a pass is the verdict of a whole last panel on the head.
  `PassedRecordParses`: delivery never refuses a passed review for its record.
  `OutcomesAreTrue`: an outcome that is acted on is of a process that ended by itself in time
  and whose output was read. `ReviewSettles`: the stage ends whatever its children do.
* `PanelsAreExact`, `RefusalsAreNeeded`: a panel has its size and lenses and does not depend on
  the order agents are listed in; staffing refuses exactly what cannot be seated.
  `FrozenProfilesSeat`: a profile this build froze is not refused later for what
  was visible when it was frozen.
* `ChainIsUnbroken`, `UnitsAreAtomic`, `SnapshotsAreWhole`: of the database, through
  contention, nested failures that a caller swallows, retries and kills.
  `DeliveryKeepsItsRecord`: once a delivery is committed, `result.json` is its own.

**Fairness.** `FairSpec` of the lock lets every invocation that is inside
`acquireLock` or release go on, and lets new ones try; it never makes a process die.
`FairSpec` of the run assumes that a running invocation takes its next step
(dispatches and commands have time limits, rounds and patches are finite) and
that the operator answers, signs and starts the next stage. It assumes nothing
about edits, kills or manual commands, which `governed_live` excludes: each can
stop a run for good by design. `governed_live` also gives all specifications one
risk, because the defect of `gate_risk` leaves a run that no one can approve,
lets commands leave no ignored files, because code review refuses a worktree with
any and no command removes them, and leaves out the run-duration limit.
`Spec` of `ReviewPanel` assumes the event loop only: an event that has happened is
delivered, a timer that is due fires, a settled promise is continued. It assumes
nothing of the children, which may hang, or of the operating system beyond
the delivery of a kill that succeeded.

## Disagreements with the documentation

* `repo_lock_race`: "One writer per repository" (`src/lock.ts:48`,
  `ARCHITECTURE.md:1303`). Two invocations read a dead holder's file; the first
  unlinks it and creates its own; the second unlinks that one and creates its
  own. Both hold the lock.
* `gate_risk`: the decision gate "records the hash and risk of the specification
  it passed" (`src/approval-stage.ts:144`). When the review asks nothing, the
  recorded risk is the one of the document before reconciliation
  (`src/spec-stage.ts:382`). If reconciliation changed it, `buildBinding` refuses
  the run for ever.
* `gate_review`: the gate passes "the reviewed one, or the one the operator's
  answers were folded into". `runSpecDecisionStage` reads `spec.md` again
  (`src/spec-decision-stage.ts:259`) without comparing it; a save in between is
  passed unreviewed.
* `archive_race`: rotation "validates the exact moved payload, and only then promotes that directory
  to its deterministic expired archive", and never labels anything else archived
  (`docs/features/guided-project-bootstrap/2026-09-13-code-review.md:109`). A moves an expired
  directory aside and validates it. B, whose rename failed, puts it back. The operator clears it; D makes a
  new directory; C, which passed the check before any of this, moves that one aside under the same
  name; A archives it unread (`src/guided-command.ts:202`).

Seen while modelling, and not checked by a run of their own:

* "no run is ever left wedged" (`src/spec-stage.ts:87`). The catch block (`src/spec-stage.ts:879`)
  completes the open stage and blocks the run in the store that may be what failed. If it throws too
  (`CatchFails`), the stage stays open and the run in progress. `NoWedge` excludes this case by
  name; `ResidueIsRefused` shows that no command goes on from it.
* "nothing but the system's patch commits lands between base
  and head" (`src/delivery-coverage.ts:18`). `applyProposedPatches` accepts a
  head that moved in other paths (`src/patch-application.ts:111`), so a commit made while
  the implementer works is verified, reviewed and delivered with the range. `governed_run` contains it
  (`MoveBranch`); `DeliveredAsApproved` holds because the range is verified and reviewed as it is.
* A verification command rejects "only" when its evidence file cannot be written
  (`src/verify-command.ts:86`). Output that arrives after the file was ended is also a write error.
* "Commit only" the design (`src/project-bootstrap.ts:310`). `git commit` takes the whole
  index; what is staged while the prompt is open, by hand or by another session, is committed
  unseen. `ShownIsCommitted` excludes exactly that.
* A guided run whose intake was killed before the freeze stays in progress; each later
  session resumes it and is refused, until somebody blocks it.

## The proofs

Checked by TLAPS for every value of the constants that satisfies the named
assumptions of the modules (the `ASSUME`s of `RepoLock`, `RunState`, `GovernedRun`,
`Reconciliation`, `DocReview`, `Store`, `OperatorState`, `ApprovalHandoff`, `GuidedCommand`,
`ChildProcess`, `ReviewPanel` and `Panels`; TLC evaluates each of them), hence for any number of documents,
questions, rounds, reviewers, paths, sessions, writers, agents, edits and manual commands. Only
`RerunsHold` has a hypothesis of its own.

* `RepoLockProofs`. `LockTypes`: `Spec => []TypeOK`. `OneWriterHolds`:
  `Spec => []OneWriterUnlessStolen`. The property is not inductive; `OwnsFile`
  strengthens it: unless a file was stolen, whoever is between creating and unlinking
  a lock file is the one the file at the path belongs to.
* `GovernedRunProofs`. `RunTypes`: `Spec => []TypeOK`, one lemma per stage, one step
  per action. The work is in `chain` and `tree.head`, which are sequences. Then
  `DeliveryHolds`: `Spec => []DeliveredAsApproved`, and
  `ClosedRunHolds`: `Spec => ClosedRunIsFrozen`. The inductive invariant is
  `Evidence`: an invocation only runs on a run that is in progress
  (`RunningIsOpen`); an approval was signed; there is no implementation event
  before the implementation row (`ImplementedOnce`), which makes its base final;
  and from the invocation's memory, the records and the events of verification,
  code review and delivery follow, in turn, that the commit they name was
  verified, was reviewed and lies above that base. It is needed because delivery sees records
  only: each record must carry what was true when it was written, through edits and
  kills.
  Its second half is about the order of gates. `GatesDue` says where each gate may be: its event is there
  only with its stage's row and after the gate before it, and a place between the opening of a group
  and its gate implies that the gate is still to come. It gives `GateEventsStay` (`GateEventsAreFinal`)
  and the refinement `GateOrderHolds`, `Spec => GatesPassInOrder`: initial states map to initial
  states, and each step of the run passes the next gate of `DeliveryOrder`, authorizes, closes, or
  stutters. With `PlanIsForApproved` (every plan in an invocation's hands after its draft is
  written from the approved specification) it gives `AuthorizationHolds` (`AuthorizationBinds`); with
  `BranchIsGated` (the branch carries no documents but the gated ones, and every base a
  stage knows lies above them) `DocumentsHold` (`CertifiesGatedDocuments`). `RowsHold` relates the rows
  to the gates for as long as no row was added or completed by hand: they are a prefix of
  `STAGES`, and all but the last passed. From it follow
  `ResidueHolds` (`ResidueIsRefused`), and, with `RestsAtBoundary`, `NoWedgeHolds` (`NoWedge`), for
  every value of `StoreFaults`, `MayCrash` and `MaxManual`: what it excludes is in the property's own precondition,
  and TLC finds a counterexample without each of them.
* `DocReviewProofs`. `AnsweredHolds` (`EveryFindingIsAnswered`) and `AskedHolds`
  (`OnlyAuthorsAsk`). The inductive invariant `ReviewInv` has two parts. `RowsAreSound`: rows
  and pending decisions are what validation returns (`ValidationIsSound`), so only a
  chosen blocking decision asks. `FindingsAreTracked`: within a round, each finding is decided,
  or still raised, or at some place of `pending`; this holds when a list of decisions
  replaces a set of findings because `AnswersAll` gives every finding a place. It is needed
  because the gate reads decisions only and cannot see a finding nobody answered.
  `ChangesHold` (`ChangesAreOwned`) adds `DocumentsInPlace` (how many revisions there are at each
  place) and `ChangesAreTracked`: the rounds that are stored are owned, and the one being
  stored is owned by the decisions it will have stored. The accounting of
  `validateReconciliation` releases the claims of a decision it converts; the review is then blocked,
  so a review that passed has no converted decision, which is why the strengthening
  speaks of `converted`. `UpstreamHolds` (`UpstreamIsFiled`) has `UpstreamIsTracked`: one row per
  topic and route, and each stored upstream decision but the one in hand is under one of them.
  `DisclosuresHold` (`DisclosuresAreSettled`) has `DeniedIsKept`: what was denied is still in the
  document. `TypesHold` is `TypeOK`.
* `StoreProofs`. `StoreInv` says for every place of a writer and a reader what it may rely on:
  who holds RESERVED is the only one with work of its own, that work is the committed database and
  what its unit has done so far, a unit on disk is whole or absent, and a reader's snapshot is
  the committed state. It gives `ChainHolds`, `UnitsHold`, `SnapshotsHold` and `RecordHolds`, for any
  number of writers, readers, units, attempts and migrations. No part of it is about the repository
  lock, which appends to the audit chain need not hold.
* `GuidedProofs`. `GuidedInv` is `Core` (sound rows, one holder of the lock, and for each place of
  an invocation what it may still believe of its run: `OwnAt`), `HandoffInv` (a payload written is
  in the directory, moved aside or archived), what the operator keeps editing, and `OneOpenRun`. What an invocation
  read without the lock is not believed: the proof needs the second selection and the fingerprint
  exactly where the code repeats them. `ConsentHolds`, `OneOpenHolds`, `UnfrozenHolds`,
  `PayloadsHold` and `GuidedTypes` follow, from every scene that `ScenesAreLeft` allows.
  `ArchivesHold` (`ArchivesAreExactUnlessPutBack`) is for any number of sessions. Its invariant
  `RotationInv` says of a session that is about to archive, by the payload it read: that payload is still
  moved aside, or it is archived already, or somebody put it back. Only the third case lets something else be
  moved aside under the same name, and only then the archive can be wrong, as `archive_race` shows.
* `BootstrapProofs`. `ShownHolds` (`ShownIsCommitted`): `ShownInv` says that a session nobody meddled with
  finds, from its check on, no staged change outside the paths it owns, and that what it showed
  is what is staged. `RerunsHold` (`RerunsResume`), under `SlugsAreNames` (a design's path is none of
  the starter's): as long as nothing foul happened there is one
  feature whose files are all there is (`Grown`: as generated or as authored, staged only as they are,
  committed only as they are staged), at most one session works, and it is `OnCourse`.
  `RerunsResume` says only that nobody was refused; it is inductive with these, since each refusal is
  excluded by a clause of them. TLC checked the invariant with three sessions first.
* `ReviewPanelProofs`. `ChildrenAreTrue` relates a child's listeners, timers and signals to its
  process, and gives `OutcomesHold` (`OutcomesAreTrue`). `ReviewInv` is `OutcomesAreSound`, `InPlace` (round,
  commit and length of the record at each place), `RoundsAreChained` (each round of the record
  saw the commit before its remedy, with all its reviewers), `PanelIsWhole` and `Deserved`; it gives
  `PassHolds`, `ParsingHolds` and `ReportsHold`.

* `PanelsProofs`. `PanelsHold` (`PanelsAreExact`), `RefusalsHold` (`RefusalsAreNeeded`) and
  `FrozenProfilesHold` (`FrozenProfilesSeat`), for every list of agents, policy, request and
  inherited profile of the shape that `invalidPolicyReason` and the author's validators ask for first.
  The argument is about the algorithms, not about steps: `RequiredAreSeated` and `RankedAreSeated` say
  what the two loops of `selectReviewers` leave (every seat sound, earlier seats kept, and either no seat free or no
  lens of the pool unseated), by induction over their seats; `SelectionIsExact` combines the three passes.
  It needs the count of lenses twice: a second pass that ran out of seats has as many lenses as required and
  requested together, hence all of them; a third one that ran out of lenses has as many as staffing counted.
  `NoOtherSeating` is the other direction, `ByIdLists` the order by id (the rank of an agent is the number of
  those before it), `FreezingSorts` and `FrozenStaffs` what freezing preserves. `PanelInv` adds that a
  panel is seated only from a profile that was honoured and a request that was permitted.

Where a proof needs induction over data (the length of a concatenation, a sum over a set of decisions, the seats of
a panel), it is by a set of numbers that holds 0 and successors (`NumbersAreReached`, `UpTo`), because a set of
numbers has a least one (`LeastNumber`, from `WFMin`): the induction theorems of the library take an operator, which
no prover here can instantiate. `Recursion` gives, in the same way, the existence of a function that each of its values
determines from the one before, which is what a recursive definition needs to be unfolded.

Only model-checked are the liveness properties `StaleLockClears`, `RunSettles` and `ReviewSettles`, because the
prover cannot treat ENABLED. Every other property of a passing run is the conclusion of a theorem.

## Abstractions

* One run and one feature in the governed models; `GuidedCommand` has several rows of one identity.
* In the model of the whole run, findings, decisions and proposals of a round are one
  outcome: does a decision block, which questions are asked. `DocReview` has them, for
  one review, without edits of its document; `ReviewPanel` has those of code review, without kills of the invocation.
* Scope is one set of paths in `ReviewPanel`; in the whole run, a patch may always be
  refused, delivery may always find an artifact missing.
* Process groups are POSIX ones. The grace timer fires only after the pipe was read, and an idle
  timer is not re-armed after the outcome is settled.
* In `Store` all processes run one checkout, hence support one version; SQLite's PENDING
  lock and retries of single statements are part of the steps they delay; the files of a delivery are one.
  Only a connection that may write rolls a hot journal back, as `docs/features/cli-operator/plan.md:316` says.
* `Panels` leaves out `computeRisk` and the policy's hash. Settings are present or missing.
* In `GuidedCommand` keys, profile mismatches and the age of a run can only refuse, and are left out.
* `Bootstrap` has a starter of two files, the one that names the feature and another; author identity and
  what `npm` writes are left out, and `npm` may fail.
* In `DocReview` an entry of "Open decisions" has two texts, a proposal candidate one
  topic, and a citation either occurs or not; severities, classifications and the
  reports of each reviewer are left out. An answer with a wrong shape, a wrong change
  kind or an added open decision is an `Abort`. The evidence file of a proposal is not
  modelled.
* A signature is membership in `signed`; in the governed models expiry and the age limit of a
  run can only refuse, and are refusals that change nothing.
* The files of verification and code review are only written by their stages.
* In the governed models a statement of the store is one step; `Store` has what is under it.

## Plan

The models of the plan are built, except `PatchRange` (paths of patches through
`patch-application.ts`, moved paths and projections), of which `ReviewPanel` has the part
that delivery depends on. Every safety property that a passing run checks is proved. What would come next:

1. A model of `patch-application.ts` with paths, moves and projections, and that what it commits is what the gate saw.
2. The dispatch of a panel, which `ReviewPanel` has for code review only, in the rounds of `DocReview`.

## Not modelled

The dashboard's user interface (`src/dashboard/app.js`, `dashboard-model.js`), prompts and argument
parsing, the Markdown grammar of documents, what commands print, and the read-only diagnostics: they
keep no state that a property could be about, or are presentation and parsing of text. The build script
`scripts/doc-check.mjs` is not part of the program.
