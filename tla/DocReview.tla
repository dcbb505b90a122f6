----------------------------- MODULE DocReview -----------------------------
(***************************************************************************)
(* The review rounds of runSpecStage (src/spec-stage.ts) and runPlanStage  *)
(* (src/plan-stage.ts), which share one shape, and for the spec the fold   *)
(* of the operator's answers (src/spec-decision-stage.ts): what becomes of *)
(* every finding, decision, question, proposal and normative node.  Here a *)
(* document has content; SpecStages, PlanStages and SpecDecision model the *)
(* same stages as steps of a run, with documents as model values.          *)
(***************************************************************************)
EXTENDS Reconciliation, FiniteSetsExt

CONSTANTS Keys,         \* identities of findings: location and intent key
          Disclosures,  \* those of the author's open decisions
          Rounds,       \* specReviewRounds or planReviewRounds
          Seats         \* reviewers of the panel

ASSUME KeysAssumption == IsFiniteSet(Keys)
ASSUME DisclosuresAssumption == Disclosures \subseteq Keys
ASSUME DisclosuresAreSpec == Disclosures # {} => AsksQuestions
ASSUME RoundsAssumption == Rounds \in Nat \ {0}
ASSUME SeatsAssumption == Seats \in Nat \ {0}

VARIABLES
  phase,      \* where the stage is
  round,      \* the round of the loop
  seat,       \* reviewers of this round that have reported
  raised,     \* findings of this round that go to the reconciler (in memory)
  pending,    \* validated decisions not yet stored, of one reconciliation
  revisions,  \* normative nodes of the reviewed document and of each revision
  open,       \* text of each entry under "Open decisions"
  findings,   \* finding rows of the stage
  decisions,  \* finding_decision rows, a function from findings
  questions,  \* findings with a decision_question row
  proposals,  \* proposal rows with their proposal_source links
  answers,    \* decision_answer rows, a function from findings
  folded      \* claims of each folded answer, of spec_decision.fold.record

operator == <<answers, folded>>
control == <<phase, round, seat, raised, pending>>
document == <<revisions, open>>
rows == <<findings, decisions, questions, proposals, operator>>
vars == <<control, document, rows>>

(* UNIQUE (stage_id, round, intent_key, location): a finding is per round. *)
Findings == [round : 1..Rounds, key : Keys]
Texts == {"absent", "first", "other"}
Current == revisions[Len(revisions)]

Phases == {"disclose", "panel", "reconcile", "store", "question", "proposal",
           "summary", "gate", "asking", "fold", "passed", "blocked", "dead"}
Settled == {"passed", "blocked", "dead"}

(* The review starts from the self-critiqued document. *)
Init ==
  /\ phase = "disclose"
  /\ round = 1
  /\ seat = 0
  /\ raised = {}
  /\ pending = <<>>
  /\ \E d \in Documents : revisions = <<d>>
  /\ \E ds \in SUBSET Disclosures :
       open = [k \in Disclosures |-> IF k \in ds THEN "first" ELSE "absent"]
  /\ findings = {}
  /\ decisions = <<>>
  /\ questions = {}
  /\ proposals = {}
  /\ answers = <<>>
  /\ folded = <<>>

(* upsertCanonicalFinding: the row of this round's identity, old or new. *)
Record(keys) ==
  LET fs == [round : {round}, key : keys]
  IN  /\ findings' = findings \cup fs
      /\ raised' = raised \cup fs

(* disclosedOpenDecisionReports: the entries of "Open decisions". *)
Disclosed == {k \in Disclosures : open[k] # "absent"}

(* Round 1 opens with the author's own disclosed open decisions. *)
Disclose ==
  /\ phase = "disclose"
  /\ phase' = "panel"
  /\ Record(Disclosed)
  /\ UNCHANGED <<round, seat, pending, document, decisions, questions, proposals, operator>>

(* validateReviewerReports: no identity twice in one reviewer's result. *)
ReviewerReports(identities) == SUBSET identities

(* One reviewer's reports; the last one hands over to the reconciler, over   *)
(* an empty round too.                                                       *)
Report ==
  /\ phase = "panel"
  /\ \E keys \in ReviewerReports(Keys) : Record(keys)
  /\ seat' = seat + 1
  /\ phase' = IF seat + 1 = Seats THEN "reconcile" ELSE "panel"
  /\ UNCHANGED <<round, pending, document, decisions, questions, proposals, operator>>

(* A revision may drop or reword an open decision, never add one. *)
Revised(o) ==
  {p \in [Disclosures -> Texts] : \A k \in Disclosures : o[k] = "absent" => p[k] = "absent"}

(* A changed node nobody claims ends the round, unless a conversion released *)
(* claims: then a stored cannot_determine decision will block at the gate.   *)
Unowned(v) ==
  (v.unclaimedNodes # {} \/ v.unclaimedRemovals # {}) /\ Conversions(v) = {}

(* The reconciliation dispatch, its validation, and the revision's write. *)
Reconcile ==
  /\ phase = "reconcile"
  /\ \E after \in Documents, p \in Revised(open),
        ids \in [1..Cardinality(raised) -> raised] :
       /\ AnswersAll(ids, raised)
       /\ revisions' = Append(revisions, after)
       /\ open' = p
       /\ \E answer \in [DOMAIN ids -> Decisions(AsksQuestions)] :
            LET v == ValidateReconciliation(answer, Current, after)
            IN  /\ ~Unowned(v)
                /\ pending' = [i \in DOMAIN ids |-> [finding |-> ids[i], decision |-> v.decisions[i]]]
  /\ phase' = "store"
  /\ UNCHANGED <<round, seat, raised, rows>>

(* insertFindingDecision: UNIQUE (finding_id), one decision ever. *)
StoreDecision ==
  /\ phase = "store"
  /\ pending # <<>>
  /\ Head(pending).finding \notin DOMAIN decisions
  /\ decisions' = [f \in DOMAIN decisions \cup {Head(pending).finding} |->
                     IF f = Head(pending).finding THEN Head(pending).decision ELSE decisions[f]]
  /\ phase' = "question"
  /\ UNCHANGED <<round, seat, raised, pending, document, findings, questions, proposals, operator>>

(* insertDecisionQuestion, when the decision asks. *)
StoreQuestion ==
  /\ phase = "question"
  /\ questions' = questions \cup {p.finding : p \in {q \in {Head(pending)} : q.decision.question}}
  /\ phase' = "proposal"
  /\ UNCHANGED <<round, seat, raised, pending, document, findings, decisions, proposals, operator>>

Route(disposition) ==
  IF disposition = "upstream_blocking" THEN "blocking_dependency" ELSE "follow_up"

(* Not the code: the identity of a proposal leaves its route out. *)
SameIdentityAnyRoute(row, topic, route) == row.topic = topic

(* proposalIdentity: stage, title, problem and route. *)
SameIdentity(row, topic, route) == row.topic = topic /\ row.route = route

(* upsertProposal: a candidate raised before links its finding to that row. *)
UpsertProposal(f, topic, route) ==
  LET same == {row \in proposals : SameIdentity(row, topic, route)}
  IN  proposals' = IF same = {}
        THEN proposals \cup {[topic |-> topic, route |-> route, sources |-> {f}]}
        ELSE {IF row \in same THEN [row EXCEPT !.sources = @ \cup {f}] ELSE row : row \in proposals}

(* The candidate of an upstream decision is filed; then the next decision. *)
StoreProposal ==
  /\ phase = "proposal"
  /\ LET d == Head(pending).decision
     IN  IF d.disposition \in Upstream
           THEN \E t \in d.proposal : UpsertProposal(Head(pending).finding, t, Route(d.disposition))
           ELSE UNCHANGED proposals
  /\ pending' = Tail(pending)
  /\ phase' = IF Len(pending) = 1 THEN "summary" ELSE "store"
  /\ UNCHANGED <<round, seat, raised, document, findings, decisions, questions, operator>>

(* The round's event; after the last round the gate, else a fresh round. *)
Summarize ==
  /\ phase = "summary" \/ (phase = "store" /\ pending = <<>>)
  /\ phase' = IF round = Rounds THEN "gate" ELSE "panel"
  /\ round' = IF round = Rounds THEN round ELSE round + 1
  /\ seat' = 0
  /\ raised' = {}
  /\ UNCHANGED <<pending, document, rows>>

(* Not the code: the gate reads the decisions of the last round only. *)
BlockedInLastRound ==
  {f \in DOMAIN decisions : /\ f.round = Rounds
                            /\ decisions[f].disposition \in BLOCKING_DISPOSITIONS
                            /\ f \notin questions}

(* specReviewGate and planReviewGate, over the decisions of every round: a   *)
(* blocking one stops the run unless it opened a question.                   *)
Blocked ==
  {f \in DOMAIN decisions : /\ decisions[f].disposition \in BLOCKING_DISPOSITIONS
                            /\ f \notin questions}

(* With questions open the run pauses for the operator. *)
PassGate ==
  /\ phase = "gate"
  /\ Blocked = {}
  /\ phase' = IF questions = {} THEN "passed" ELSE "asking"
  /\ UNCHANGED <<round, seat, raised, pending, document, rows>>

BlockGate ==
  /\ phase = "gate"
  /\ Blocked # {}
  /\ phase' = "blocked"
  /\ UNCHANGED <<round, seat, raised, pending, document, rows>>

(* Not the code: any finding of the stage can be answered. *)
AnswerAnyFinding ==
  /\ phase = "asking"
  /\ \E f \in findings \ DOMAIN answers, a \in {"approve", "deny", "modify"} :
       answers' = [g \in DOMAIN answers \cup {f} |-> IF g = f THEN a ELSE answers[g]]
  /\ UNCHANGED <<control, document, findings, decisions, questions, proposals, folded>>

(* answerQuestion: each question has one answer, ever. *)
AnswerQuestion ==
  /\ phase = "asking"
  /\ \E f \in questions \ DOMAIN answers, a \in {"approve", "deny", "modify"} :
       answers' = [g \in DOMAIN answers \cup {f} |-> IF g = f THEN a ELSE answers[g]]
  /\ UNCHANGED <<control, document, findings, decisions, questions, proposals, folded>>

(* The decision group, once every question has its answer. *)
StartFold ==
  /\ phase = "asking"
  /\ DOMAIN answers = questions
  /\ phase' = "fold"
  /\ UNCHANGED <<round, seat, raised, pending, document, rows>>

Denied(k) == {f \in DOMAIN answers : f.key = k /\ answers[f] = "deny"}
Decided(k) == {f \in DOMAIN answers : f.key = k /\ answers[f] # "deny"}

(* Not the code: an entry the review itself dropped is not missed. *)
RefusesNoDropped(p) ==
  \E k \in Disclosures : Decided(k) = {} /\ p[k] # open[k]

(* openDecisionRefusals: a denied disclosure must be there, and an entry no  *)
(* approved or modified answer owns stays as the review left it.             *)
OpenDecisionRefusals(p) ==
  \E k \in Disclosures :
    \/ Denied(k) # {} /\ open[k] = "absent"
    \/ Decided(k) = {} /\ p[k] # open[k]

Folds == {f \in questions : answers[f] # "deny"}

(* Every answer is deny: nothing is dispatched. *)
PassDenied ==
  /\ phase = "fold"
  /\ Folds = {}
  /\ ~OpenDecisionRefusals(open)
  /\ phase' = "passed"
  /\ UNCHANGED <<round, seat, raised, pending, document, rows>>

(* One dispatch folds the approved and modified answers: every one of them   *)
(* addressed, and every changed node claimed by one of them.                 *)
FoldAnswers ==
  /\ phase = "fold"
  /\ Folds # {}
  /\ \E after \in Documents, p \in Revised(open), ids \in [1..Cardinality(Folds) -> Folds] :
       /\ AnswersAll(ids, Folds)
       /\ ~OpenDecisionRefusals(p)
       /\ revisions' = Append(revisions, after)
       /\ open' = p
       /\ \E answer \in [DOMAIN ids -> {d \in Decisions(AsksQuestions) : d.disposition = "addressed"}] :
            LET v == ValidateReconciliation(answer, Current, after)
            IN  /\ \A i \in DOMAIN ids : v.decisions[i].disposition = "addressed"
                /\ v.unclaimedNodes = {} /\ v.unclaimedRemovals = {}
                /\ folded' = [f \in Folds |->
                     (CHOOSE d \in {[id |-> ids[i], claims |-> v.decisions[i].claims] : i \in DOMAIN ids} :
                        d.id = f).claims]
  /\ phase' = "passed"
  /\ UNCHANGED <<round, seat, raised, pending, findings, decisions, questions, proposals, answers>>

(* A failed or refused dispatch, an invalid answer, or a store or file that  *)
(* throws: the stage and the run are blocked, whatever was stored stays.     *)
Abort ==
  /\ phase \notin Settled \cup {"asking"}
  /\ phase' = "blocked"
  /\ UNCHANGED <<round, seat, raised, pending, document, rows>>

(* The process dies: what it had in memory is gone. *)
Die ==
  /\ phase \notin Settled \cup {"asking"}
  /\ phase' = "dead"
  /\ raised' = {}
  /\ pending' = <<>>
  /\ UNCHANGED <<round, seat, document, rows>>

Next ==
  \/ Disclose \/ Report \/ Reconcile
  \/ StoreDecision \/ StoreQuestion \/ StoreProposal \/ Summarize
  \/ PassGate \/ BlockGate
  \/ AnswerQuestion \/ StartFold \/ PassDenied \/ FoldAnswers
  \/ Abort \/ Die

Spec == Init /\ [][Next]_vars

-----------------------------------------------------------------------------
(* The state has the types the code's rows and variables have. *)
TypeOK ==
  /\ phase \in Phases
  /\ round \in 1..Rounds
  /\ seat \in 0..Seats
  /\ raised \subseteq findings
  /\ findings \subseteq Findings
  /\ pending \in Seq([finding : findings, decision : [disposition : DISPOSITIONS,
       grounded : BOOLEAN, claims : Documents, proposal : SUBSET Topics,
       question : BOOLEAN, converted : BOOLEAN]])
  /\ revisions \in Seq(Documents)
  /\ open \in [Disclosures -> Texts]
  /\ DOMAIN decisions \subseteq findings
  /\ questions \subseteq findings
  /\ DOMAIN answers \subseteq questions
  /\ DOMAIN folded \subseteq DOMAIN answers

Reviewed == phase \in {"asking", "fold", "passed"}

(* A review that passed has answered every finding of every round, the       *)
(* author's disclosures included, and no blocking answer of an earlier round *)
(* is hidden by a later clean one: each has the operator's question.         *)
EveryFindingIsAnswered ==
  Reviewed =>
    /\ DOMAIN decisions = findings
    /\ \A f \in findings :
         decisions[f].disposition \in BLOCKING_DISPOSITIONS => f \in questions

(* At any moment, also after a crash or a failing store, the operator is     *)
(* only asked what the author chose to ask: an answer deterministic checks   *)
(* rejected never becomes a question that would let it through the gate.     *)
OnlyAuthorsAsk ==
  \A f \in questions :
    /\ f \in DOMAIN decisions
    /\ ~decisions[f].converted
    /\ decisions[f].disposition \in QUESTION_DISPOSITIONS

Changed(before, after, n) == AddedNodes(before, after)[n] + RemovedNodes(before, after)[n]

(* How many of the claims of some findings name a node. *)
Claimed(claims, fs, n) == MapThenSumSet(LAMBDA f : claims[f][n], fs)

(* Through every round and the fold, each copy of a normative node that came *)
(* or went is claimed by exactly one decision of that reconciliation: none   *)
(* is unowned, none is claimed twice, and no claim is about anything else.   *)
ChangesAreOwned ==
  LET claims == [f \in DOMAIN decisions |-> decisions[f].claims]
      decided(r) == {f \in DOMAIN decisions : f.round = r}
  IN  /\ Reviewed => \A r \in 1..Rounds, n \in Nodes :
           Changed(revisions[r], revisions[r + 1], n) = Claimed(claims, decided(r), n)
      /\ phase = "passed" => \A n \in Nodes :
           Changed(revisions[Rounds + 1], Current, n) = Claimed(folded, DOMAIN folded, n)

(* Once a round is stored, every upstream concern is filed under exactly one *)
(* proposal, and one that escalates from follow-up to blocking is not folded *)
(* into the earlier route's row.                                             *)
UpstreamIsFiled ==
  phase \notin {"store", "question", "proposal", "blocked", "dead"} =>
    \A f \in DOMAIN decisions :
      decisions[f].disposition \in Upstream =>
        \E row \in proposals :
          /\ f \in row.sources
          /\ row.route = Route(decisions[f].disposition)
          /\ \A other \in proposals : f \in other.sources => other = row

(* A question the author disclosed leaves the document only through an       *)
(* answer: the author's own non-blocking decision, or an approved or         *)
(* modified answer of the operator.  A denied one is still there.            *)
DisclosuresAreSettled ==
  phase = "passed" =>
    \A f \in findings :
      (f.round = 1 /\ f.key \in Disclosures /\ open[f.key] = "absent") =>
        \/ decisions[f].disposition \notin BLOCKING_DISPOSITIONS
        \/ Decided(f.key) # {}
=============================================================================
