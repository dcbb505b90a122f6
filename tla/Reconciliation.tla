--------------------------- MODULE Reconciliation ---------------------------
(***************************************************************************)
(* validateReconciliation of src/reconciliation.ts: the author's typed     *)
(* answer to one round's findings, checked against the normative nodes the *)
(* author's revision added and removed.  Pure: the answer is a sequence of *)
(* decisions in the order the author returned them.  A document is the     *)
(* number of copies of each normative node; a claim set counts the entries *)
(* of a decision's normativeChanges that name each node.                   *)
(***************************************************************************)
EXTENDS Naturals, Sequences, FiniteSets

CONSTANTS Nodes,          \* texts of normative nodes
          Copies,         \* most copies of a node in one document (a bound)
          Topics,         \* title and problem of a proposal candidate
          AsksQuestions   \* requireQuestions: TRUE for a spec, FALSE for a plan

ASSUME CopiesAssumption == Copies \in Nat
ASSUME NodesAssumption == IsFiniteSet(Nodes)
ASSUME AsksQuestionsAssumption == AsksQuestions \in BOOLEAN

DISPOSITIONS == {"addressed", "rejected_with_rationale", "upstream_follow_up",
                 "upstream_blocking", "cannot_determine"}
BLOCKING_DISPOSITIONS == {"upstream_blocking", "cannot_determine"}
QUESTION_DISPOSITIONS == {"upstream_blocking", "cannot_determine"}
Upstream == {"upstream_follow_up", "upstream_blocking"}

Documents == [Nodes -> 0..Copies]
NoClaims == [n \in Nodes |-> 0]

(* parseQuestion: a question is required of a decision that may be put to    *)
(* the operator, and forbidden elsewhere.                                    *)
AsksWhenRequired(d, asks) ==
  d.question = (asks /\ d.disposition \in QUESTION_DISPOSITIONS)

(* What the author may say of one finding: the fields each disposition       *)
(* requires or forbids.  "grounded" is whether every citation it has occurs  *)
(* in the governing text; a decision without a citation cannot fail that.    *)
Decisions(asks) ==
  {d \in [disposition : DISPOSITIONS, grounded : BOOLEAN, claims : Documents,
          proposal : SUBSET Topics, question : BOOLEAN, converted : {FALSE}] :
     /\ d.claims # NoClaims => d.disposition = "addressed"
     /\ ~d.grounded => d.disposition = "rejected_with_rationale" \/ d.claims # NoClaims
     /\ Cardinality(d.proposal) = IF d.disposition \in Upstream THEN 1 ELSE 0
     /\ AsksWhenRequired(d, asks)}

(* Exactly one decision for each finding of the round, and for no other. *)
AnswersAll(ids, wanted) ==
  /\ \A i \in DOMAIN ids : ids[i] \in wanted
  /\ \A i, j \in DOMAIN ids : ids[i] = ids[j] => i = j
  /\ \A f \in wanted : \E i \in DOMAIN ids : ids[i] = f

(* Not the code: a converted decision keeps the question it came with. *)
ConvertKeepingQuestion(d) ==
  [d EXCEPT !.disposition = "cannot_determine", !.claims = NoClaims,
            !.proposal = {}, !.question = AsksQuestions, !.converted = TRUE]

(* A failed content check leaves a decision that asks and claims nothing. *)
Convert(d) ==
  [d EXCEPT !.disposition = "cannot_determine", !.claims = NoClaims,
            !.proposal = {}, !.question = FALSE, !.converted = TRUE]

(* The first pass: a citation that does not occur converts its decision. *)
Grounded(d) == IF d.grounded THEN d ELSE Convert(d)

(* Multiset difference, and the same with its arguments swapped. *)
AddedNodes(before, after) ==
  [n \in Nodes |-> IF after[n] > before[n] THEN after[n] - before[n] ELSE 0]
RemovedNodes(before, after) == AddedNodes(after, before)

(* Not the code: a decision's own earlier claims are not counted. *)
FitsOnce(d, left) == \A n \in Nodes : d.claims[n] > 0 => left.added[n] + left.removed[n] > 0

(* A decision's claims fit what is still claimable, in either direction. *)
Fits(d, left) == \A n \in Nodes : d.claims[n] <= left.added[n] + left.removed[n]

(* Additions are spent first; a decision that does not fit spends nothing. *)
Consume(d, left) ==
  IF ~Fits(d, left) THEN left
  ELSE [added   |-> [n \in Nodes |-> IF d.claims[n] > left.added[n]
                                       THEN 0 ELSE left.added[n] - d.claims[n]],
        removed |-> [n \in Nodes |-> IF d.claims[n] > left.added[n]
                                       THEN left.removed[n] - (d.claims[n] - left.added[n])
                                       ELSE left.removed[n]]]

(* The second pass, decision by decision: what is claimable after i of them. *)
Claimable(ds, before, after) ==
  LET left[i \in 0..Len(ds)] ==
        IF i = 0 THEN [added   |-> AddedNodes(before, after),
                       removed |-> RemovedNodes(before, after)]
                 ELSE Consume(ds[i], left[i - 1])
  IN  left

(* The validated decisions, and the changed nodes none of them owns. *)
ValidateReconciliation(answer, before, after) ==
  LET ds   == [i \in DOMAIN answer |-> Grounded(answer[i])]
      left == Claimable(ds, before, after)
      end  == left[Len(ds)]
  IN  [decisions |-> [i \in DOMAIN ds |-> IF Fits(ds[i], left[i - 1])
                                            THEN ds[i] ELSE Convert(ds[i])],
       unclaimedNodes    |-> {n \in Nodes : end.added[n] > 0},
       unclaimedRemovals |-> {n \in Nodes : end.removed[n] > 0}]

Conversions(v) == {i \in DOMAIN v.decisions : v.decisions[i].converted}
=============================================================================
