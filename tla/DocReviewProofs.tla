-------------------------- MODULE DocReviewProofs --------------------------
(* Proofs about DocReview for any identities, nodes, topics, rounds and seats. *)
EXTENDS DocReview, FiniteSetTheorems, WellFoundedInduction, TLAPS

-----------------------------------------------------------------------------
(* A set that holds 0 and the successor of each of its elements holds every  *)
(* number: induction, for a set in place of a predicate.                     *)
LEMMA NumbersAreReached ==
  ASSUME NEW P \in SUBSET Nat, 0 \in P, \A k \in P : k + 1 \in P
  PROVE  P = Nat
<1> DEFINE R == {ss \in Nat \X Nat : ss[1] < ss[2]}
<1>1. IsWellFoundedOn(R, Nat)
  BY NatLessThanWellFounded DEF OpToRel
<1> HIDE DEF R
<1> SUFFICES ASSUME Nat \ P # {} PROVE FALSE
  OBVIOUS
<1>2. PICK x \in Nat \ P : \A y \in Nat \ P : ~(<<y, x>> \in R)
  BY <1>1, WFMin
<1>3. \A y \in Nat \ P : ~(y < x)
  BY <1>2 DEF R
<1>4. x # 0
  BY <1>2
<1>5. QED
  BY <1>2, <1>3, <1>4

(* The same for the finite sets of a family, by their size.                  *)
LEMMA SizesAreReached ==
  ASSUME NEW S, IsFiniteSet(S), NEW Q \in SUBSET (SUBSET S), {} \in Q,
         \A s \in SUBSET S : s # {} /\ (\A x \in s : s \ {x} \in Q) => s \in Q
  PROVE  Q = SUBSET S
<1> DEFINE P == {k \in Nat : \A s \in SUBSET S : Cardinality(s) = k => s \in Q}
<1>1. \A s \in SUBSET S : IsFiniteSet(s) /\ Cardinality(s) \in Nat
  BY FS_Subset, FS_CardinalityType
<1>2. 0 \in P
  BY <1>1, FS_EmptySet
<1>3. ASSUME NEW k \in P PROVE k + 1 \in P
  <2> SUFFICES ASSUME NEW s \in SUBSET S, Cardinality(s) = k + 1 PROVE s \in Q
    OBVIOUS
  <2>1. s # {}
    BY FS_EmptySet
  <2>2. ASSUME NEW x \in s PROVE s \ {x} \in Q
    <3>1. Cardinality(s \ {x}) = Cardinality(s) - 1
      BY <1>1, FS_RemoveElement
    <3>2. QED
      BY <3>1
  <2>3. QED
    BY <2>1, <2>2
<1>4. P = Nat
  <2> HIDE DEF P
  <2>1. P \in SUBSET Nat
    BY DEF P
  <2>2. QED
    BY <1>2, <1>3, <2>1, NumbersAreReached
<1>5. QED
  BY <1>1, <1>4

-----------------------------------------------------------------------------
(* What MapThenSumSet makes of claims, and that it exists.                   *)
IsTotal(g, claims, S, n) ==
  g = [s \in SUBSET S |-> IF s = {} THEN 0
        ELSE LET x == CHOOSE x \in s : TRUE IN claims[x][n] + g[s \ {x}]]

LEMMA TotalIsSum ==
  ASSUME NEW claims, NEW fs, NEW n
  PROVE  Claimed(claims, fs, n) = (CHOOSE g : IsTotal(g, claims, fs, n))[fs]
BY DEF Claimed, MapThenSumSet, MapThenFoldSet, IsTotal

LEMMA TotalExists ==
  ASSUME NEW claims, NEW S, IsFiniteSet(S), NEW n
  PROVE  \E g : IsTotal(g, claims, S, n)
<1> DEFINE body(s, g) == IF s = {} THEN 0
                         ELSE LET x == CHOOSE x \in s : TRUE IN claims[x][n] + g[s \ {x}]
           Upto(g, k) == \A s \in SUBSET S : Cardinality(s) <= k => g[s] = body(s, g)
           P == {k \in Nat : \E g : Upto(g, k)}
<1>1. \A s \in SUBSET S : IsFiniteSet(s) /\ Cardinality(s) \in Nat /\ (Cardinality(s) = 0 <=> s = {})
  BY FS_Subset, FS_CardinalityType, FS_EmptySet
<1>2. \A s \in SUBSET S : s # {} =>
        LET x == CHOOSE x \in s : TRUE
        IN  x \in s /\ s \ {x} \in SUBSET S /\ Cardinality(s \ {x}) = Cardinality(s) - 1
  BY <1>1, FS_RemoveElement
<1>3. 0 \in P
  <2> DEFINE g == [s \in SUBSET S |-> 0]
  <2>1. Upto(g, 0)
    BY <1>1
  <2>2. QED
    BY <2>1
<1>4. ASSUME NEW k \in P PROVE k + 1 \in P
  <2>1. PICK g : Upto(g, k)
    OBVIOUS
  <2> DEFINE h == [s \in SUBSET S |-> IF Cardinality(s) = k + 1 THEN body(s, g) ELSE g[s]]
  <2>2. ASSUME NEW s \in SUBSET S, Cardinality(s) <= k + 1 PROVE h[s] = body(s, h)
    <3>0. k \in Nat /\ Cardinality(s) \in Nat /\ (Cardinality(s) = 0 <=> s = {})
      BY <1>1
    <3>1. CASE s = {}
      <4>1. Cardinality(s) # k + 1 /\ Cardinality(s) <= k
        BY <3>0, <3>1
      <4>2. h[s] = g[s] /\ g[s] = body(s, g)
        BY <2>1, <4>1
      <4>3. body(s, g) = 0 /\ body(s, h) = 0
        BY <3>1, Zenon
      <4>4. QED
        BY <4>2, <4>3
    <3>2. CASE s # {}
      <4> DEFINE x == CHOOSE x \in s : TRUE
      <4>1. s \ {x} \in SUBSET S /\ Cardinality(s \ {x}) = Cardinality(s) - 1
        BY <1>2, <3>2
      <4>2. Cardinality(s \ {x}) # k + 1
        BY <2>2, <3>0, <4>1
      <4>3. h[s \ {x}] = g[s \ {x}]
        BY <4>1, <4>2
      <4>4. h[s] = body(s, g)
        <5>1. CASE Cardinality(s) = k + 1
          BY <5>1
        <5>2. CASE Cardinality(s) # k + 1
          <6>1. Cardinality(s) <= k
            BY <2>2, <3>0, <5>2
          <6>2. h[s] = g[s] /\ g[s] = body(s, g)
            BY <2>1, <5>2, <6>1
          <6>3. QED
            BY <6>2
        <5>3. QED
          BY <5>1, <5>2
      <4>5. QED
        BY <3>2, <4>3, <4>4
    <3>3. QED
      BY <3>1, <3>2
  <2> HIDE DEF h, body
  <2>3. Upto(h, k + 1)
    BY <2>2
  <2>4. QED
    BY <2>3
<1>5. P = Nat
  <2> HIDE DEF P
  <2>1. P \in SUBSET Nat
    BY DEF P
  <2>2. QED
    BY <1>3, <1>4, <2>1, NumbersAreReached
<1>6. PICK g : Upto(g, Cardinality(S))
  <2>1. Cardinality(S) \in P
    BY <1>1, <1>5
  <2>2. QED
    BY <2>1
<1>7. \A s \in SUBSET S : g[s] = body(s, g)
  BY <1>1, <1>6, FS_Subset
<1> DEFINE h == [s \in SUBSET S |-> g[s]]
<1>8. ASSUME NEW s \in SUBSET S PROVE h[s] = body(s, h)
  <2>1. CASE s = {}
    BY <1>7, <2>1
  <2>2. CASE s # {}
    BY <1>2, <1>7, <2>2
  <2>3. QED
    BY <2>1, <2>2
<1>9. h = [s \in SUBSET S |-> h[s]]
  OBVIOUS
<1> HIDE DEF h
<1>10. h = [s \in SUBSET S |-> body(s, h)]
  <2> HIDE DEF body
  <2>1. QED
    BY <1>8, <1>9
<1>11. QED
  BY <1>10 DEF IsTotal

(* Totals are numbers and depend on the claims of the members only.          *)
LEMMA TotalsAgree ==
  ASSUME NEW c, NEW d, NEW S, NEW T, IsFiniteSet(S), S \subseteq T, NEW n,
         NEW g, IsTotal(g, c, S, n), NEW h, IsTotal(h, d, T, n),
         \A f \in S : c[f][n] \in Nat /\ c[f][n] = d[f][n]
  PROVE  \A s \in SUBSET S : g[s] = h[s] /\ g[s] \in Nat
<1> DEFINE Q == {s \in SUBSET S : g[s] = h[s] /\ g[s] \in Nat}
<1>1. \A s \in SUBSET S :
        /\ g[s] = IF s = {} THEN 0
                  ELSE LET x == CHOOSE x \in s : TRUE IN c[x][n] + g[s \ {x}]
        /\ h[s] = IF s = {} THEN 0
                  ELSE LET x == CHOOSE x \in s : TRUE IN d[x][n] + h[s \ {x}]
  BY DEF IsTotal
<1>2. {} \in Q
  BY <1>1
<1>3. ASSUME NEW s \in SUBSET S, s # {}, \A x \in s : s \ {x} \in Q PROVE s \in Q
  <2> DEFINE x == CHOOSE x \in s : TRUE
  <2>1. x \in s
    BY <1>3
  <2>2. g[s] = c[x][n] + g[s \ {x}] /\ h[s] = d[x][n] + h[s \ {x}]
    BY <1>1, <1>3
  <2>3. g[s \ {x}] = h[s \ {x}] /\ g[s \ {x}] \in Nat /\ c[x][n] = d[x][n] /\ c[x][n] \in Nat
    BY <1>3, <2>1
  <2> HIDE DEF x
  <2>4. QED
    BY <2>2, <2>3
<1>4. Q = SUBSET S
  <2> HIDE DEF Q
  <2>1. Q \in SUBSET (SUBSET S)
    BY DEF Q
  <2>2. QED
    BY <1>2, <1>3, <2>1, SizesAreReached
<1>5. QED
  BY <1>4

(* Any member may be counted first.                                          *)
LEMMA AnyMemberFirst ==
  ASSUME NEW c, NEW S, IsFiniteSet(S), NEW n, NEW g, IsTotal(g, c, S, n),
         \A f \in S : c[f][n] \in Nat
  PROVE  \A s \in SUBSET S : \A x \in s : g[s] = c[x][n] + g[s \ {x}]
<1> DEFINE Q == {s \in SUBSET S : \A x \in s : g[s] = c[x][n] + g[s \ {x}]}
<1>1. \A s \in SUBSET S : g[s] \in Nat
  BY TotalsAgree
<1>2. \A s \in SUBSET S : s # {} =>
        LET x == CHOOSE x \in s : TRUE IN g[s] = c[x][n] + g[s \ {x}]
  BY DEF IsTotal
<1>3. {} \in Q
  OBVIOUS
<1>4. ASSUME NEW s \in SUBSET S, s # {}, \A x \in s : s \ {x} \in Q PROVE s \in Q
  <2> SUFFICES ASSUME NEW x \in s PROVE g[s] = c[x][n] + g[s \ {x}]
    OBVIOUS
  <2> DEFINE y == CHOOSE y \in s : TRUE
  <2>1. y \in s /\ g[s] = c[y][n] + g[s \ {y}]
    BY <1>2, <1>4
  <2> HIDE DEF y
  <2>2. CASE x = y
    BY <2>1, <2>2
  <2>3. CASE x # y
    <3>1. g[s \ {y}] = c[x][n] + g[(s \ {y}) \ {x}]
      BY <1>4, <2>1, <2>3
    <3>2. g[s \ {x}] = c[y][n] + g[(s \ {x}) \ {y}]
      BY <1>4, <2>1, <2>3
    <3>3. (s \ {y}) \ {x} = (s \ {x}) \ {y} /\ (s \ {x}) \ {y} \in SUBSET S
      OBVIOUS
    <3>4. c[x][n] \in Nat /\ c[y][n] \in Nat /\ g[(s \ {x}) \ {y}] \in Nat
      BY <1>1, <2>1, <3>3
    <3>5. \A p, q, r \in Nat : p + (q + r) = q + (p + r)
      OBVIOUS
    <3>6. g[s] = c[y][n] + (c[x][n] + g[(s \ {x}) \ {y}])
      BY <2>1, <3>1, <3>3
    <3>7. g[s] = c[x][n] + (c[y][n] + g[(s \ {x}) \ {y}])
      BY <3>4, <3>5, <3>6
    <3>8. QED
      BY <3>2, <3>7
  <2>4. QED
    BY <2>2, <2>3
<1>5. Q = SUBSET S
  <2> HIDE DEF Q
  <2>1. Q \in SUBSET (SUBSET S)
    BY DEF Q
  <2>2. QED
    BY <1>3, <1>4, <2>1, SizesAreReached
<1>6. QED
  BY <1>5

-----------------------------------------------------------------------------
(* How the claims on a node add up.                                          *)
LEMMA NobodyClaims ==
  ASSUME NEW c, NEW n
  PROVE  Claimed(c, {}, n) = 0
<1>1. PICK g : IsTotal(g, c, {}, n) /\ Claimed(c, {}, n) = g[{}]
  BY FS_EmptySet, TotalExists, TotalIsSum
<1>2. QED
  BY <1>1 DEF IsTotal

LEMMA ClaimsOfMembers ==
  ASSUME NEW c, NEW d, NEW S, IsFiniteSet(S), NEW n,
         \A f \in S : c[f][n] \in Nat /\ c[f][n] = d[f][n]
  PROVE  Claimed(c, S, n) = Claimed(d, S, n) /\ Claimed(c, S, n) \in Nat
<1>1. PICK g : IsTotal(g, c, S, n) /\ Claimed(c, S, n) = g[S]
  BY TotalExists, TotalIsSum
<1>2. PICK h : IsTotal(h, d, S, n) /\ Claimed(d, S, n) = h[S]
  BY TotalExists, TotalIsSum
<1>3. S \subseteq S /\ S \in SUBSET S
  OBVIOUS
<1>4. IsTotal(g, c, S, n) /\ IsTotal(h, d, S, n)
  BY <1>1, <1>2
<1>5. \A s \in SUBSET S : g[s] = h[s] /\ g[s] \in Nat
  BY <1>3, <1>4, TotalsAgree
<1>6. QED
  BY <1>1, <1>2, <1>3, <1>5

LEMMA OneOfTheClaims ==
  ASSUME NEW c, NEW S, IsFiniteSet(S), NEW x \in S, NEW n, \A f \in S : c[f][n] \in Nat
  PROVE  Claimed(c, S, n) = c[x][n] + Claimed(c, S \ {x}, n)
<1> DEFINE rest == S \ {x}
<1>1. PICK h : IsTotal(h, c, S, n) /\ Claimed(c, S, n) = h[S]
  BY TotalExists, TotalIsSum
<1>2. IsFiniteSet(rest) /\ rest \subseteq S /\ \A f \in rest : c[f][n] \in Nat /\ c[f][n] = c[f][n]
  BY FS_Subset
<1>3. PICK g : IsTotal(g, c, rest, n) /\ Claimed(c, rest, n) = g[rest]
  BY <1>2, TotalExists, TotalIsSum
<1>4. S \in SUBSET S /\ rest \in SUBSET rest
  OBVIOUS
<1>5. h[S] = c[x][n] + h[rest]
  BY <1>1, <1>4, AnyMemberFirst
<1> HIDE DEF rest
<1>6. g[rest] = h[rest]
  BY <1>1, <1>2, <1>3, <1>4, TotalsAgree
<1>7. QED
  BY <1>1, <1>3, <1>5, <1>6 DEF rest
-----------------------------------------------------------------------------
(* The inductive invariant, in two parts.                                    *)

(* A decision that asks is one the author chose, not a converted one; and a  *)
(* converted one blocks.                                                     *)
Sound(d) ==
  /\ d.question => ~d.converted /\ d.disposition \in QUESTION_DISPOSITIONS
  /\ d.converted => d.disposition = "cannot_determine"

Validated ==
  {d \in [disposition : DISPOSITIONS, grounded : BOOLEAN, claims : Documents,
          proposal : SUBSET Topics, question : BOOLEAN, converted : BOOLEAN] : Sound(d)}

Entries == [finding : Findings, decision : Validated]

(* What is stored, and what is about to be, are sound decisions about        *)
(* findings; a question's row comes after its decision's.                    *)
RowsAreSound ==
  /\ round \in 1..Rounds
  /\ IsFiniteSet(raised)
  /\ raised \subseteq findings
  /\ findings \subseteq Findings
  /\ pending \in Seq(Entries)
  /\ \A i \in 1..Len(pending) : pending[i].finding \in findings
  /\ DOMAIN decisions \subseteq findings
  /\ \A f \in DOMAIN decisions : decisions[f] \in Validated
  /\ phase \in {"question", "proposal"} =>
       /\ pending # <<>>
       /\ Head(pending).finding \in DOMAIN decisions
       /\ decisions[Head(pending).finding] = Head(pending).decision
  /\ \A f \in questions : f \in DOMAIN decisions /\ decisions[f].question

InRound == {"disclose", "panel", "reconcile", "store", "question", "proposal", "summary"}

(* Every finding is decided, waits in pending, or is still to be answered.   *)
FindingsAreTracked ==
  /\ \A f \in findings : f.round \in 1..round
  /\ phase \in InRound =>
       /\ \A f \in findings : f.round < round => f \in DOMAIN decisions
       /\ \A f \in findings : f.round = round => f \in raised
  /\ phase \in {"store", "question", "proposal"} =>
       \A f \in raised : \/ f \in DOMAIN decisions
                         \/ \E i \in 1..Len(pending) : pending[i].finding = f
  /\ phase = "summary" => raised \subseteq DOMAIN decisions
  /\ phase = "gate" \/ Reviewed => findings \subseteq DOMAIN decisions
  /\ Reviewed => Blocked = {}

ReviewInv == RowsAreSound /\ FindingsAreTracked

-----------------------------------------------------------------------------
(* Lemmas about the operators of the model.                                  *)

(* The findings of one round with finitely many identities are finite. *)
LEMMA RoundIsFinite ==
  ASSUME NEW r, NEW keys \in SUBSET Keys
  PROVE  IsFiniteSet([round : {r}, key : keys])
<1> DEFINE fs == [round : {r}, key : keys]
           row == [k \in keys |-> [round |-> r, key |-> k]]
<1>1. IsFiniteSet(keys)
  BY KeysAssumption, FS_Subset
<1>2. row \in Surjection(keys, fs)
  <2>1. row \in [keys -> fs]
    OBVIOUS
  <2>2. ASSUME NEW f \in fs PROVE \E k \in keys : row[k] = f
    OBVIOUS
  <2>3. QED
    BY <2>1, <2>2 DEF Surjection
<1>3. QED
  BY <1>1, <1>2, FS_Surjection

(* Both actions that record findings record identities the model knows.      *)
LEMMA SomeKeysAreRecorded ==
  ASSUME Disclose \/ Report
  PROVE  \E keys \in SUBSET Keys : Record(keys)
<1>1. CASE Disclose
  <2>1. Disclosed \in SUBSET Keys
    BY DisclosuresAssumption DEF Disclosed
  <2>2. QED
    BY <1>1, <2>1 DEF Disclose
<1>2. CASE Report
  BY <1>2 DEF Report, ReviewerReports
<1>3. QED
  BY <1>1, <1>2

(* A function on the first n numbers is a sequence of n elements. *)
LEMMA FunctionIsSequence ==
  ASSUME NEW S, NEW n \in Nat, NEW s \in [1..n -> S]
  PROVE  s \in Seq(S) /\ Len(s) = n
  OBVIOUS

(* Validation turns what an author may say into sound decisions: converting  *)
(* drops the question, and only a chosen blocking disposition has one.       *)
LEMMA ValidationIsSound ==
  ASSUME NEW n \in Nat, NEW answer \in [1..n -> Decisions(AsksQuestions)], NEW before, NEW after,
         NEW i \in 1..n
  PROVE  ValidateReconciliation(answer, before, after).decisions[i] \in Validated
<1> DEFINE ds == [j \in DOMAIN answer |-> Grounded(answer[j])]
<1>1. NoClaims \in Documents
  BY CopiesAssumption DEF NoClaims, Documents
<1>2. ASSUME NEW d \in Decisions(AsksQuestions) PROVE d \in Validated /\ Convert(d) \in Validated
  BY <1>1, <1>2 DEF Decisions, AsksWhenRequired, Validated, Sound, Convert, DISPOSITIONS
<1>3. ASSUME NEW d \in Decisions(AsksQuestions) PROVE Convert(Convert(d)) \in Validated
  BY <1>1, <1>3 DEF Decisions, AsksWhenRequired, Validated, Sound, Convert, DISPOSITIONS
<1>4. answer[i] \in Decisions(AsksQuestions) /\ i \in DOMAIN answer
  OBVIOUS
<1>5. ds[i] \in Validated /\ Convert(ds[i]) \in Validated
  BY <1>2, <1>3, <1>4 DEF Grounded
<1>6. ValidateReconciliation(answer, before, after).decisions[i] \in {ds[i], Convert(ds[i])}
  BY <1>4 DEF ValidateReconciliation
<1>7. QED
  BY <1>5, <1>6
-----------------------------------------------------------------------------
(* What validateReconciliation counts.                                       *)
Counts == [added : [Nodes -> Nat], removed : [Nodes -> Nat]]

(* The second pass is a sequence of steps, one for each decision.            *)
LEMMA ClaimableSteps ==
  ASSUME NEW k \in Nat, NEW ds, Len(ds) = k, NEW before, NEW after
  PROVE  LET left == Claimable(ds, before, after)
         IN  /\ left[0] = [added |-> AddedNodes(before, after), removed |-> RemovedNodes(before, after)]
             /\ \A i \in 1..k : left[i] = Consume(ds[i], left[i - 1])
<1> DEFINE start == [added |-> AddedNodes(before, after), removed |-> RemovedNodes(before, after)]
           Is(f, m) == f = [i \in 0..m |-> IF i = 0 THEN start ELSE Consume(ds[i], f[i - 1])]
           P == {m \in Nat : \E f : Is(f, m)}
<1> HIDE DEF start
<1>1. 0 \in P
  <2> DEFINE f == [i \in 0..0 |-> start]
  <2>1. f = [i \in 0..0 |-> IF i = 0 THEN start ELSE Consume(ds[i], f[i - 1])]
    OBVIOUS
  <2> HIDE DEF f
  <2>2. QED
    BY <2>1
<1>2. ASSUME NEW m \in P PROVE m + 1 \in P
  <2>1. PICK f : Is(f, m)
    OBVIOUS
  <2> DEFINE last == Consume(ds[m + 1], f[m])
             g == [i \in 0..(m + 1) |-> IF i = m + 1 THEN last ELSE f[i]]
  <2>2. ASSUME NEW i \in 0..(m + 1)
        PROVE  g[i] = IF i = 0 THEN start ELSE Consume(ds[i], g[i - 1])
    <3>1. CASE i = m + 1
      <4>1. i # 0 /\ i - 1 \in 0..(m + 1) /\ i - 1 # m + 1 /\ i - 1 = m
        BY <3>1
      <4>2. g[i] = last /\ g[i - 1] = f[m]
        BY <3>1, <4>1
      <4>3. QED
        BY <3>1, <4>1, <4>2
    <3>2. CASE i # m + 1
      <4>1. i \in 0..m /\ g[i] = f[i]
        BY <3>2
      <4>2. f[i] = IF i = 0 THEN start ELSE Consume(ds[i], f[i - 1])
        BY <2>1, <4>1
      <4>3. i # 0 => i - 1 \in 0..(m + 1) /\ i - 1 # m + 1
        BY <3>2
      <4>4. i # 0 => g[i - 1] = f[i - 1]
        BY <4>3
      <4>5. QED
        BY <4>1, <4>2, <4>4
    <3>3. QED
      BY <3>1, <3>2
  <2>3. g = [i \in 0..(m + 1) |-> g[i]]
    OBVIOUS
  <2> HIDE DEF g
  <2>4. Is(g, m + 1)
    BY <2>2, <2>3, Zenon
  <2> HIDE DEF Is
  <2>5. m + 1 \in Nat /\ \E h : Is(h, m + 1)
    BY <2>4
  <2>6. QED
    BY <2>5
<1>3. P = Nat
  <2> HIDE DEF P
  <2>1. P \in SUBSET Nat
    BY DEF P
  <2>2. QED
    BY <1>1, <1>2, <2>1, NumbersAreReached
<1> DEFINE left == CHOOSE f : Is(f, k)
<1>4. Is(left, k)
  <2>1. \E f : Is(f, k)
    BY <1>3
  <2>2. QED
    BY <2>1
<1>5. left = Claimable(ds, before, after)
  BY DEF Claimable, start
<1> HIDE DEF left
<1>6. left[0] = start /\ \A i \in 1..k : left[i] = Consume(ds[i], left[i - 1])
  BY <1>4
<1>7. QED
  BY <1>5, <1>6 DEF start

(* A decision spends what it claims, or nothing.                             *)
LEMMA ConsumeSpends ==
  ASSUME NEW d, d.claims \in Documents, NEW left \in Counts
  PROVE  /\ Consume(d, left) \in Counts
         /\ \A n \in Nodes :
              Consume(d, left).added[n] + Consume(d, left).removed[n] +
                (IF Fits(d, left) THEN d.claims[n] ELSE 0) = left.added[n] + left.removed[n]
<1>1. \A n \in Nodes : d.claims[n] \in Nat /\ left.added[n] \in Nat /\ left.removed[n] \in Nat
  BY CopiesAssumption DEF Documents, Counts
<1>2. CASE ~Fits(d, left)
  BY <1>1, <1>2 DEF Consume, Counts
<1>3. CASE Fits(d, left)
  <2> DEFINE a == [n \in Nodes |-> IF d.claims[n] > left.added[n] THEN 0
                                   ELSE left.added[n] - d.claims[n]]
             r == [n \in Nodes |-> IF d.claims[n] > left.added[n]
                                   THEN left.removed[n] - (d.claims[n] - left.added[n])
                                   ELSE left.removed[n]]
  <2>1. Consume(d, left) = [added |-> a, removed |-> r]
    BY <1>3 DEF Consume
  <2>2. ASSUME NEW n \in Nodes
        PROVE  a[n] \in Nat /\ r[n] \in Nat /\ a[n] + r[n] + d.claims[n] = left.added[n] + left.removed[n]
    <3>1. d.claims[n] <= left.added[n] + left.removed[n]
      BY <1>3 DEF Fits
    <3>2. QED
      BY <1>1, <3>1
  <2>3. a = [n \in Nodes |-> a[n]] /\ r = [n \in Nodes |-> r[n]]
    OBVIOUS
  <2> HIDE DEF a, r
  <2>4. a \in [Nodes -> Nat] /\ r \in [Nodes -> Nat]
    BY <2>2, <2>3
  <2>5. QED
    BY <1>3, <2>1, <2>2, <2>4 DEF Counts
<1>4. QED
  BY <1>2, <1>3

Owned(before, after, claims, fs) ==
  \A n \in Nodes : Changed(before, after, n) = Claimed(claims, fs, n)

(* An answer that validation accepts: every finding of T has one decision,   *)
(* and no changed node is left without an owner.                             *)
Accepted(k, answer, before, after, T, ids, claims) ==
  LET v == ValidateReconciliation(answer, before, after)
  IN  /\ k \in Nat /\ answer \in [1..k -> Decisions(AsksQuestions)]
      /\ before \in Documents /\ after \in Documents
      /\ IsFiniteSet(T) /\ ids \in [1..k -> T] /\ AnswersAll(ids, T)
      /\ \A i \in 1..k : claims[ids[i]] = v.decisions[i].claims
      /\ v.unclaimedNodes = {} /\ v.unclaimedRemovals = {}

(* When nothing is left unclaimed, the claims of the decisions add up to     *)
(* what changed of each node.                                                *)
LEMMA AcceptedOwns ==
  ASSUME NEW k, NEW answer, NEW before, NEW after, NEW T, NEW ids, NEW claims,
         Accepted(k, answer, before, after, T, ids, claims)
  PROVE  Owned(before, after, claims, T)
<1> SUFFICES ASSUME k \in Nat, answer \in [1..k -> Decisions(AsksQuestions)],
                    before \in Documents, after \in Documents,
                    IsFiniteSet(T), ids \in [1..k -> T], AnswersAll(ids, T),
                    \A i \in 1..k : claims[ids[i]] =
                      ValidateReconciliation(answer, before, after).decisions[i].claims,
                    ValidateReconciliation(answer, before, after).unclaimedNodes = {},
                    ValidateReconciliation(answer, before, after).unclaimedRemovals = {}
             PROVE  \A n \in Nodes : Changed(before, after, n) = Claimed(claims, T, n)
  BY DEF Accepted, Owned
<1> DEFINE ds == [i \in DOMAIN answer |-> Grounded(answer[i])]
           left == Claimable(ds, before, after)
           upto(i) == {ids[j] : j \in 1..i}
           v == ValidateReconciliation(answer, before, after)
<1>1. DOMAIN answer = 1..k /\ ds \in [1..k -> {Grounded(d) : d \in Decisions(AsksQuestions)}]
  OBVIOUS
<1>2. Len(ds) = k
  BY <1>1, FunctionIsSequence
<1>3. /\ left[0] = [added |-> AddedNodes(before, after), removed |-> RemovedNodes(before, after)]
      /\ \A i \in 1..k : left[i] = Consume(ds[i], left[i - 1])
  <2> HIDE DEF ds
  <2>1. QED
    BY <1>2, ClaimableSteps
<1>4. ASSUME NEW i \in 1..k
      PROVE  v.decisions[i] = IF Fits(ds[i], left[i - 1]) THEN ds[i] ELSE Convert(ds[i])
  BY <1>1 DEF ValidateReconciliation
<1>5. v.unclaimedNodes = {n \in Nodes : left[k].added[n] > 0}
      /\ v.unclaimedRemovals = {n \in Nodes : left[k].removed[n] > 0}
  BY <1>2 DEF ValidateReconciliation
<1>6. ASSUME NEW i \in 1..k
      PROVE  /\ ds[i].claims \in Documents
             /\ \A n \in Nodes : claims[ids[i]][n] = IF Fits(ds[i], left[i - 1]) THEN ds[i].claims[n] ELSE 0
  <2>1. NoClaims \in Documents
    BY CopiesAssumption DEF NoClaims, Documents
  <2>2. answer[i] \in Decisions(AsksQuestions) /\ ds[i] = Grounded(answer[i])
    BY <1>1
  <2> HIDE DEF ds
  <2>3. \A d \in Decisions(AsksQuestions) :
          d.claims \in Documents /\ Convert(d).claims = NoClaims /\ Convert(Convert(d)).claims = NoClaims
    BY DEF Decisions, Convert
  <2>4. ds[i].claims \in Documents /\ Convert(ds[i]).claims = NoClaims
    BY <2>1, <2>2, <2>3 DEF Grounded
  <2>5. claims[ids[i]] = IF Fits(ds[i], left[i - 1]) THEN ds[i].claims ELSE NoClaims
    BY <1>4, <2>4
  <2> HIDE DEF left
  <2>6. QED
    BY <2>4, <2>5 DEF NoClaims
<1> HIDE DEF ds, left, v
<1>7. \A i \in 1..k : ids[i] \in T /\ \A n \in Nodes : claims[ids[i]][n] \in Nat
  <2>1. \A e \in Documents, n \in Nodes : e[n] \in Nat
    BY CopiesAssumption DEF Documents
  <2>2. \A i \in 1..k, n \in Nodes : claims[ids[i]][n] = ds[i].claims[n] \/ claims[ids[i]][n] = 0
    BY <1>6
  <2>3. \A i \in 1..k : ids[i] \in T
    OBVIOUS
  <2>4. QED
    BY <1>6, <2>1, <2>2, <2>3
<1>8. \A i \in 0..k : /\ IsFiniteSet(upto(i)) /\ \A f \in upto(i), n \in Nodes : claims[f][n] \in Nat
                      /\ \A n \in Nodes : Claimed(claims, upto(i), n) \in Nat
  <2> SUFFICES ASSUME NEW i \in 0..k
               PROVE  /\ IsFiniteSet(upto(i)) /\ \A f \in upto(i), n \in Nodes : claims[f][n] \in Nat
                      /\ \A n \in Nodes : Claimed(claims, upto(i), n) \in Nat
    OBVIOUS
  <2>1. \A f \in upto(i) : f \in T /\ \A n \in Nodes : claims[f][n] \in Nat
    BY <1>7
  <2>2. IsFiniteSet(upto(i))
    BY <2>1, FS_Subset
  <2> HIDE DEF upto
  <2>3. QED
    BY <2>1, <2>2, ClaimsOfMembers
<1> DEFINE Q == {i \in Nat : i <= k =>
                   /\ left[i] \in Counts
                   /\ \A n \in Nodes : Changed(before, after, n) =
                        left[i].added[n] + left[i].removed[n] + Claimed(claims, upto(i), n)}
<1>9. 0 \in Q
  <2>1. upto(0) = {}
    OBVIOUS
  <2>2. \A n \in Nodes : Claimed(claims, upto(0), n) = 0
    BY <2>1, NobodyClaims
  <2>3. \A n \in Nodes : before[n] \in Nat /\ after[n] \in Nat
    BY CopiesAssumption DEF Documents
  <2>4. AddedNodes(before, after) \in [Nodes -> Nat] /\ RemovedNodes(before, after) \in [Nodes -> Nat]
    BY <2>3 DEF AddedNodes, RemovedNodes
  <2>5. left[0] \in Counts
    BY <1>3, <2>4 DEF Counts
  <2>6. \A n \in Nodes : Changed(before, after, n) = left[0].added[n] + left[0].removed[n] + 0
    BY <1>3, <2>4 DEF Changed
  <2>7. QED
    BY <2>2, <2>5, <2>6
<1>10. ASSUME NEW i \in Q PROVE i + 1 \in Q
  <2> SUFFICES ASSUME i + 1 <= k
               PROVE  /\ left[i + 1] \in Counts
                      /\ \A n \in Nodes : Changed(before, after, n) =
                           left[i + 1].added[n] + left[i + 1].removed[n] + Claimed(claims, upto(i + 1), n)
    OBVIOUS
  <2>1. /\ i \in Nat /\ i + 1 \in 1..k /\ (i + 1) - 1 = i /\ i \in 0..k /\ i + 1 \in 0..k
        /\ left[i] \in Counts
        /\ \A n \in Nodes : Changed(before, after, n) =
             left[i].added[n] + left[i].removed[n] + Claimed(claims, upto(i), n)
    OBVIOUS
  <2>2. left[i + 1] = Consume(ds[i + 1], left[i])
    BY <1>3, <2>1
  <2>3. left[i + 1] \in Counts /\ \A n \in Nodes :
          left[i + 1].added[n] + left[i + 1].removed[n] +
            (IF Fits(ds[i + 1], left[i]) THEN ds[i + 1].claims[n] ELSE 0) = left[i].added[n] + left[i].removed[n]
    BY <1>6, <2>1, <2>2, ConsumeSpends
  <2>4. \A n \in Nodes : left[i + 1].added[n] + left[i + 1].removed[n] + claims[ids[i + 1]][n] =
                           left[i].added[n] + left[i].removed[n]
    BY <1>6, <2>1, <2>3
  <2>5. ids[i + 1] \in upto(i + 1) /\ upto(i + 1) \ {ids[i + 1]} = upto(i)
    <3>1. \A j \in 1..(i + 1) : j \in 1..i \/ j = i + 1
      BY <2>1
    <3>2. \A j \in 1..i : j \in 1..(i + 1) /\ ids[j] # ids[i + 1]
      BY <2>1 DEF AnswersAll
    <3>3. \A f \in upto(i + 1) : f = ids[i + 1] \/ f \in upto(i)
      BY <3>1
    <3>4. \A f \in upto(i) : f \in upto(i + 1) /\ f # ids[i + 1]
      BY <3>2
    <3>5. ids[i + 1] \in upto(i + 1)
      BY <2>1
    <3> HIDE DEF upto
    <3>6. QED
      BY <3>3, <3>4, <3>5
  <2>6. \A n \in Nodes : Claimed(claims, upto(i + 1), n) = claims[ids[i + 1]][n] + Claimed(claims, upto(i), n)
    <3> HIDE DEF upto
    <3>1. ASSUME NEW n \in Nodes
          PROVE  Claimed(claims, upto(i + 1), n) =
                   claims[ids[i + 1]][n] + Claimed(claims, upto(i + 1) \ {ids[i + 1]}, n)
      <4> DEFINE U == upto(i + 1)
                 x == ids[i + 1]
      <4>1. IsFiniteSet(U) /\ x \in U /\ \A f \in U : claims[f][n] \in Nat
        BY <1>8, <2>1, <2>5
      <4> HIDE DEF U, x
      <4>2. Claimed(claims, U, n) = claims[x][n] + Claimed(claims, U \ {x}, n)
        BY <4>1, OneOfTheClaims
      <4>3. QED
        BY <4>2 DEF U, x
    <3>2. QED
      BY <2>5, <3>1
  <2> HIDE DEF upto
  <2>7. ASSUME NEW n \in Nodes
        PROVE  Changed(before, after, n) =
                 left[i + 1].added[n] + left[i + 1].removed[n] + Claimed(claims, upto(i + 1), n)
    <3> DEFINE a == left[i].added[n]
               b == left[i].removed[n]
               c == left[i + 1].added[n]
               d == left[i + 1].removed[n]
               e == claims[ids[i + 1]][n]
               f == Claimed(claims, upto(i), n)
    <3>1. a \in Nat /\ b \in Nat /\ c \in Nat /\ d \in Nat /\ e \in Nat /\ f \in Nat
      BY <1>7, <1>8, <2>1, <2>3 DEF Counts
    <3>2. Changed(before, after, n) = a + b + f /\ c + d + e = a + b
      BY <2>1, <2>4
    <3>3. Changed(before, after, n) =
            left[i + 1].added[n] + left[i + 1].removed[n] + (claims[ids[i + 1]][n] + Claimed(claims, upto(i), n))
      <4> HIDE DEF a, b, c, d, e, f
      <4>1. Changed(before, after, n) = c + d + (e + f)
        BY <3>1, <3>2
      <4>2. QED
        BY <4>1 DEF c, d, e, f
    <3>4. QED
      BY <2>6, <3>3
  <2>8. QED
    BY <2>3, <2>7
<1>11. Q = Nat
  <2> HIDE DEF Q
  <2>1. Q \in SUBSET Nat
    BY DEF Q
  <2>2. QED
    BY <1>9, <1>10, <2>1, NumbersAreReached
<1>12. /\ left[k] \in Counts
       /\ \A n \in Nodes : Changed(before, after, n) =
            left[k].added[n] + left[k].removed[n] + Claimed(claims, upto(k), n)
  <2>1. k \in Q /\ k <= k
    BY <1>11
  <2>2. QED
    BY <2>1
<1>13. upto(k) = T
  BY DEF AnswersAll
<1>14. ASSUME NEW n \in Nodes PROVE left[k].added[n] = 0 /\ left[k].removed[n] = 0
  BY <1>5, <1>12 DEF Counts, v
<1>15. ASSUME NEW n \in Nodes PROVE Claimed(claims, T, n) \in Nat
  BY <1>8, <1>13
<1>16. QED
  BY <1>12, <1>13, <1>14, <1>15

-----------------------------------------------------------------------------
(* Rows are sound: one step per action that touches rows or pending.         *)
LEMMA SoundInit == Init => RowsAreSound
  BY FS_EmptySet, RoundsAssumption DEF Init, RowsAreSound

LEMMA SoundStep == RowsAreSound /\ [Next]_vars => RowsAreSound'
<1> SUFFICES ASSUME RowsAreSound, [Next]_vars PROVE RowsAreSound'
  OBVIOUS
<1> USE DEF RowsAreSound, control, document, rows, operator
<1>1. ASSUME NEW keys \in SUBSET Keys, Record(keys)
      PROVE  /\ IsFiniteSet(raised') /\ raised' \subseteq findings'
             /\ findings \subseteq findings' /\ findings' \subseteq Findings
  BY <1>1, RoundIsFinite, FS_Union DEF Record, Findings
<1>2. CASE Disclose \/ Report
  <2>1. PICK keys \in SUBSET Keys : Record(keys)
    BY <1>2, SomeKeysAreRecorded
  <2>2. /\ UNCHANGED <<round, pending, decisions, questions>>
        /\ phase' \in {"panel", "reconcile"}
    BY <1>2 DEF Disclose, Report
  <2>3. QED
    BY <1>1, <2>1, <2>2
<1>3. CASE Reconcile
  <2>. PICK after \in Documents, ids \in [1..Cardinality(raised) -> raised] :
         \E answer \in [DOMAIN ids -> Decisions(AsksQuestions)] :
           pending' = [i \in DOMAIN ids |->
             [finding |-> ids[i],
              decision |-> ValidateReconciliation(answer, Current, after).decisions[i]]]
    BY <1>3 DEF Reconcile
  <2>1. PICK answer \in [1..Cardinality(raised) -> Decisions(AsksQuestions)] :
          pending' = [i \in DOMAIN ids |->
            [finding |-> ids[i],
             decision |-> ValidateReconciliation(answer, Current, after).decisions[i]]]
    OBVIOUS
  <2>2. Cardinality(raised) \in Nat
    BY FS_CardinalityType
  <2>3. ASSUME NEW i \in DOMAIN ids
        PROVE  ValidateReconciliation(answer, Current, after).decisions[i] \in Validated
    BY <2>1, <2>2, ValidationIsSound
  <2>4. ASSUME NEW i \in DOMAIN ids PROVE ids[i] \in findings /\ ids[i] \in Findings
    BY <2>1
  <2>5. pending' \in [1..Cardinality(raised) -> Entries]
    BY <2>1, <2>3, <2>4 DEF Entries
  <2>6. pending' \in Seq(Entries) /\ Len(pending') = Cardinality(raised)
    BY <2>2, <2>5, FunctionIsSequence
  <2>7. \A i \in 1..Len(pending') : pending'[i].finding \in findings
    BY <2>1, <2>4, <2>6
  <2>8. /\ phase' = "store"
        /\ UNCHANGED <<round, raised, findings, decisions, questions>>
    BY <1>3 DEF Reconcile
  <2>9. QED
    BY <2>6, <2>7, <2>8
<1>4. CASE StoreDecision
  <2>1. /\ pending # <<>> /\ Head(pending).finding \notin DOMAIN decisions
        /\ phase' = "question"
        /\ UNCHANGED <<round, raised, pending, findings, questions>>
    BY <1>4 DEF StoreDecision
  <2>2. /\ Head(pending).finding \in findings
        /\ Head(pending).decision \in Validated
    <3>1. Head(pending) = pending[1] /\ 1 \in 1..Len(pending)
      BY <2>1
    <3>2. pending[1] \in Entries
      BY <3>1
    <3>3. QED
      BY <3>1, <3>2 DEF Entries
  <2>3. DOMAIN decisions' = DOMAIN decisions \cup {Head(pending).finding}
    BY <1>4 DEF StoreDecision
  <2>4. /\ decisions'[Head(pending).finding] = Head(pending).decision
        /\ \A f \in DOMAIN decisions : decisions'[f] = decisions[f]
    BY <1>4, <2>1 DEF StoreDecision
  <2>5. QED
    BY <2>1, <2>2, <2>3, <2>4
<1>5. CASE StoreQuestion
  BY <1>5 DEF StoreQuestion
<1>6. CASE StoreProposal
  <2>1. /\ Tail(pending) \in Seq(Entries)
        /\ \A i \in 1..Len(Tail(pending)) : Tail(pending)[i].finding \in findings
    BY <1>6 DEF StoreProposal
  <2>2. phase' \notin {"question", "proposal"}
    BY <1>6 DEF StoreProposal
  <2>3. /\ pending' = Tail(pending)
        /\ UNCHANGED <<round, raised, findings, decisions, questions>>
    BY <1>6 DEF StoreProposal
  <2>4. QED
    BY <2>1, <2>2, <2>3
<1>7. CASE Summarize
  BY <1>7, FS_EmptySet, RoundsAssumption DEF Summarize
<1>8. CASE PassGate \/ BlockGate \/ AnswerQuestion \/ StartFold \/ PassDenied \/ FoldAnswers
  <2>1. /\ phase' \notin {"question", "proposal"}
        /\ UNCHANGED <<round, raised, pending, findings, decisions, questions>>
    BY <1>8 DEF PassGate, BlockGate, AnswerQuestion, StartFold, PassDenied, FoldAnswers
  <2>2. QED
    BY <2>1
<1>9. CASE Abort \/ Die
  <2>1. /\ phase' \notin {"question", "proposal"}
        /\ UNCHANGED <<round, findings, decisions, questions>>
        /\ UNCHANGED raised \/ raised' = {}
        /\ UNCHANGED pending \/ pending' = <<>>
    BY <1>9 DEF Abort, Die
  <2>2. IsFiniteSet(raised') /\ raised' \subseteq findings'
    BY <2>1, FS_EmptySet
  <2>3. pending' \in Seq(Entries) /\ \A i \in 1..Len(pending') : pending'[i].finding \in findings'
    <3>1. CASE UNCHANGED pending
      BY <2>1, <3>1
    <3>2. CASE pending' = <<>>
      <4>1. <<>> \in Seq(Entries) /\ Len(<<>>) = 0
        OBVIOUS
      <4>2. QED
        BY <3>2, <4>1
    <3>3. QED
      BY <2>1, <3>1, <3>2
  <2>4. QED
    BY <2>1, <2>2, <2>3
<1>10. CASE UNCHANGED vars
  BY <1>10 DEF vars
<1>11. QED
  BY <1>2, <1>3, <1>4, <1>5, <1>6, <1>7, <1>8, <1>9, <1>10 DEF Next

-----------------------------------------------------------------------------
(* Findings are tracked, using that rows are sound before and after.         *)
LEMMA TrackedInit == Init => FindingsAreTracked
  BY DEF Init, FindingsAreTracked, InRound, Reviewed

LEMMA TrackedStep ==
  RowsAreSound /\ RowsAreSound' /\ FindingsAreTracked /\ [Next]_vars => FindingsAreTracked'
<1> SUFFICES ASSUME RowsAreSound, RowsAreSound', FindingsAreTracked, [Next]_vars
             PROVE  FindingsAreTracked'
  OBVIOUS
<1> USE DEF FindingsAreTracked, InRound, Reviewed, control, document, rows, operator
<1>1. round \in 1..Rounds /\ round \in Nat
  BY RoundsAssumption DEF RowsAreSound
<1>2. CASE Disclose \/ Report
  <2>1. PICK keys \in SUBSET Keys : Record(keys)
    BY <1>2, SomeKeysAreRecorded
  <2>2. /\ UNCHANGED <<round, decisions>>
        /\ phase \in InRound /\ phase' \in {"panel", "reconcile"}
    BY <1>2 DEF Disclose, Report
  <2>3. ASSUME NEW f \in findings'
        PROVE  f \in findings \/ (f.round = round /\ f \in raised')
    BY <2>1 DEF Record
  <2>4. raised \subseteq raised'
    BY <2>1 DEF Record
  <2>5. QED
    BY <1>1, <2>2, <2>3, <2>4
<1>3. CASE Reconcile
  \* every finding of the round has a place in the answer
  <2>1. PICK after \in Documents, ids \in [1..Cardinality(raised) -> raised],
             answer \in [1..Cardinality(raised) -> Decisions(AsksQuestions)] :
          /\ AnswersAll(ids, raised)
          /\ pending' = [i \in DOMAIN ids |->
              [finding |-> ids[i],
               decision |-> ValidateReconciliation(answer, Current, after).decisions[i]]]
    BY <1>3 DEF Reconcile
  <2>2. Cardinality(raised) \in Nat
    BY FS_CardinalityType DEF RowsAreSound
  <2>3. Len(pending') = Cardinality(raised)
    BY <2>1, <2>2
  <2>4. ASSUME NEW f \in raised PROVE \E i \in 1..Len(pending') : pending'[i].finding = f
    BY <2>1, <2>3 DEF AnswersAll
  <2>5. QED
    BY <1>3, <2>4 DEF Reconcile
<1>4. CASE StoreDecision
  <2>1. /\ DOMAIN decisions \subseteq DOMAIN decisions'
        /\ UNCHANGED <<round, raised, pending, findings>>
        /\ phase \in InRound /\ phase = "store" /\ phase' = "question"
    BY <1>4 DEF StoreDecision
  <2>2. QED
    BY <2>1
<1>5. CASE StoreQuestion
  BY <1>5 DEF StoreQuestion
<1>6. CASE StoreProposal
  \* the entry that leaves pending is the one just decided
  <2>1. /\ phase = "proposal" /\ pending' = Tail(pending)
        /\ UNCHANGED <<round, raised, findings, decisions>>
        /\ phase' = IF Len(pending) = 1 THEN "summary" ELSE "store"
    BY <1>6 DEF StoreProposal
  <2>2. /\ pending # <<>> /\ pending \in Seq(Entries)
        /\ pending[1].finding \in DOMAIN decisions
    BY <2>1 DEF RowsAreSound
  <2>3. ASSUME NEW i \in 2..Len(pending)
        PROVE  i - 1 \in 1..Len(Tail(pending)) /\ Tail(pending)[i - 1] = pending[i]
    BY <2>2
  <2>4. ASSUME NEW f \in raised, f \notin DOMAIN decisions
        PROVE  \E i \in 2..Len(pending) : pending[i].finding = f
    <3>1. PICK i \in 1..Len(pending) : pending[i].finding = f
      BY <2>1, <2>4
    <3>2. i # 1
      BY <2>2, <2>4, <3>1
    <3>3. QED
      BY <2>2, <3>1, <3>2
  <2>5. \A f \in raised : \/ f \in DOMAIN decisions
                          \/ \E i \in 1..Len(Tail(pending)) : Tail(pending)[i].finding = f
    BY <2>3, <2>4
  <2>6. Len(pending) = 1 => raised \subseteq DOMAIN decisions
    BY <2>4
  <2>7. QED
    BY <2>1, <2>5, <2>6
<1>7. CASE Summarize
  \* with nothing pending every finding of the round is decided
  <2>1. raised \subseteq DOMAIN decisions
    BY <1>7 DEF Summarize
  <2>2. findings \subseteq DOMAIN decisions
    BY <1>1, <1>7, <2>1 DEF Summarize
  <2>3. /\ round' = IF round = Rounds THEN round ELSE round + 1
        /\ phase' = IF round = Rounds THEN "gate" ELSE "panel"
        /\ UNCHANGED <<findings, decisions>>
    BY <1>7 DEF Summarize
  <2>4. CASE round = Rounds
    BY <1>1, <2>2, <2>3, <2>4
  <2>5. CASE round # Rounds
    BY <1>1, <2>2, <2>3, <2>5
  <2>6. QED
    BY <2>4, <2>5
<1>8. CASE PassGate \/ BlockGate
  BY <1>8 DEF PassGate, BlockGate, Blocked
<1>9. CASE AnswerQuestion \/ StartFold \/ PassDenied \/ FoldAnswers
  BY <1>9 DEF AnswerQuestion, StartFold, PassDenied, FoldAnswers, Blocked
<1>10. CASE Abort \/ Die
  BY <1>10 DEF Abort, Die
<1>11. CASE UNCHANGED vars
  BY <1>11 DEF vars, Blocked
<1>12. QED
  BY <1>2, <1>3, <1>4, <1>5, <1>6, <1>7, <1>8, <1>9, <1>10, <1>11 DEF Next

LEMMA ReviewInvHolds == Spec => []ReviewInv
<1>1. Init => ReviewInv
  BY SoundInit, TrackedInit DEF ReviewInv
<1>2. ReviewInv /\ [Next]_vars => ReviewInv'
  BY SoundStep, TrackedStep DEF ReviewInv
<1>3. QED
  BY <1>1, <1>2, PTL DEF Spec

-----------------------------------------------------------------------------
(* The documents of a review and the operator's rows, in place.              *)
BeforeAnswer == {"disclose", "panel", "reconcile"}
AfterAnswer == {"store", "question", "proposal", "summary"}

DocumentsInPlace ==
  /\ phase \in Phases
  /\ seat \in 0..Seats
  /\ phase \in {"disclose", "panel"} => seat < Seats
  /\ revisions \in Seq(Documents)
  /\ phase \in BeforeAnswer => Len(revisions) = round
  /\ phase \in AfterAnswer => Len(revisions) = round + 1
  /\ phase \in {"gate", "asking", "fold"} => Len(revisions) = Rounds + 1
  /\ phase = "passed" => Len(revisions) >= Rounds + 1
  /\ phase \in {"gate"} => round = Rounds
  /\ open \in [Disclosures -> Texts]
  /\ DOMAIN answers \subseteq questions
  /\ phase \in {"fold", "passed"} => DOMAIN answers = questions
  /\ DOMAIN folded \subseteq DOMAIN answers
  /\ phase \notin {"passed"} => DOMAIN folded = {}

LEMMA DocumentsInit == Init => DocumentsInPlace
<1> SUFFICES ASSUME Init PROVE DocumentsInPlace
  OBVIOUS
<1>1. PICK d \in Documents : revisions = <<d>>
  BY DEF Init
<1>2. revisions \in Seq(Documents) /\ Len(revisions) = 1
  BY <1>1
<1>3. open \in [Disclosures -> Texts]
  BY DEF Init, Texts
<1>4. seat = 0 /\ round = 1 /\ phase = "disclose" /\ DOMAIN answers = {} /\ DOMAIN folded = {}
  BY DEF Init
<1>5. QED
  BY <1>2, <1>3, <1>4, SeatsAssumption
     DEF DocumentsInPlace, Phases, BeforeAnswer, AfterAnswer

LEMMA OneMoreRevision ==
  ASSUME NEW after \in Documents, revisions \in Seq(Documents), revisions' = Append(revisions, after)
  PROVE  /\ revisions' \in Seq(Documents) /\ Len(revisions') = Len(revisions) + 1
         /\ revisions'[Len(revisions) + 1] = after
         /\ \A i \in 1..Len(revisions) : revisions'[i] = revisions[i]
  OBVIOUS

LEMMA DocumentsStep ==
  ASSUME RowsAreSound, DocumentsInPlace, [Next]_vars
  PROVE  DocumentsInPlace'
<1> USE DEF DocumentsInPlace, Phases, BeforeAnswer, AfterAnswer
<1>0. round \in Nat /\ round \in 1..Rounds /\ Rounds \in Nat /\ Seats \in Nat \ {0} /\ Len(revisions) \in Nat
  BY RoundsAssumption, SeatsAssumption DEF RowsAreSound
<1>1. CASE Disclose \/ Report
  <2>1. /\ UNCHANGED <<round, document, questions, operator>>
        /\ phase \in {"disclose", "panel"} /\ phase' \in {"panel", "reconcile"}
        /\ seat' \in 0..Seats /\ (phase' = "panel" => seat' < Seats)
    BY <1>0, <1>1 DEF Disclose, Report
  <2>2. QED
    BY <2>1 DEF document, operator
<1>2. CASE Reconcile
  <2>1. PICK after \in Documents, p \in Revised(open) : revisions' = Append(revisions, after) /\ open' = p
    BY <1>2 DEF Reconcile
  <2>2. /\ phase = "reconcile" /\ phase' = "store"
        /\ UNCHANGED <<round, seat, questions, answers, folded>>
    BY <1>2 DEF Reconcile, rows, operator
  <2>3. open' \in [Disclosures -> Texts]
    BY <2>1 DEF Revised
  <2>4. revisions' \in Seq(Documents) /\ Len(revisions') = Len(revisions) + 1
    BY <2>1, OneMoreRevision
  <2>5. QED
    BY <2>2, <2>3, <2>4
<1>3. CASE StoreDecision \/ StoreQuestion \/ StoreProposal
  <2>1. /\ UNCHANGED <<round, seat, document, operator>>
        /\ questions \subseteq questions'
        /\ phase \in AfterAnswer /\ phase' \in AfterAnswer
    BY <1>3 DEF StoreDecision, StoreQuestion, StoreProposal
  <2>2. QED
    BY <2>1 DEF document, operator
<1>4. CASE Summarize
  BY <1>0, <1>4 DEF Summarize, document, rows, operator
<1>5. CASE PassGate \/ BlockGate \/ StartFold \/ PassDenied \/ Abort
  <2>1. UNCHANGED <<round, seat, revisions, open, questions, answers, folded>>
    BY <1>5 DEF PassGate, BlockGate, StartFold, PassDenied, Abort, document, rows, operator
  <2>2. \/ phase = "gate" /\ phase' = "passed" /\ questions = {}
        \/ phase = "gate" /\ phase' = "asking"
        \/ phase = "asking" /\ phase' = "fold" /\ DOMAIN answers = questions
        \/ phase = "fold" /\ phase' = "passed"
        \/ phase \notin {"passed"} /\ phase' = "blocked"
    BY <1>5 DEF PassGate, BlockGate, StartFold, PassDenied, Abort, Settled
  <2>3. /\ phase' \in Phases /\ Len(revisions') = Len(revisions)
        /\ phase' \notin BeforeAnswer \cup AfterAnswer \cup {"gate"}
        /\ phase' \in {"asking", "fold", "passed"} => Len(revisions') = Rounds + 1
        /\ phase' \in {"fold", "passed"} => DOMAIN answers' = questions'
        /\ DOMAIN folded' = {}
    <3>1. CASE phase = "gate" /\ phase' = "passed" /\ questions = {}
      BY <1>0, <2>1, <3>1
    <3>2. CASE phase = "gate" /\ phase' = "asking"
      BY <1>0, <2>1, <3>2
    <3>3. CASE phase = "asking" /\ phase' = "fold" /\ DOMAIN answers = questions
      BY <1>0, <2>1, <3>3
    <3>4. CASE phase = "fold" /\ phase' = "passed"
      BY <1>0, <2>1, <3>4
    <3>5. CASE phase \notin {"passed"} /\ phase' = "blocked"
      BY <1>0, <2>1, <3>5
    <3>6. QED
      BY <2>2, <3>1, <3>2, <3>3, <3>4, <3>5
  <2>4. QED
    BY <1>0, <2>1, <2>3
<1>6. CASE AnswerQuestion
  BY <1>6 DEF AnswerQuestion, control, document
<1>7. CASE FoldAnswers
  <2>1. PICK after \in Documents, p \in Revised(open) : revisions' = Append(revisions, after) /\ open' = p
    BY <1>7 DEF FoldAnswers
  <2>2. /\ phase = "fold" /\ phase' = "passed" /\ DOMAIN folded' = Folds
        /\ UNCHANGED <<round, seat, questions, answers>>
    BY <1>7 DEF FoldAnswers
  <2>3. open' \in [Disclosures -> Texts]
    BY <2>1 DEF Revised
  <2>4. revisions' \in Seq(Documents) /\ Len(revisions') = Len(revisions) + 1
    BY <2>1, OneMoreRevision
  <2>5. Folds \subseteq questions
    BY DEF Folds
  <2>6. QED
    BY <1>0, <2>2, <2>3, <2>4, <2>5
<1>8. CASE Die
  <2>1. /\ UNCHANGED <<round, seat, revisions, open, questions, answers, folded>>
        /\ phase # "passed" /\ phase' = "dead"
    BY <1>8 DEF Die, document, rows, operator, Settled
  <2>2. QED
    BY <1>0, <2>1
<1>9. CASE UNCHANGED vars
  <2>1. UNCHANGED <<phase, round, seat, revisions, open, questions, answers, folded>>
    BY <1>9 DEF vars, control, document, rows, operator
  <2>2. QED
    BY <2>1
<1> HIDE DEF DocumentsInPlace, Phases, BeforeAnswer, AfterAnswer
<1>10. QED
  BY <1>1, <1>2, <1>3, <1>4, <1>5, <1>6, <1>7, <1>8, <1>9, Zenon DEF Next

-----------------------------------------------------------------------------
(* Who owns what changed: of each round that is over the stored decisions,   *)
(* of the round in hand the answer, in part stored and in part pending.      *)
ClaimsOf(ds) == [f \in DOMAIN ds |-> ds[f].claims]
At(r) == {f \in DOMAIN decisions : f.round = r}

RoundIsOwned(r) ==
  (\A f \in At(r) : ~decisions[f].converted) =>
    Owned(revisions[r], revisions[r + 1], ClaimsOf(decisions), At(r))

IsAnswer(ds) ==
  /\ \A f \in raised \cap DOMAIN decisions : decisions[f] = ds[f]
  /\ \A i \in 1..Len(pending) :
       pending[i].finding \in raised /\ pending[i].decision = ds[pending[i].finding]
  /\ (\A f \in raised : ~ds[f].converted) =>
       Owned(revisions[round], revisions[round + 1], ClaimsOf(ds), raised)

ChangesAreTracked ==
  /\ phase \in InRound =>
       /\ \A f \in raised : f.round = round
       /\ \A r \in 1..(round - 1) : RoundIsOwned(r)
  /\ phase \in BeforeAnswer => \A f \in DOMAIN decisions : f.round # round
  /\ phase \in AfterAnswer => \E ds \in [raised -> Validated] : IsAnswer(ds)
  /\ phase = "gate" \/ Reviewed => \A r \in 1..Rounds : RoundIsOwned(r)
  /\ phase = "passed" => Owned(revisions[Rounds + 1], Current, folded, DOMAIN folded)

LEMMA TrackedChangesInit == Init => ChangesAreTracked
BY RoundsAssumption
   DEF Init, ChangesAreTracked, InRound, BeforeAnswer, AfterAnswer, Reviewed

LEMMA DecidedIsFinite ==
  ASSUME RowsAreSound, NEW r
  PROVE  IsFiniteSet(At(r))
<1>1. IsFiniteSet([round : {r}, key : Keys])
  BY RoundIsFinite
<1>2. At(r) \subseteq [round : {r}, key : Keys]
  BY DEF RowsAreSound, Findings, At
<1>3. QED
  BY <1>1, <1>2, FS_Subset

(* Sound decisions claim numbers of copies.                                  *)
LEMMA ClaimsAreCounted ==
  ASSUME NEW ds, NEW f \in DOMAIN ds, ds[f] \in Validated, NEW n \in Nodes
  PROVE  ClaimsOf(ds)[f][n] = ds[f].claims[n] /\ ClaimsOf(ds)[f][n] \in Nat
BY CopiesAssumption DEF ClaimsOf, Validated, Documents

(* What a later step leaves alone stays owned.                               *)
LEMMA OwnedIsKept ==
  ASSUME RowsAreSound, NEW r, RoundIsOwned(r), At(r)' = At(r),
         \A f \in At(r) : decisions'[f] = decisions[f],
         revisions'[r] = revisions[r], revisions'[r + 1] = revisions[r + 1]
  PROVE  RoundIsOwned(r)'
<1>1. IsFiniteSet(At(r))
  BY DecidedIsFinite
<1>2. \A f \in At(r) : f \in DOMAIN decisions /\ f \in DOMAIN decisions' /\ decisions[f] \in Validated
  BY DEF At, RowsAreSound
<1>3. ASSUME NEW n \in Nodes
      PROVE  Claimed(ClaimsOf(decisions'), At(r), n) = Claimed(ClaimsOf(decisions), At(r), n)
  <2>1. \A f \in At(r) : /\ ClaimsOf(decisions)[f][n] \in Nat
                         /\ ClaimsOf(decisions)[f][n] = ClaimsOf(decisions')[f][n]
    BY <1>2, ClaimsAreCounted
  <2>2. QED
    BY <1>1, <2>1, ClaimsOfMembers
<1>4. QED
  BY <1>3 DEF RoundIsOwned, Owned

(* A round whose findings are all decided is owned by its stored decisions.  *)
LEMMA RoundIsOver ==
  ASSUME RowsAreSound, FindingsAreTracked, phase \in AfterAnswer, raised \subseteq DOMAIN decisions,
         \A f \in raised : f.round = round, NEW ds \in [raised -> Validated], IsAnswer(ds)
  PROVE  RoundIsOwned(round)
<1>1. At(round) = raised
  <2>1. \A f \in At(round) : f \in raised
    BY DEF At, RowsAreSound, FindingsAreTracked, InRound, AfterAnswer
  <2>2. \A f \in raised : f \in At(round)
    BY DEF At
  <2>3. QED
    BY <2>1, <2>2
<1>2. \A f \in raised : decisions[f] = ds[f] /\ ds[f] \in Validated /\ f \in DOMAIN ds
  BY DEF IsAnswer
<1>3. ASSUME NEW n \in Nodes
      PROVE  Claimed(ClaimsOf(ds), raised, n) = Claimed(ClaimsOf(decisions), raised, n)
  <2>1. \A f \in raised : /\ ClaimsOf(ds)[f][n] \in Nat
                          /\ ClaimsOf(ds)[f][n] = ClaimsOf(decisions)[f][n]
    BY <1>2, ClaimsAreCounted
  <2>2. IsFiniteSet(raised)
    BY DEF RowsAreSound
  <2>3. QED
    BY <2>1, <2>2, ClaimsOfMembers
<1>4. (\A f \in raised : ~decisions[f].converted) => \A f \in raised : ~ds[f].converted
  BY <1>2
<1>5. QED
  BY <1>1, <1>3, <1>4 DEF RoundIsOwned, Owned, IsAnswer

(* An accepted answer owns what its revision changed, unless it released a   *)
(* claim by a conversion.                                                    *)
LEMMA ReconcileOwns ==
  ASSUME RowsAreSound, DocumentsInPlace, Reconcile, \A f \in DOMAIN decisions : f \notin raised
  PROVE  \E ds \in [raised' -> Validated] : IsAnswer(ds)'
<1> DEFINE k == Cardinality(raised)
<1> DEFINE Given(after, ids, answer) ==
             LET v == ValidateReconciliation(answer, Current, after)
             IN  /\ ~Unowned(v)
                 /\ pending' = [i \in DOMAIN ids |-> [finding |-> ids[i], decision |-> v.decisions[i]]]
<1>0. PICK after \in Documents, ids \in [1..k -> raised] :
        /\ AnswersAll(ids, raised)
        /\ revisions' = Append(revisions, after)
        /\ \E answer \in [DOMAIN ids -> Decisions(AsksQuestions)] : Given(after, ids, answer)
  BY Zenon DEF Reconcile
<1>1. PICK answer \in [1..k -> Decisions(AsksQuestions)] :
        /\ AnswersAll(ids, raised)
        /\ revisions' = Append(revisions, after)
        /\ Given(after, ids, answer)
  BY <1>0
<1> DEFINE v == ValidateReconciliation(answer, Current, after)
           index(f) == CHOOSE i \in 1..k : ids[i] = f
<1>2. k \in Nat /\ IsFiniteSet(raised)
  BY FS_CardinalityType DEF RowsAreSound
<1>3. UNCHANGED <<round, raised, decisions>> /\ phase = "reconcile"
  BY DEF Reconcile, rows
<1>4. ASSUME NEW i \in 1..k PROVE v.decisions[i] \in Validated
  BY <1>2, ValidationIsSound
<1>5. DOMAIN v.decisions = 1..k
  BY DEF ValidateReconciliation
<1> HIDE DEF v
<1>6. \A f \in raised : index(f) \in 1..k /\ ids[index(f)] = f
  BY <1>1 DEF AnswersAll
<1>7. \A i \in 1..k : index(ids[i]) = i
  BY <1>1, <1>6 DEF AnswersAll
<1> HIDE DEF index, k
<1>8. PICK ds : ds = [f \in raised |-> v.decisions[index(f)]]
  OBVIOUS
<1>9. ds \in [raised -> Validated] /\ \A i \in 1..k : ids[i] \in raised /\ ds[ids[i]] = v.decisions[i]
  BY <1>4, <1>6, <1>7, <1>8
<1>10. revisions \in Seq(Documents) /\ Len(revisions) = round /\ round \in Nat /\ round >= 1
  BY <1>3, RoundsAssumption DEF DocumentsInPlace, BeforeAnswer, RowsAreSound
<1>11. Current = revisions'[round] /\ Current \in Documents /\ revisions'[round + 1] = after
  BY <1>1, <1>10 DEF Current
<1>12. ASSUME \A f \in raised : ~ds[f].converted
       PROVE  Owned(Current, after, ClaimsOf(ds), raised)
  <2>1. \A i \in 1..k : ~v.decisions[i].converted
    BY <1>9, <1>12
  <2>2. v.unclaimedNodes = {} /\ v.unclaimedRemovals = {}
    <3>1. ~Unowned(v)
      BY <1>1 DEF v
    <3>2. QED
      BY <1>5, <2>1, <3>1 DEF Unowned, Conversions
  <2>3. \A i \in 1..k : ClaimsOf(ds)[ids[i]] = v.decisions[i].claims
    BY <1>9 DEF ClaimsOf
  <2>4. Accepted(k, answer, Current, after, raised, ids, ClaimsOf(ds))
    <3>1. /\ k \in Nat /\ IsFiniteSet(raised) /\ Current \in Documents /\ after \in Documents
          /\ AnswersAll(ids, raised)
      BY <1>1, <1>2, <1>11
    <3>2. ids \in [1..k -> raised] /\ answer \in [1..k -> Decisions(AsksQuestions)]
      BY DEF k
    <3>3. QED
      BY <2>2, <2>3, <3>1, <3>2 DEF Accepted, v
  <2>5. QED
    BY <2>4, AcceptedOwns
<1>13. IsAnswer(ds)'
  <2>1. \A f \in raised' \cap DOMAIN decisions' : decisions'[f] = ds[f]
    BY <1>3
  <2>2. pending' = [i \in 1..k |-> [finding |-> ids[i], decision |-> v.decisions[i]]]
    BY <1>1 DEF v, k
  <2>3. Len(pending') = k
    BY <1>2, <2>2 DEF k
  <2>4. \A i \in 1..Len(pending') :
          pending'[i].finding \in raised' /\ pending'[i].decision = ds[pending'[i].finding]
    BY <1>3, <1>9, <2>2, <2>3
  <2>5. (\A f \in raised' : ~ds[f].converted) =>
          Owned(revisions'[round'], revisions'[round' + 1], ClaimsOf(ds), raised')
    BY <1>3, <1>11, <1>12
  <2>6. QED
    BY <2>1, <2>4, <2>5 DEF IsAnswer, Owned
<1>14. QED
  BY <1>3, <1>9, <1>13

(* So does the fold of the operator's answers.                               *)
LEMMA FoldOwns ==
  ASSUME RowsAreSound, DocumentsInPlace, FoldAnswers
  PROVE  Owned(revisions'[Rounds + 1], revisions'[Len(revisions')], folded', DOMAIN folded')
<1> DEFINE k == Cardinality(Folds)
<1> DEFINE Given(after, ids, answer) ==
             LET v == ValidateReconciliation(answer, Current, after)
             IN  /\ v.unclaimedNodes = {} /\ v.unclaimedRemovals = {}
                 /\ folded' = [f \in Folds |->
                      (CHOOSE d \in {[id |-> ids[i], claims |-> v.decisions[i].claims] : i \in DOMAIN ids} :
                         d.id = f).claims]
<1>0. PICK after \in Documents, ids \in [1..k -> Folds] :
        /\ AnswersAll(ids, Folds)
        /\ revisions' = Append(revisions, after)
        /\ \E answer \in [DOMAIN ids -> {d \in Decisions(AsksQuestions) : d.disposition = "addressed"}] :
             Given(after, ids, answer)
  BY Zenon DEF FoldAnswers
<1>1. PICK answer \in [1..k -> {d \in Decisions(AsksQuestions) : d.disposition = "addressed"}] :
        /\ AnswersAll(ids, Folds)
        /\ revisions' = Append(revisions, after)
        /\ Given(after, ids, answer)
  <2>1. DOMAIN ids = 1..k
    OBVIOUS
  <2> HIDE DEF Given, k
  <2>2. QED
    BY <1>0, <2>1, Zenon
<1> DEFINE v == ValidateReconciliation(answer, Current, after)
           entry(i) == [id |-> ids[i], claims |-> v.decisions[i].claims]
           entries == {entry(i) : i \in 1..k}
<1>2. IsFiniteSet(Folds) /\ k \in Nat
  <2>1. IsFiniteSet([round : 1..Rounds, key : Keys])
    <3>1. IsFiniteSet((1..Rounds) \X Keys)
      <4>1. 1 \in Int /\ Rounds \in Int
        BY RoundsAssumption
      <4>2. IsFiniteSet(1..Rounds)
        BY <4>1, FS_Interval
      <4>3. QED
        BY <4>2, KeysAssumption, FS_Product
    <3> DEFINE row == [p \in (1..Rounds) \X Keys |-> [round |-> p[1], key |-> p[2]]]
    <3>2. row \in Surjection((1..Rounds) \X Keys, [round : 1..Rounds, key : Keys])
      <4>1. row \in [(1..Rounds) \X Keys -> [round : 1..Rounds, key : Keys]]
        OBVIOUS
      <4>2. ASSUME NEW f \in [round : 1..Rounds, key : Keys]
            PROVE  \E p \in (1..Rounds) \X Keys : row[p] = f
        <5>1. <<f.round, f.key>> \in (1..Rounds) \X Keys /\ row[<<f.round, f.key>>] = f
          OBVIOUS
        <5>2. QED
          BY <5>1
      <4>3. QED
        BY <4>1, <4>2 DEF Surjection
    <3>3. QED
      BY <3>1, <3>2, FS_Surjection
  <2>2. Folds \subseteq [round : 1..Rounds, key : Keys]
    BY DEF Folds, RowsAreSound, Findings
  <2>3. QED
    BY <2>1, <2>2, FS_Subset, FS_CardinalityType
<1>3. AnswersAll(ids, Folds) /\ revisions' = Append(revisions, after)
      /\ folded' = [f \in Folds |-> (CHOOSE d \in entries : d.id = f).claims]
  <2> DEFINE over(D) == {[id |-> ids[i], claims |-> v.decisions[i].claims] : i \in D}
             folding(D) == [f \in Folds |-> (CHOOSE d \in over(D) : d.id = f).claims]
  <2>1. DOMAIN ids = 1..k
    OBVIOUS
  <2>2. folded' = folding(DOMAIN ids)
    BY <1>1
  <2>3. folding(1..k) = [f \in Folds |-> (CHOOSE d \in entries : d.id = f).claims]
    OBVIOUS
  <2> HIDE DEF folding, entries
  <2>4. folded' = [f \in Folds |-> (CHOOSE d \in entries : d.id = f).claims]
    BY <2>1, <2>2, <2>3
  <2>5. QED
    BY <1>1, <2>4
<1>4. v.unclaimedNodes = {} /\ v.unclaimedRemovals = {}
  BY <1>1
<1> HIDE DEF v
<1>5. ASSUME NEW i \in 1..k PROVE ids[i] \in Folds /\ folded'[ids[i]] = v.decisions[i].claims
  <2>1. \A j \in 1..k : entry(j).id = ids[j] /\ entry(j).claims = v.decisions[j].claims
    OBVIOUS
  <2>2. \A j \in 1..k : ids[j] = ids[i] => j = i
    BY <1>3 DEF AnswersAll
  <2> HIDE DEF entry
  <2>3. entry(i) \in entries /\ \A d \in entries : d.id = ids[i] => d = entry(i)
    BY <2>1, <2>2
  <2> HIDE DEF entries
  <2>4. (CHOOSE d \in entries : d.id = ids[i]) = entry(i)
    BY <2>1, <2>3
  <2>5. ids[i] \in Folds
    OBVIOUS
  <2>6. QED
    BY <1>3, <2>1, <2>4, <2>5
<1>6. revisions \in Seq(Documents) /\ Len(revisions) = Rounds + 1 /\ Rounds \in Nat
  BY RoundsAssumption DEF FoldAnswers, DocumentsInPlace
<1>7. /\ Current \in Documents /\ Current = revisions'[Rounds + 1]
      /\ revisions'[Len(revisions')] = after
  BY <1>3, <1>6 DEF Current
<1>8. answer \in [1..k -> Decisions(AsksQuestions)]
  OBVIOUS
<1>9. \A i \in 1..k : folded'[ids[i]] = v.decisions[i].claims
  BY <1>5
<1>10. ids \in [1..k -> Folds]
  OBVIOUS
<1>11. Accepted(k, answer, Current, after, Folds, ids, folded')
  <2> HIDE DEF k
  <2>1. QED
    BY <1>2, <1>3, <1>4, <1>7, <1>8, <1>9, <1>10 DEF Accepted, v
<1>12. DOMAIN folded' = Folds
  BY <1>3
<1>13. Owned(Current, after, folded', Folds)
  BY <1>11, AcceptedOwns
<1>14. QED
  BY <1>7, <1>12, <1>13

LEMMA RoundStays ==
  ASSUME NEW r, RoundIsOwned(r), UNCHANGED <<decisions, revisions>>
  PROVE  RoundIsOwned(r)'
BY DEF RoundIsOwned, Owned, At, ClaimsOf

(* A document owes nothing to itself.                                        *)
LEMMA NothingChanged ==
  ASSUME NEW before \in Documents, NEW claims
  PROVE  Owned(before, before, claims, {})
<1>1. ASSUME NEW n \in Nodes PROVE Changed(before, before, n) = 0
  BY CopiesAssumption DEF Changed, AddedNodes, RemovedNodes, Documents
<1>2. QED
  BY <1>1, NobodyClaims DEF Owned

LEMMA TrackedChangesStep ==
  ASSUME RowsAreSound, FindingsAreTracked, DocumentsInPlace, ChangesAreTracked, [Next]_vars
  PROVE  ChangesAreTracked'
<1>0. round \in 1..Rounds /\ round \in Nat /\ Rounds \in Nat \ {0}
  BY RoundsAssumption DEF RowsAreSound
<1>1. CASE Disclose \/ Report
  <2>1. PICK keys \in SUBSET Keys : Record(keys)
    BY <1>1, SomeKeysAreRecorded
  <2>2. /\ UNCHANGED <<round, decisions, revisions>>
        /\ phase \in BeforeAnswer /\ phase \in InRound /\ phase' \in {"panel", "reconcile"}
    BY <1>1 DEF Disclose, Report, document, BeforeAnswer, InRound
  <2>3. \A f \in raised' : f.round = round
    BY <2>1, <2>2 DEF Record, ChangesAreTracked
  <2>4. \A r \in 1..(round - 1) : RoundIsOwned(r)'
    BY <2>2, RoundStays DEF ChangesAreTracked
  <2>5. \A f \in DOMAIN decisions' : f.round # round
    BY <2>2 DEF ChangesAreTracked
  <2>6. QED
    BY <2>2, <2>3, <2>4, <2>5 DEF ChangesAreTracked, AfterAnswer, Reviewed
<1>2. CASE Reconcile
  <2>1. /\ UNCHANGED <<round, raised, decisions>> /\ phase = "reconcile" /\ phase' = "store"
    BY <1>2 DEF Reconcile, rows
  <2>2. /\ \A f \in raised : f.round = round
        /\ \A r \in 1..(round - 1) : RoundIsOwned(r)
        /\ \A f \in DOMAIN decisions : f \notin raised
    BY <2>1 DEF ChangesAreTracked, InRound, BeforeAnswer
  <2>3. PICK after \in Documents : revisions' = Append(revisions, after)
    BY <1>2 DEF Reconcile
  <2>4. revisions \in Seq(Documents) /\ Len(revisions) = round
    BY <2>1 DEF DocumentsInPlace, BeforeAnswer
  <2>5. \A i \in 1..round : revisions'[i] = revisions[i]
    BY <2>3, <2>4, OneMoreRevision
  <2>6. At(1)' = At(1) /\ \A r : At(r)' = At(r)
    BY <2>1 DEF At
  <2>7. ASSUME NEW r \in 1..(round - 1) PROVE RoundIsOwned(r)'
    <3>1. r \in 1..round /\ r + 1 \in 1..round
      BY <1>0
    <3>2. \A f \in At(r) : decisions'[f] = decisions[f]
      BY <2>1
    <3>3. QED
      BY <2>2, <2>5, <2>6, <3>1, <3>2, OwnedIsKept
  <2>8. \E ds \in [raised' -> Validated] : IsAnswer(ds)'
    BY <1>2, <2>2, ReconcileOwns
  <2>9. QED
    BY <2>1, <2>2, <2>7, <2>8 DEF ChangesAreTracked, BeforeAnswer, Reviewed
<1>3. CASE StoreDecision
  <2> DEFINE f0 == Head(pending).finding
  <2>1. /\ phase = "store" /\ phase' = "question" /\ pending # <<>>
        /\ UNCHANGED <<round, raised, pending, revisions>>
        /\ f0 \notin DOMAIN decisions /\ DOMAIN decisions' = DOMAIN decisions \cup {f0}
        /\ decisions'[f0] = Head(pending).decision
        /\ \A f \in DOMAIN decisions : decisions'[f] = decisions[f]
    BY <1>3 DEF StoreDecision, document
  <2>2. /\ \A f \in raised : f.round = round
        /\ \A r \in 1..(round - 1) : RoundIsOwned(r)
    BY <2>1 DEF ChangesAreTracked, InRound
  <2>3. PICK ds \in [raised -> Validated] : IsAnswer(ds)
    BY <2>1 DEF ChangesAreTracked, AfterAnswer
  <2>4. f0 \in raised /\ Head(pending).decision = ds[f0]
    <3>1. 1 \in 1..Len(pending) /\ Head(pending) = pending[1]
      BY <2>1 DEF RowsAreSound
    <3>2. QED
      BY <2>3, <3>1 DEF IsAnswer
  <2>5. ASSUME NEW r \in 1..(round - 1) PROVE RoundIsOwned(r)'
    <3>1. f0.round # r
      BY <1>0, <2>2, <2>4
    <3>2. At(r)' = At(r)
      <4> HIDE DEF f0
      <4>1. QED
        BY <2>1, <3>1 DEF At
    <3>3. \A f \in At(r) : decisions'[f] = decisions[f]
      BY <2>1 DEF At
    <3>4. QED
      BY <2>1, <2>2, <3>2, <3>3, OwnedIsKept
  <2>6. IsAnswer(ds)'
    <3>1. \A f \in raised' \cap DOMAIN decisions' : decisions'[f] = ds[f]
      BY <2>1, <2>3, <2>4 DEF IsAnswer
    <3>2. QED
      BY <2>1, <2>3, <3>1 DEF IsAnswer, Owned
  <2>7. QED
    BY <2>1, <2>2, <2>3, <2>5, <2>6 DEF ChangesAreTracked, BeforeAnswer, Reviewed
<1>4. CASE StoreQuestion
  <2>1. /\ UNCHANGED <<round, raised, pending, decisions, revisions>>
        /\ phase = "question" /\ phase' = "proposal"
    BY <1>4 DEF StoreQuestion, document
  <2>2. PICK ds \in [raised -> Validated] : IsAnswer(ds)
    BY <2>1 DEF ChangesAreTracked, AfterAnswer
  <2>3. IsAnswer(ds)'
    BY <2>1, <2>2 DEF IsAnswer, Owned
  <2>4. /\ \A f \in raised : f.round = round
        /\ \A r \in 1..(round - 1) : RoundIsOwned(r)
    BY <2>1 DEF ChangesAreTracked, InRound
  <2>5. \A r \in 1..(round - 1) : RoundIsOwned(r)'
    BY <2>1, <2>4, RoundStays
  <2>6. QED
    BY <2>1, <2>2, <2>3, <2>4, <2>5 DEF ChangesAreTracked, BeforeAnswer, Reviewed
<1>5. CASE StoreProposal
  <2>1. /\ UNCHANGED <<round, raised, decisions, revisions>>
        /\ phase = "proposal" /\ phase' \in {"summary", "store"} /\ pending' = Tail(pending)
    BY <1>5 DEF StoreProposal, document
  <2>2. PICK ds \in [raised -> Validated] : IsAnswer(ds)
    BY <2>1 DEF ChangesAreTracked, AfterAnswer
  <2>3. IsAnswer(ds)'
    <3>1. pending # <<>> /\ pending \in Seq(Entries)
      BY <2>1 DEF RowsAreSound
    <3>2. ASSUME NEW i \in 1..Len(pending')
          PROVE  i + 1 \in 1..Len(pending) /\ pending'[i] = pending[i + 1]
      BY <2>1, <3>1
    <3>3. \A i \in 1..Len(pending') :
            pending'[i].finding \in raised' /\ pending'[i].decision = ds[pending'[i].finding]
      BY <2>1, <2>2, <3>2 DEF IsAnswer
    <3>4. QED
      BY <2>1, <2>2, <3>3 DEF IsAnswer, Owned
  <2>4. /\ \A f \in raised : f.round = round
        /\ \A r \in 1..(round - 1) : RoundIsOwned(r)
    BY <2>1 DEF ChangesAreTracked, InRound
  <2>5. \A r \in 1..(round - 1) : RoundIsOwned(r)'
    BY <2>1, <2>4, RoundStays
  <2>6. QED
    BY <2>1, <2>2, <2>3, <2>4, <2>5 DEF ChangesAreTracked, BeforeAnswer, Reviewed
<1>6. CASE Summarize
  <2>1. /\ phase \in AfterAnswer /\ phase \in InRound
        /\ phase' = IF round = Rounds THEN "gate" ELSE "panel"
        /\ round' = IF round = Rounds THEN round ELSE round + 1
        /\ raised' = {} /\ UNCHANGED <<decisions, revisions>>
    BY <1>6 DEF Summarize, document, rows, AfterAnswer, InRound
  <2>2. raised \subseteq DOMAIN decisions
    BY <1>6 DEF Summarize, FindingsAreTracked
  <2>3. PICK ds \in [raised -> Validated] : IsAnswer(ds)
    BY <2>1 DEF ChangesAreTracked
  <2>4. /\ \A f \in raised : f.round = round
        /\ \A r \in 1..(round - 1) : RoundIsOwned(r)
    BY <2>1 DEF ChangesAreTracked
  <2>5. RoundIsOwned(round)
    BY <2>1, <2>2, <2>3, <2>4, RoundIsOver
  <2>6. \A r \in 1..round : RoundIsOwned(r)
    <3>1. \A r \in 1..round : r = round \/ r \in 1..(round - 1)
      BY <1>0
    <3>2. QED
      BY <2>4, <2>5, <3>1
  <2>7. \A r \in 1..round : RoundIsOwned(r)'
    BY <2>1, <2>6, RoundStays
  <2>8. \A f \in DOMAIN decisions : f.round \in 1..round
    BY DEF RowsAreSound, FindingsAreTracked
  <2>9. CASE round = Rounds
    BY <2>1, <2>7, <2>9 DEF ChangesAreTracked, InRound, BeforeAnswer, AfterAnswer, Reviewed
  <2>10. CASE round # Rounds
    <3>1. phase' = "panel" /\ round' = round + 1 /\ round' - 1 = round
      BY <1>0, <2>1, <2>10
    <3>2. \A f \in DOMAIN decisions' : f.round # round'
      BY <1>0, <2>1, <2>8, <3>1
    <3>3. QED
      BY <2>1, <2>7, <3>1, <3>2 DEF ChangesAreTracked, AfterAnswer, Reviewed
  <2>11. QED
    BY <2>9, <2>10
<1>7. CASE PassGate \/ StartFold \/ PassDenied \/ AnswerQuestion
  <2>1. /\ UNCHANGED <<decisions, revisions, folded>>
        /\ phase \in {"gate", "asking", "fold"} /\ phase' \in {"asking", "fold", "passed"}
    BY <1>7 DEF PassGate, StartFold, PassDenied, AnswerQuestion, document, rows, operator, control
  <2>2. \A r \in 1..Rounds : RoundIsOwned(r)'
    BY <2>1, RoundStays DEF ChangesAreTracked, Reviewed
  <2>3. /\ revisions \in Seq(Documents) /\ Len(revisions) = Rounds + 1 /\ DOMAIN folded = {}
    BY <2>1 DEF DocumentsInPlace
  <2>4. Current = revisions[Rounds + 1] /\ revisions[Rounds + 1] \in Documents
    BY <1>0, <2>3 DEF Current
  <2>5. Owned(revisions'[Rounds + 1], Current', folded', DOMAIN folded')
    <3>1. Current' = Current
      BY <2>1 DEF Current
    <3>2. Owned(revisions[Rounds + 1], revisions[Rounds + 1], folded, {})
      BY <2>4, NothingChanged
    <3>3. QED
      BY <2>1, <2>3, <2>4, <3>1, <3>2
  <2>6. QED
    BY <2>1, <2>2, <2>5 DEF ChangesAreTracked, InRound, BeforeAnswer, AfterAnswer, Owned
<1>8. CASE FoldAnswers
  <2>1. /\ UNCHANGED decisions /\ phase = "fold" /\ phase' = "passed"
    BY <1>8 DEF FoldAnswers
  <2>2. PICK after \in Documents : revisions' = Append(revisions, after)
    BY <1>8 DEF FoldAnswers
  <2>3. revisions \in Seq(Documents) /\ Len(revisions) = Rounds + 1
    BY <2>1 DEF DocumentsInPlace
  <2>4. \A i \in 1..(Rounds + 1) : revisions'[i] = revisions[i]
    BY <2>2, <2>3, OneMoreRevision
  <2>5. ASSUME NEW r \in 1..Rounds PROVE RoundIsOwned(r)'
    <3>1. r \in 1..(Rounds + 1) /\ r + 1 \in 1..(Rounds + 1)
      BY <1>0
    <3>2. At(r)' = At(r) /\ \A f \in At(r) : decisions'[f] = decisions[f]
      BY <2>1 DEF At
    <3>3. RoundIsOwned(r)
      BY <2>1 DEF ChangesAreTracked, Reviewed
    <3>4. QED
      BY <2>4, <3>1, <3>2, <3>3, OwnedIsKept
  <2>6. Owned(revisions'[Rounds + 1], revisions'[Len(revisions')], folded', DOMAIN folded')
    BY <1>8, FoldOwns
  <2>7. QED
    BY <2>1, <2>5, <2>6 DEF ChangesAreTracked, InRound, BeforeAnswer, AfterAnswer, Current, Owned
<1>9. CASE BlockGate \/ Abort \/ Die
  BY <1>9 DEF BlockGate, Abort, Die, ChangesAreTracked, InRound, BeforeAnswer, AfterAnswer, Reviewed
<1>10. CASE UNCHANGED vars
  <2>1. UNCHANGED <<phase, round, raised, pending, decisions, revisions, folded>>
    BY <1>10 DEF vars, control, document, rows, operator
  <2>2. ASSUME NEW r, RoundIsOwned(r) PROVE RoundIsOwned(r)'
    BY <2>1, <2>2, RoundStays
  <2>3. ASSUME NEW ds, IsAnswer(ds) PROVE IsAnswer(ds)'
    BY <2>1, <2>3 DEF IsAnswer, Owned
  <2>4. phase = "passed" => Owned(revisions'[Rounds + 1], Current', folded', DOMAIN folded')
    BY <2>1 DEF ChangesAreTracked, Current
  <2>5. QED
    BY <2>1, <2>2, <2>3, <2>4 DEF ChangesAreTracked, Reviewed, Owned
<1>11. QED
  BY <1>1, <1>2, <1>3, <1>4, <1>5, <1>6, <1>7, <1>8, <1>9, <1>10 DEF Next

-----------------------------------------------------------------------------
(* Where an upstream concern is filed: every stored one but the one in hand  *)
(* has its row, and no two rows have one identity.                           *)
Proposals == [topic : Topics, route : {"blocking_dependency", "follow_up"},
              sources : SUBSET Findings]

OneOfEach ==
  \A x, y \in proposals : x.topic = y.topic /\ x.route = y.route => x = y

FiledOnce(f, route) ==
  \E row \in proposals :
    /\ f \in row.sources /\ row.route = route
    /\ \A other \in proposals : f \in other.sources => other = row

InHand(f) == phase \in {"question", "proposal"} /\ f = Head(pending).finding

UpstreamIsTracked ==
  phase \notin {"blocked", "dead"} =>
    /\ proposals \subseteq Proposals /\ OneOfEach
    /\ \A row \in proposals : row.sources \subseteq DOMAIN decisions
    /\ \A f \in DOMAIN decisions :
         /\ InHand(f) => \A row \in proposals : f \notin row.sources
         /\ ~InHand(f) /\ decisions[f].disposition \in Upstream =>
              FiledOnce(f, Route(decisions[f].disposition))

(* upsertProposal files a finding under one row and moves no other finding.  *)
Filing(f0, t, rt) ==
  /\ f0 \in Findings /\ t \in Topics /\ rt \in {"blocking_dependency", "follow_up"}
  /\ \A row \in proposals : f0 \notin row.sources
  /\ UpsertProposal(f0, t, rt)

LEMMA FilingIsExact ==
  ASSUME proposals \subseteq Proposals, OneOfEach, NEW f0, NEW t, NEW rt, Filing(f0, t, rt)
  PROVE  /\ proposals' \subseteq Proposals /\ OneOfEach' /\ FiledOnce(f0, rt)'
         /\ \A row \in proposals' : \A f \in row.sources :
              f = f0 \/ \E x \in proposals : f \in x.sources
         /\ \A f, route : f # f0 /\ FiledOnce(f, route) => FiledOnce(f, route)'
<1> SUFFICES ASSUME f0 \in Findings, t \in Topics, rt \in {"blocking_dependency", "follow_up"},
                    \A row \in proposals : f0 \notin row.sources, UpsertProposal(f0, t, rt)
             PROVE  /\ proposals' \subseteq Proposals /\ OneOfEach' /\ FiledOnce(f0, rt)'
                    /\ \A row \in proposals' : \A f \in row.sources :
                         f = f0 \/ \E x \in proposals : f \in x.sources
                    /\ \A f, route : f # f0 /\ FiledOnce(f, route) => FiledOnce(f, route)'
  BY DEF Filing
<1> DEFINE same == {row \in proposals : SameIdentity(row, t, rt)}
           fresh == [topic |-> t, route |-> rt, sources |-> {f0}]
           moved(row) == IF row \in same THEN [row EXCEPT !.sources = @ \cup {f0}] ELSE row
<1>1. CASE same = {}
  <2>1. proposals' = proposals \cup {fresh}
    BY <1>1 DEF UpsertProposal
  <2>2. fresh \in Proposals /\ fresh.topic = t /\ fresh.route = rt /\ fresh.sources = {f0}
    BY DEF Proposals
  <2>3. \A row \in proposals : ~(row.topic = t /\ row.route = rt)
    BY <1>1 DEF SameIdentity
  <2> HIDE DEF fresh, same
  <2>4. OneOfEach'
    BY <2>1, <2>2, <2>3 DEF OneOfEach
  <2>5. FiledOnce(f0, rt)'
    BY <2>1, <2>2 DEF FiledOnce
  <2>6. ASSUME NEW f, NEW route, f # f0, FiledOnce(f, route) PROVE FiledOnce(f, route)'
    BY <2>1, <2>2, <2>6 DEF FiledOnce
  <2>7. QED
    BY <2>1, <2>2, <2>4, <2>5, <2>6
<1>2. CASE same # {}
  <2>1. proposals' = {moved(row) : row \in proposals}
    BY <1>2 DEF UpsertProposal
  <2>2. ASSUME NEW row \in proposals
        PROVE  /\ moved(row) \in Proposals /\ moved(row).topic = row.topic /\ moved(row).route = row.route
               /\ moved(row).sources = IF row \in same THEN row.sources \cup {f0} ELSE row.sources
    BY DEF Proposals
  <2>3. \A row \in proposals : row \in same <=> row.topic = t /\ row.route = rt
    BY DEF SameIdentity
  <2> HIDE DEF moved, same
  <2>4. OneOfEach'
    <3>1. ASSUME NEW x \in proposals, NEW y \in proposals,
                 moved(x).topic = moved(y).topic, moved(x).route = moved(y).route
          PROVE  x = y
      <4>1. x.topic = y.topic
        BY <2>2, <3>1
      <4>2. x.route = y.route
        BY <2>2, <3>1
      <4>3. QED
        BY <4>1, <4>2 DEF OneOfEach
    <3>2. QED
      BY <2>1, <3>1 DEF OneOfEach
  <2>5. PICK own \in proposals : own \in same
    BY <1>2 DEF same
  <2>6. ASSUME NEW x \in proposals, f0 \in moved(x).sources PROVE x = own
    <3>1. x \in same
      <4>1. moved(x).sources = IF x \in same THEN x.sources \cup {f0} ELSE x.sources
        BY <2>2
      <4>2. QED
        BY <2>6, <4>1
    <3>2. x.topic = own.topic /\ x.route = own.route
      BY <2>3, <2>5, <3>1
    <3>3. QED
      BY <3>2 DEF OneOfEach
  <2>7. FiledOnce(f0, rt)'
    <3>1. moved(own) \in proposals'
      BY <2>1
    <3>2. moved(own).sources = own.sources \cup {f0} /\ moved(own).route = rt
      BY <2>2, <2>3, <2>5
    <3>3. ASSUME NEW other \in proposals', f0 \in other.sources PROVE other = moved(own)
      BY <2>1, <2>6, <3>3
    <3>4. QED
      BY <3>1, <3>2, <3>3 DEF FiledOnce
  <2>8. ASSUME NEW f, NEW route, f # f0, FiledOnce(f, route) PROVE FiledOnce(f, route)'
    <3>1. PICK row \in proposals :
            /\ f \in row.sources /\ row.route = route
            /\ \A other \in proposals : f \in other.sources => other = row
      BY <2>8 DEF FiledOnce
    <3>2. \A x \in proposals : f \in moved(x).sources => x = row
      BY <2>2, <2>8, <3>1
    <3>3. moved(row) \in proposals' /\ f \in moved(row).sources /\ moved(row).route = route
      BY <2>1, <2>2, <3>1
    <3>4. \A other \in proposals' : f \in other.sources => other = moved(row)
      BY <2>1, <3>2
    <3>5. QED
      BY <3>3, <3>4 DEF FiledOnce
  <2>9. proposals' \subseteq Proposals
    BY <2>1, <2>2
  <2>10. \A x \in proposals : \A f \in moved(x).sources : f = f0 \/ f \in x.sources
    BY <2>2
  <2>11. QED
    BY <2>1, <2>4, <2>7, <2>8, <2>9, <2>10
<1>3. QED
  BY <1>1, <1>2

LEMMA UpstreamInit == Init => UpstreamIsTracked
BY DEF Init, UpstreamIsTracked, OneOfEach

LEMMA UpstreamStep ==
  ASSUME RowsAreSound, UpstreamIsTracked, [Next]_vars
  PROVE  UpstreamIsTracked'
<1> SUFFICES ASSUME phase' \notin {"blocked", "dead"} PROVE UpstreamIsTracked'
  BY DEF UpstreamIsTracked
<1>1. CASE StoreDecision
  <2> DEFINE f0 == Head(pending).finding
  <2>1. /\ phase = "store" /\ phase' = "question" /\ UNCHANGED <<pending, proposals>>
        /\ f0 \notin DOMAIN decisions /\ DOMAIN decisions' = DOMAIN decisions \cup {f0}
        /\ \A f \in DOMAIN decisions : decisions'[f] = decisions[f]
    BY <1>1 DEF StoreDecision
  <2>2. \A f : InHand(f)' <=> f = f0
    BY <2>1 DEF InHand
  <2>3. /\ proposals \subseteq Proposals /\ OneOfEach
        /\ \A row \in proposals : row.sources \subseteq DOMAIN decisions
        /\ \A f \in DOMAIN decisions : decisions[f].disposition \in Upstream =>
             FiledOnce(f, Route(decisions[f].disposition))
    BY <2>1 DEF UpstreamIsTracked, InHand
  <2> HIDE DEF f0
  <2>4. \A row \in proposals : f0 \notin row.sources
    BY <2>1, <2>3
  <2>5. OneOfEach' /\ \A f, route : FiledOnce(f, route) => FiledOnce(f, route)'
    BY <2>1, <2>3 DEF OneOfEach, FiledOnce
  <2>6. ASSUME NEW f \in DOMAIN decisions', ~InHand(f)', decisions'[f].disposition \in Upstream
        PROVE  FiledOnce(f, Route(decisions[f].disposition))'
    <3>1. f \in DOMAIN decisions /\ decisions'[f] = decisions[f]
      BY <2>1, <2>2, <2>6
    <3>2. FiledOnce(f, Route(decisions[f].disposition))
      BY <2>3, <2>6, <3>1
    <3>3. QED
      BY <2>1, <3>1, <3>2 DEF FiledOnce
  <2>7. QED
    BY <2>1, <2>2, <2>3, <2>4, <2>5, <2>6 DEF UpstreamIsTracked
<1>2. CASE StoreProposal
  <2>0. PICK f0, d0 : f0 = Head(pending).finding /\ d0 = Head(pending).decision
    OBVIOUS
  <2>1. /\ phase = "proposal" /\ phase' \in {"summary", "store"} /\ UNCHANGED decisions
        /\ IF d0.disposition \in Upstream
             THEN \E t \in d0.proposal : UpsertProposal(f0, t, Route(d0.disposition))
             ELSE UNCHANGED proposals
    BY <1>2, <2>0 DEF StoreProposal
  <2>2. /\ f0 \in DOMAIN decisions /\ decisions[f0] = d0 /\ d0 \in Validated /\ f0 \in Findings
    BY <2>0, <2>1 DEF RowsAreSound
  <2>3. /\ proposals \subseteq Proposals /\ OneOfEach
        /\ \A row \in proposals : row.sources \subseteq DOMAIN decisions
        /\ \A row \in proposals : f0 \notin row.sources
        /\ \A f \in DOMAIN decisions : f # f0 /\ decisions[f].disposition \in Upstream =>
             FiledOnce(f, Route(decisions[f].disposition))
    BY <2>0, <2>1, <2>2 DEF UpstreamIsTracked, InHand
  <2>4. \A f : ~InHand(f)'
    BY <2>1 DEF InHand
  <2>5. CASE d0.disposition \in Upstream
    <3>0. PICK rt : rt = Route(d0.disposition)
      OBVIOUS
    <3>1. PICK t \in d0.proposal : UpsertProposal(f0, t, rt)
      BY <2>1, <2>5, <3>0
    <3>2. t \in Topics /\ rt \in {"blocking_dependency", "follow_up"}
      BY <2>2, <3>0 DEF Validated, Route
    <3>3. /\ proposals' \subseteq Proposals /\ OneOfEach' /\ FiledOnce(f0, rt)'
          /\ \A row \in proposals' : \A f \in row.sources :
               f = f0 \/ \E x \in proposals : f \in x.sources
          /\ \A f, route : f # f0 /\ FiledOnce(f, route) => FiledOnce(f, route)'
      <4>1. Filing(f0, t, rt)
        BY <2>2, <2>3, <3>1, <3>2 DEF Filing
      <4>2. QED
        BY <2>3, <4>1, FilingIsExact
    <3>4. \A row \in proposals' : row.sources \subseteq DOMAIN decisions'
      BY <2>1, <2>2, <2>3, <3>3
    <3>5. ASSUME NEW f \in DOMAIN decisions', decisions'[f].disposition \in Upstream
          PROVE  FiledOnce(f, Route(decisions[f].disposition))'
      <4>1. PICK route : route = Route(decisions[f].disposition)
        OBVIOUS
      <4>2. f \in DOMAIN decisions /\ decisions[f].disposition \in Upstream
        BY <2>1, <3>5
      <4>3. CASE f = f0
        <5>1. route = rt
          BY <2>2, <3>0, <4>1, <4>3
        <5>2. FiledOnce(f, route)'
          BY <3>3, <4>3, <5>1 DEF FiledOnce
        <5>3. QED
          BY <2>1, <4>1, <5>2 DEF FiledOnce
      <4>4. CASE f # f0
        <5>1. FiledOnce(f, route)
          BY <2>3, <4>1, <4>2, <4>4
        <5>2. FiledOnce(f, route)'
          BY <3>3, <4>4, <5>1
        <5>3. QED
          BY <2>1, <4>1, <5>2 DEF FiledOnce
      <4>5. QED
        BY <4>3, <4>4
    <3>6. QED
      BY <2>4, <3>3, <3>4, <3>5 DEF UpstreamIsTracked
  <2>6. CASE d0.disposition \notin Upstream
    <3>1. UNCHANGED <<proposals, decisions>>
      BY <2>1, <2>6
    <3>2. \A f \in DOMAIN decisions : decisions[f].disposition \in Upstream =>
             FiledOnce(f, Route(decisions[f].disposition))
      BY <2>2, <2>3, <2>6
    <3>3. OneOfEach' /\ \A f, route : FiledOnce(f, route) => FiledOnce(f, route)'
      BY <2>3, <3>1 DEF OneOfEach, FiledOnce
    <3>4. ASSUME NEW f \in DOMAIN decisions', decisions'[f].disposition \in Upstream
          PROVE  FiledOnce(f, Route(decisions[f].disposition))'
      <4>1. FiledOnce(f, Route(decisions[f].disposition))
        BY <3>1, <3>2, <3>4
      <4>2. QED
        BY <3>1, <4>1 DEF FiledOnce
    <3>5. QED
      BY <2>3, <2>4, <3>1, <3>3, <3>4 DEF UpstreamIsTracked
  <2>7. QED
    BY <2>5, <2>6
<1>3. ASSUME UNCHANGED <<proposals, decisions>>, phase \notin {"blocked", "dead"},
             \A f : InHand(f)' <=> InHand(f)
      PROVE  UpstreamIsTracked'
  <2>1. OneOfEach' <=> OneOfEach
    BY <1>3 DEF OneOfEach
  <2>2. \A f, route : FiledOnce(f, route) => FiledOnce(f, route)'
    BY <1>3 DEF FiledOnce
  <2>3. QED
    BY <1>3, <2>1, <2>2 DEF UpstreamIsTracked
<1>4. CASE StoreQuestion
  <2>1. /\ UNCHANGED <<proposals, decisions, pending>> /\ phase = "question" /\ phase' = "proposal"
    BY <1>4 DEF StoreQuestion
  <2>2. \A f : InHand(f)' <=> InHand(f)
    BY <2>1 DEF InHand
  <2>3. QED
    BY <1>3, <2>1, <2>2
<1>5. CASE \/ Disclose \/ Report \/ Reconcile \/ Summarize \/ PassGate
           \/ AnswerQuestion \/ StartFold \/ PassDenied \/ FoldAnswers
  <2>1. /\ UNCHANGED <<proposals, decisions>>
        /\ phase \notin {"question", "proposal", "blocked", "dead"} /\ phase' \notin {"question", "proposal"}
    BY <1>5 DEF Disclose, Report, Reconcile, Summarize, PassGate, AnswerQuestion, StartFold,
                PassDenied, FoldAnswers, control, rows
  <2>2. \A f : ~InHand(f)' /\ ~InHand(f)
    BY <2>1 DEF InHand
  <2>3. QED
    BY <1>3, <2>1, <2>2
<1>6. CASE BlockGate \/ Abort \/ Die
  BY <1>6 DEF BlockGate, Abort, Die
<1>7. CASE UNCHANGED vars
  <2>1. UNCHANGED <<phase, pending, proposals, decisions>>
    BY <1>7 DEF vars, control, rows
  <2>2. \A f : InHand(f)' <=> InHand(f)
    BY <2>1 DEF InHand
  <2>3. QED
    BY <1>3, <2>1, <2>2
<1>8. QED
  BY <1>1, <1>2, <1>4, <1>5, <1>6, <1>7 DEF Next

-----------------------------------------------------------------------------
(* A disclosure all of whose answers are denied stays in the document.       *)
DeniedIsKept ==
  phase = "passed" => \A k \in Disclosures :
    Denied(k) # {} /\ Decided(k) = {} => open[k] # "absent"

LEMMA DeniedStep ==
  ASSUME DocumentsInPlace, DeniedIsKept, [Next]_vars
  PROVE  DeniedIsKept'
<1>1. CASE PassGate
  <2>1. UNCHANGED answers /\ (phase' = "passed" => DOMAIN answers = {})
    BY <1>1 DEF PassGate, rows, operator, DocumentsInPlace
  <2>2. QED
    BY <2>1 DEF DeniedIsKept, Denied
<1>2. CASE PassDenied
  <2>1. UNCHANGED <<answers, open>> /\ ~OpenDecisionRefusals(open)
    BY <1>2 DEF PassDenied, rows, operator, document
  <2>2. QED
    BY <2>1 DEF DeniedIsKept, Denied, Decided, OpenDecisionRefusals
<1>3. CASE FoldAnswers
  <2>1. PICK p \in Revised(open) : ~OpenDecisionRefusals(p) /\ open' = p
    BY <1>3 DEF FoldAnswers
  <2>2. UNCHANGED answers
    BY <1>3 DEF FoldAnswers
  <2>3. \A k \in Disclosures : Denied(k)' = Denied(k) /\ Decided(k)' = Decided(k)
    BY <2>2 DEF Denied, Decided
  <2>4. QED
    BY <2>1, <2>3 DEF DeniedIsKept, OpenDecisionRefusals
<1>4. CASE \/ Disclose \/ Report \/ Reconcile \/ StoreDecision \/ StoreQuestion \/ StoreProposal
           \/ Summarize \/ BlockGate \/ AnswerQuestion \/ StartFold \/ Abort \/ Die
  <2>1. phase' # "passed"
    BY <1>4 DEF Disclose, Report, Reconcile, StoreDecision, StoreQuestion, StoreProposal, Summarize,
                BlockGate, AnswerQuestion, StartFold, Abort, Die, control
  <2>2. QED
    BY <2>1 DEF DeniedIsKept
<1>5. CASE UNCHANGED vars
  BY <1>5 DEF vars, control, document, rows, operator, DeniedIsKept, Denied, Decided
<1>6. QED
  BY <1>1, <1>2, <1>3, <1>4, <1>5, Zenon DEF Next

-----------------------------------------------------------------------------
(* The review stages of spec-stage.ts and plan-stage.ts: no review passes    *)
(* with a finding of any round unanswered, or with a blocking answer that    *)
(* did not become a question for the operator.                               *)
THEOREM AnsweredHolds == Spec => []EveryFindingIsAnswered
<1>1. ReviewInv => EveryFindingIsAnswered
  BY DEF ReviewInv, RowsAreSound, FindingsAreTracked, EveryFindingIsAnswered, Reviewed, Blocked
<1>2. QED
  BY <1>1, ReviewInvHolds, PTL

(* validateReconciliation and the order of the writes of a round: at every   *)
(* moment, also after a throw or a crash, a stored question belongs to a     *)
(* stored decision its author chose.                                         *)
THEOREM AskedHolds == Spec => []OnlyAuthorsAsk
<1>1. ReviewInv => OnlyAuthorsAsk
  BY DEF ReviewInv, RowsAreSound, OnlyAuthorsAsk, Validated, Sound
<1>2. QED
  BY <1>1, ReviewInvHolds, PTL

(* What validateReconciliation consumes, over every round and the fold of    *)
(* spec-decision-stage.ts: in a review that passed, each copy of a normative *)
(* node that came or went is claimed exactly once.  No decision of it is a   *)
(* converted one, whose released claims the review would have blocked on.    *)
THEOREM ChangesHold == Spec => []ChangesAreOwned
<1> DEFINE Inv == ReviewInv /\ DocumentsInPlace /\ ChangesAreTracked
<1>1. Init => Inv
  BY SoundInit, TrackedInit, DocumentsInit, TrackedChangesInit DEF ReviewInv
<1>2. Inv /\ [Next]_vars => Inv'
  BY SoundStep, TrackedStep, DocumentsStep, TrackedChangesStep DEF ReviewInv
<1>3. Inv => ChangesAreOwned
  <2> SUFFICES ASSUME Inv PROVE ChangesAreOwned
    OBVIOUS
  <2>1. ASSUME Reviewed, NEW f \in DOMAIN decisions PROVE ~decisions[f].converted
    <3>1. decisions[f] \in Validated
      BY DEF ReviewInv, RowsAreSound
    <3>2. f \notin questions => decisions[f].disposition \notin BLOCKING_DISPOSITIONS
      BY <2>1 DEF ReviewInv, FindingsAreTracked, Blocked
    <3>3. f \in questions => decisions[f].question
      BY DEF ReviewInv, RowsAreSound
    <3>4. QED
      BY <3>1, <3>2, <3>3 DEF Validated, Sound, BLOCKING_DISPOSITIONS
  <2>2. ASSUME Reviewed, NEW r \in 1..Rounds
        PROVE  Owned(revisions[r], revisions[r + 1], ClaimsOf(decisions), At(r))
    BY <2>1, <2>2 DEF ChangesAreTracked, RoundIsOwned, At
  <2>3. phase = "passed" => Owned(revisions[Rounds + 1], Current, folded, DOMAIN folded)
    BY DEF ChangesAreTracked
  <2>4. QED
    BY <2>2, <2>3, Zenon DEF ChangesAreOwned, Owned, ClaimsOf, At
<1> HIDE DEF Inv
<1>4. QED
  BY <1>1, <1>2, <1>3, PTL DEF Spec

(* The state of runSpecStage, runPlanStage and the fold has the types of     *)
(* their rows and variables.                                                 *)
THEOREM TypesHold == Spec => []TypeOK
<1> DEFINE Inv == RowsAreSound /\ DocumentsInPlace
<1>1. Init => Inv
  BY SoundInit, DocumentsInit
<1>2. Inv /\ [Next]_vars => Inv'
  BY SoundStep, DocumentsStep
<1>3. Inv => TypeOK
  <2> SUFFICES ASSUME Inv PROVE TypeOK
    OBVIOUS
  <2>1. pending \in Seq([finding : findings, decision : [disposition : DISPOSITIONS,
          grounded : BOOLEAN, claims : Documents, proposal : SUBSET Topics,
          question : BOOLEAN, converted : BOOLEAN]])
    <3>1. pending \in Seq(Entries) /\ \A i \in 1..Len(pending) : pending[i].finding \in findings
      BY DEF RowsAreSound
    <3>2. ASSUME NEW e \in Entries, e.finding \in findings
          PROVE  e \in [finding : findings, decision : [disposition : DISPOSITIONS,
                   grounded : BOOLEAN, claims : Documents, proposal : SUBSET Topics,
                   question : BOOLEAN, converted : BOOLEAN]]
      BY <3>2 DEF Entries, Validated
    <3> DEFINE typed == [finding : findings, decision : [disposition : DISPOSITIONS,
                   grounded : BOOLEAN, claims : Documents, proposal : SUBSET Topics,
                   question : BOOLEAN, converted : BOOLEAN]]
    <3>3. \A e \in Entries : e.finding \in findings => e \in typed
      BY <3>2
    <3> HIDE DEF typed
    <3>4. \A i \in 1..Len(pending) : pending[i] \in typed
      BY <3>1, <3>3
    <3>5. pending \in Seq(typed)
      BY <3>1, <3>4
    <3>6. QED
      BY <3>5 DEF typed
  <2>2. QED
    BY <2>1 DEF RowsAreSound, DocumentsInPlace, TypeOK
<1> HIDE DEF Inv
<1>4. QED
  BY <1>1, <1>2, <1>3, PTL DEF Spec

(* upsertProposal and the order of a round's writes: between the writes of   *)
(* a round and after them, each upstream concern is under exactly one row,   *)
(* of the route it was last given.                                           *)
THEOREM UpstreamHolds == Spec => []UpstreamIsFiled
<1> DEFINE Inv == RowsAreSound /\ UpstreamIsTracked
<1>1. Init => Inv
  BY SoundInit, UpstreamInit
<1>2. Inv /\ [Next]_vars => Inv'
  BY SoundStep, UpstreamStep
<1>3. Inv => UpstreamIsFiled
  BY DEF UpstreamIsTracked, InHand, FiledOnce, UpstreamIsFiled
<1> HIDE DEF Inv
<1>4. QED
  BY <1>1, <1>2, <1>3, PTL DEF Spec

(* openDecisionRefusals and the gate of spec-stage.ts: an entry the author   *)
(* disclosed is gone from a review that passed only if the author's own      *)
(* decision did not block, or the operator approved or modified it.          *)
THEOREM DisclosuresHold == Spec => []DisclosuresAreSettled
<1> DEFINE Inv == ReviewInv /\ DocumentsInPlace /\ DeniedIsKept
<1>1. Init => Inv
  BY SoundInit, TrackedInit, DocumentsInit DEF ReviewInv, Init, DeniedIsKept
<1>2. Inv /\ [Next]_vars => Inv'
  BY SoundStep, TrackedStep, DocumentsStep, DeniedStep DEF ReviewInv
<1>3. Inv => DisclosuresAreSettled
  <2> SUFFICES ASSUME Inv, phase = "passed", NEW f \in findings,
                      f.key \in Disclosures, open[f.key] = "absent",
                      decisions[f].disposition \in BLOCKING_DISPOSITIONS
               PROVE  Decided(f.key) # {}
    BY DEF DisclosuresAreSettled
  <2>1. f \in DOMAIN answers
    BY DEF ReviewInv, FindingsAreTracked, Reviewed, Blocked, DocumentsInPlace
  <2>2. f \in Denied(f.key) \/ f \in Decided(f.key)
    BY <2>1 DEF Denied, Decided
  <2>3. QED
    BY <2>2 DEF DeniedIsKept
<1> HIDE DEF Inv
<1>4. QED
  BY <1>1, <1>2, <1>3, PTL DEF Spec
=============================================================================
