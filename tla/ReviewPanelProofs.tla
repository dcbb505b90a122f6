------------------------- MODULE ReviewPanelProofs -------------------------
(***************************************************************************)
(* The outcome of every child process that a code review acts on is the    *)
(* outcome of the process, and a review that passes deserves it, for any   *)
(* number of reviewers, rounds and paths and any fault of the children.    *)
(***************************************************************************)
EXTENDS ReviewPanel, FiniteSetTheorems, SequenceTheorems, WellFoundedInduction, TLAPS

-----------------------------------------------------------------------------
(* A set that holds 0 and the successor of each of its elements holds every  *)
(* number: induction, for a set in place of a predicate.                     *)
LEMMA NumbersAreReached ==
  ASSUME NEW P \in SUBSET Nat, 0 \in P, \A n \in P : n + 1 \in P
  PROVE  P = Nat
<1> DEFINE R == {ss \in Nat \X Nat : ss[1] < ss[2]}
<1>1. IsWellFoundedOn(R, Nat)
  BY NatLessThanWellFounded DEF OpToRel
<1> HIDE DEF R
<1> SUFFICES ASSUME Nat \ P # {} PROVE FALSE
  OBVIOUS
<1>2. PICK x \in Nat \ P : \A y \in Nat \ P : ~(<<y, x>> \in R)
  BY <1>1, WFMin
<1>3. \A y \in Nat \ P : ~(y < x)
  BY <1>2 DEF R
<1>4. x # 0
  BY <1>2
<1>5. QED
  BY <1>2, <1>3, <1>4

(* A bounded set of numbers has a largest one. *)
LEMMA MaxIsLargest ==
  ASSUME NEW S \in SUBSET Nat, S # {}, NEW n \in Nat, \A x \in S : x <= n
  PROVE  Max(S) \in S /\ \A y \in S : Max(S) >= y
<1> DEFINE P == {k \in Nat : (\A x \in S : x <= k) => \E x \in S : \A y \in S : x >= y}
<1>1. 0 \in P
  <2> SUFFICES ASSUME \A x \in S : x <= 0 PROVE \E x \in S : \A y \in S : x >= y
    OBVIOUS
  <2>1. \A x \in S : x = 0
    OBVIOUS
  <2>2. QED
    BY <2>1
<1>2. ASSUME NEW k \in P PROVE k + 1 \in P
  <2> SUFFICES ASSUME \A x \in S : x <= k + 1 PROVE \E x \in S : \A y \in S : x >= y
    OBVIOUS
  <2>1. CASE k + 1 \in S
    BY <2>1
  <2>2. CASE k + 1 \notin S
    <3>1. \A x \in S : x <= k
      BY <2>2
    <3>2. QED
      BY <3>1
  <2>3. QED
    BY <2>1, <2>2
<1>3. P = Nat
  <2> HIDE DEF P
  <2>1. P \in SUBSET Nat
    BY DEF P
  <2>2. QED
    BY <1>1, <1>2, <2>1, NumbersAreReached
<1>4. \E x \in S : \A y \in S : x >= y
  BY <1>3
<1>5. QED
  BY <1>4 DEF Max

(* SetToSeq lists each element of a finite set. *)
LEMMA SetIsListed ==
  ASSUME NEW S, IsFiniteSet(S)
  PROVE  SetToSeq(S) \in Seq(S) /\ Range(SetToSeq(S)) = S
<1>1. PICK n \in Nat : ExistsBijection(1..n, S)
  BY FS_NatBijection
<1>2. Cardinality(S) = n
  BY <1>1, FS_CountingElements
<1>3. PICK f \in [1..n -> S] : IsInjective(f)
  BY <1>1 DEF ExistsBijection, Bijection, Injection
<1> DEFINE g == SetToSeq(S)
<1>4. g \in [1..n -> S] /\ IsInjective(g)
  BY <1>2, <1>3 DEF SetToSeq
<1> HIDE DEF g
<1>5. IsFiniteSet(1..n) /\ Cardinality(1..n) = n
  BY FS_Interval
<1>6. g \in Injection(1..n, S)
  BY <1>4 DEF Injection
<1>7. g \in Surjection(1..n, S)
  BY <1>2, <1>5, <1>6, FS_Injection
<1>8. g \in Seq(S)
  BY <1>4, SeqDef
<1>9. Range(g) = S
  BY <1>4, <1>7 DEF Surjection, Range
<1>10. QED
  BY <1>8, <1>9 DEF g

-----------------------------------------------------------------------------
(* What FlattenSeq makes of the first k of some sequences: it holds their    *)
(* elements and no others, in their order.                                   *)
Flattens(t, ss, k) ==
  /\ \A m \in 1..k : Range(ss[m]) \subseteq Range(t)
  /\ \A a, b \in DOMAIN t : a <= b =>
       \E i, j \in 1..k : i <= j /\ t[a] \in Range(ss[i]) /\ t[b] \in Range(ss[j])

LEMMA OneMoreFlattens ==
  ASSUME NEW S, NEW t \in Seq(S), NEW ss, NEW k \in Nat, Flattens(t, ss, k), ss[k + 1] \in Seq(S)
  PROVE  t \o ss[k + 1] \in Seq(S) /\ Flattens(t \o ss[k + 1], ss, k + 1)
<1> DEFINE u == ss[k + 1]
           v == t \o u
<1>1. PICK p \in Nat : p = Len(t) /\ DOMAIN t = 1..p
  BY LenProperties
<1>2. PICK q \in Nat : q = Len(u) /\ DOMAIN u = 1..q
  BY LenProperties
<1>3. /\ v \in Seq(S) /\ Len(v) = p + q
      /\ \A i \in 1..(p + q) : v[i] = IF i <= p THEN t[i] ELSE u[i - p]
  BY <1>1, <1>2, ConcatProperties
<1>4. DOMAIN v = 1..(p + q)
  BY <1>3, LenProperties
<1> HIDE DEF v
<1>5. \A i \in 1..p : v[i] = t[i] /\ i \in DOMAIN v
  BY <1>3, <1>4
<1>6. \A i \in 1..q : v[p + i] = u[i] /\ p + i \in DOMAIN v
  BY <1>3, <1>4
<1>7. \A i \in DOMAIN v : i \in 1..p \/ (i > p /\ v[i] \in Range(u))
  <2> SUFFICES ASSUME NEW i \in DOMAIN v, i \notin 1..p PROVE i > p /\ v[i] \in Range(u)
    OBVIOUS
  <2>1. i - p \in 1..q /\ i > p
    BY <1>4
  <2>2. v[i] = u[i - p]
    BY <1>3, <1>4, <2>1
  <2>3. QED
    BY <1>2, <2>1, <2>2 DEF Range
<1>8. \A m \in 1..(k + 1) : Range(ss[m]) \subseteq Range(v)
  <2>1. Range(t) \subseteq Range(v)
    BY <1>1, <1>5 DEF Range
  <2>2. Range(u) \subseteq Range(v)
    BY <1>2, <1>6 DEF Range
  <2>3. \A m \in 1..(k + 1) : m \in 1..k \/ m = k + 1
    OBVIOUS
  <2>4. QED
    BY <2>1, <2>2, <2>3 DEF Flattens
<1>9. ASSUME NEW a \in DOMAIN v, NEW b \in DOMAIN v, a <= b
      PROVE  \E i, j \in 1..(k + 1) : i <= j /\ v[a] \in Range(ss[i]) /\ v[b] \in Range(ss[j])
  <2>0. a \in Int /\ b \in Int
    BY <1>4
  <2>1. CASE b \in 1..p
    <3>1. a \in 1..p
      BY <1>4, <1>9, <2>1
    <3>2. PICK i \in 1..k : \E j \in 1..k : i <= j /\ t[a] \in Range(ss[i]) /\ t[b] \in Range(ss[j])
      BY <1>1, <1>9, <2>1, <3>1 DEF Flattens
    <3>3. PICK j \in 1..k : i <= j /\ t[a] \in Range(ss[i]) /\ t[b] \in Range(ss[j])
      BY <3>2
    <3>4. i \in 1..(k + 1) /\ j \in 1..(k + 1)
      OBVIOUS
    <3>5. QED
      BY <1>5, <2>1, <3>1, <3>3, <3>4
  <2>2. CASE b \notin 1..p /\ a \in 1..p
    <3>1. v[b] \in Range(ss[k + 1])
      BY <1>7, <2>2
    <3>2. a <= a
      BY <2>0
    <3>3. PICK i \in 1..k : t[a] \in Range(ss[i])
      BY <1>1, <2>2, <3>2 DEF Flattens
    <3>4. i \in 1..(k + 1) /\ k + 1 \in 1..(k + 1) /\ i <= k + 1
      OBVIOUS
    <3>5. QED
      BY <1>5, <2>2, <3>1, <3>3, <3>4
  <2>3. CASE b \notin 1..p /\ a \notin 1..p
    <3>1. v[a] \in Range(ss[k + 1]) /\ v[b] \in Range(ss[k + 1])
      BY <1>7, <2>3
    <3>2. k + 1 \in 1..(k + 1) /\ k + 1 <= k + 1
      OBVIOUS
    <3>3. QED
      BY <3>1, <3>2
  <2>4. QED
    BY <2>1, <2>2, <2>3
<1>10. QED
  BY <1>3, <1>8, <1>9 DEF Flattens, v

(* FlattenSeq is defined by recursion; that there is such a function, and    *)
(* what it is, follows by counting up to the length.                         *)
LEMMA FlattenedInOrder ==
  ASSUME NEW S, NEW n \in Nat, NEW ss \in [1..n -> Seq(S)]
  PROVE  FlattenSeq(ss) \in Seq(S) /\ Flattens(FlattenSeq(ss), ss, n)
<1>1. ss \in Seq(Seq(S)) /\ Len(ss) = n
  <2>1. ss \in Seq(Seq(S))
    BY SeqDef
  <2>2. DOMAIN ss = 1..n /\ DOMAIN ss = 1..Len(ss) /\ Len(ss) \in Nat
    BY <2>1, LenProperties
  <2>3. QED
    BY <2>1, <2>2
<1>2. CASE n = 0
  <2>1. ss = <<>>
    BY <1>1, <1>2, EmptySeq
  <2>2. FlattenSeq(ss) = <<>>
    BY <1>1, <1>2, <2>1 DEF FlattenSeq
  <2>3. <<>> \in Seq(S) /\ DOMAIN <<>> = {}
    BY EmptySeq, LenProperties
  <2>4. 1..0 = {}
    OBVIOUS
  <2>5. QED
    BY <1>2, <2>2, <2>3, <2>4 DEF Flattens
<1>3. CASE n # 0
  <2> DEFINE Is(f, k) == f = [i \in 1..k |-> IF i = 1 THEN ss[i] ELSE f[i - 1] \o ss[i]]
             P == {k \in Nat : \E f : Is(f, k)}
  <2>1. 0 \in P
    <3>1. Is(<<>>, 0)
      OBVIOUS
    <3>2. QED
      BY <3>1
  <2>2. ASSUME NEW k \in P PROVE k + 1 \in P
    <3>1. PICK f : Is(f, k)
      OBVIOUS
    <3> DEFINE last == IF k + 1 = 1 THEN ss[k + 1] ELSE f[k] \o ss[k + 1]
               g == [i \in 1..(k + 1) |-> IF i = k + 1 THEN last ELSE f[i]]
    <3>2. ASSUME NEW i \in 1..(k + 1)
          PROVE  g[i] = IF i = 1 THEN ss[i] ELSE g[i - 1] \o ss[i]
      <4>1. CASE i = k + 1
        <5>1. g[i] = last
          BY <4>1
        <5>2. i # 1 => i - 1 \in 1..(k + 1) /\ i - 1 # k + 1 /\ i - 1 = k
          BY <4>1
        <5>3. i # 1 => g[i - 1] = f[k]
          BY <5>2
        <5>4. QED
          BY <4>1, <5>1, <5>3
      <4>2. CASE i # k + 1
        <5>1. i \in 1..k /\ g[i] = f[i]
          BY <4>2
        <5>2. f[i] = IF i = 1 THEN ss[i] ELSE f[i - 1] \o ss[i]
          BY <3>1, <5>1
        <5>3. i # 1 => i - 1 \in 1..(k + 1) /\ i - 1 # k + 1
          BY <4>2
        <5>4. i # 1 => g[i - 1] = f[i - 1]
          BY <5>3
        <5>5. QED
          BY <5>1, <5>2, <5>4
      <4>3. QED
        BY <4>1, <4>2
    <3>3. g = [i \in 1..(k + 1) |-> g[i]]
      OBVIOUS
    <3> HIDE DEF g
    <3>4. Is(g, k + 1)
      BY <3>2, <3>3, Zenon
    <3> HIDE DEF Is
    <3>5. k + 1 \in Nat /\ \E f1 : Is(f1, k + 1)
      BY <3>4
    <3>6. QED
      BY <3>5
  <2>3. P = Nat
    <3> HIDE DEF P
    <3>1. P \in SUBSET Nat
      BY DEF P
    <3>2. QED
      BY <2>1, <2>2, <3>1, NumbersAreReached
  <2>4. \E f : Is(f, n)
    BY <2>3
  <2> DEFINE flat == CHOOSE f : Is(f, n)
  <2>5. Is(flat, n)
    BY <2>4
  <2>6. FlattenSeq(ss) = flat[n]
    BY <1>1, <1>3 DEF FlattenSeq
  <2> HIDE DEF flat
  <2> DEFINE Q == {k \in Nat : k + 1 <= n => flat[k + 1] \in Seq(S) /\ Flattens(flat[k + 1], ss, k + 1)}
  <2>7. 0 \in Q
    <3>1. flat[1] = ss[1] /\ ss[1] \in Seq(S)
      BY <1>3, <2>5
    <3>2. <<>> \in Seq(S) /\ DOMAIN <<>> = {} /\ <<>> \o ss[1] = ss[1]
      BY <3>1, EmptySeq, LenProperties, ConcatEmptySeq
    <3>3. Flattens(<<>>, ss, 0)
      BY <3>2 DEF Flattens
    <3>4. 0 + 1 = 1 /\ 0 \in Nat
      OBVIOUS
    <3>5. ss[1] \in Seq(S) /\ Flattens(ss[1], ss, 1)
      BY <3>1, <3>2, <3>3, <3>4, OneMoreFlattens
    <3>6. QED
      BY <3>1, <3>4, <3>5
  <2>8. ASSUME NEW k \in Q PROVE k + 1 \in Q
    <3> SUFFICES ASSUME k + 2 <= n
                 PROVE  flat[k + 2] \in Seq(S) /\ Flattens(flat[k + 2], ss, k + 2)
      OBVIOUS
    <3>1. k + 1 \in Nat /\ k + 1 <= n /\ k + 2 \in 1..n /\ k + 2 # 1 /\ (k + 2) - 1 = k + 1
          /\ (k + 1) + 1 = k + 2
      OBVIOUS
    <3>2. flat[k + 2] = flat[k + 1] \o ss[k + 2] /\ ss[k + 2] \in Seq(S)
      BY <2>5, <3>1
    <3>3. flat[k + 1] \in Seq(S) /\ Flattens(flat[k + 1], ss, k + 1)
      BY <3>1
    <3>4. QED
      BY <3>1, <3>2, <3>3, OneMoreFlattens
  <2>9. Q = Nat
    <3> HIDE DEF Q
    <3>1. Q \in SUBSET Nat
      BY DEF Q
    <3>2. QED
      BY <2>7, <2>8, <3>1, NumbersAreReached
  <2>10. n - 1 \in Nat /\ n - 1 + 1 <= n /\ n - 1 + 1 = n
    BY <1>3
  <2>11. n - 1 \in Q
    BY <2>9, <2>10
  <2>12. flat[n] \in Seq(S) /\ Flattens(flat[n], ss, n)
    BY <2>10, <2>11
  <2>13. QED
    BY <2>6, <2>12
<1>4. QED
  BY <1>2, <1>3

-----------------------------------------------------------------------------
(* What an invocation may know of its child at any moment.                   *)
Children == [at : {"idle", "running", "ending", "settled"},
             os : {"none", "alive", "zombie", "reaped"},
             code : {"none", "zero", "nonzero", "signal"},
             pipe : BOOLEAN, wrote : Nat, sent : Nat, kept : Nat,
             limit : BOOLEAN, idle : BOOLEAN, grace : BOOLEAN,
             timedOut : BOOLEAN, spawnError : BOOLEAN, killError : BOOLEAN,
             overflow : BOOLEAN, evidenceError : BOOLEAN, lost : BOOLEAN]

(* An invocation that was given up looks clean only if its process was       *)
(* reaped, and leaves a living process behind only after a kill that failed. *)
GivenUp(c) ==
  /\ InTime(c) => c.os = "reaped"
  /\ c.os = "alive" => c.killError

(* The grace period runs only after the exit. *)
Honest(c) ==
  /\ c.at \in {"ending", "settled"} => GivenUp(c)
  /\ c.grace => c.os = "reaped"

Truthful(c) == c \in Children /\ Honest(c)

ChildrenAreTrue == child \in [Jobs -> Children] /\ \A j \in Jobs : Honest(child[j])

LEMMA IdleIsTrue == Truthful(Idle)
BY DEF Truthful, Honest, GivenUp, InTime, Children, Idle

(* The field-wise changes that the callbacks are made of. *)
LEMMA EndedIsTrue ==
  ASSUME NEW c \in Children, GivenUp(c)
  PROVE  Truthful(Ended(c))
<1> DEFINE b == c.kept # c.wrote
           d1 == [Idle EXCEPT !.at = "settled", !.os = c.os, !.code = c.code]
           d2 == [d1 EXCEPT !.timedOut = c.timedOut, !.spawnError = c.spawnError,
                            !.killError = c.killError]
           d3 == [d2 EXCEPT !.overflow = c.overflow, !.evidenceError = c.evidenceError,
                            !.lost = b]
<1>1. Ended(c) = d3
  BY DEF Ended
<1>2. b \in BOOLEAN
  OBVIOUS
<1> HIDE DEF b
<1>3. /\ d1 \in Children
      /\ d1.at = "settled" /\ d1.os = c.os /\ d1.code = c.code /\ d1.grace = FALSE
  BY IdleIsTrue DEF Idle, Children
<1> HIDE DEF d1
<1>4. /\ d2 \in Children
      /\ d2.at = d1.at /\ d2.os = d1.os /\ d2.code = d1.code /\ d2.grace = d1.grace
      /\ d2.timedOut = c.timedOut /\ d2.spawnError = c.spawnError
      /\ d2.killError = c.killError
  BY <1>3 DEF Children
<1> HIDE DEF d2
<1>5. /\ d3 \in Children
      /\ d3.at = d2.at /\ d3.os = d2.os /\ d3.code = d2.code /\ d3.grace = d2.grace
      /\ d3.timedOut = d2.timedOut /\ d3.spawnError = d2.spawnError
      /\ d3.killError = d2.killError /\ d3.overflow = c.overflow
  BY <1>2, <1>4 DEF Children
<1> HIDE DEF d3
<1>6. QED
  BY <1>1, <1>3, <1>4, <1>5 DEF Truthful, Honest, GivenUp, InTime

LEMMA SettleIsTrue ==
  ASSUME NEW j \in Jobs, NEW c \in Children, GivenUp(c)
  PROVE  Truthful(Settle(j, c))
<1>1. CASE j \in Commands
  <2> DEFINE d == [c EXCEPT !.at = "ending", !.limit = FALSE, !.idle = FALSE, !.grace = FALSE]
  <2>1. d \in Children /\ d.at = "ending" /\ d.os = c.os /\ d.code = c.code
        /\ d.timedOut = c.timedOut /\ d.spawnError = c.spawnError
        /\ d.killError = c.killError /\ d.overflow = c.overflow /\ d.grace = FALSE
    BY DEF Children
  <2>2. Settle(j, c) = d
    BY <1>1 DEF Settle
  <2> HIDE DEF d
  <2>3. QED
    BY <2>1, <2>2 DEF Truthful, Honest, GivenUp, InTime
<1>2. CASE j \notin Commands
  BY <1>2, EndedIsTrue DEF Settle
<1>3. QED
  BY <1>1, <1>2

LEMMA KilledIsTrue ==
  ASSUME NEW c \in Children, c.at = "running", c.os # "reaped", Honest(c)
  PROVE  Truthful(Killed(c))
<1>1. Killed(c) \in Children /\ Killed(c).at = "running" /\ Killed(c).grace = c.grace
  BY DEF Killed, Children
<1>2. QED
  BY <1>1 DEF Truthful, Honest

LEMMA KillsAreTrue ==
  ASSUME NEW j \in Jobs, NEW c \in Children, c.at = "running", Honest(c), c.timedOut,
         NEW d \in KillOutcomes(j, c)
  PROVE  Truthful(d)
<1> DEFINE f == [c EXCEPT !.killError = TRUE]
<1>1. f \in Children /\ f.killError /\ f.timedOut
  BY DEF Children
<1>2. d = Settle(j, f) \/ (c.os # "reaped" /\ d = Killed(c))
  BY DEF KillOutcomes
<1> HIDE DEF f
<1>3. GivenUp(f)
  BY <1>1 DEF GivenUp, InTime
<1>4. QED
  BY <1>1, <1>2, <1>3, SettleIsTrue, KilledIsTrue

(* A time limit that fires. *)
LEMMA TimeoutsAreTrue ==
  ASSUME NEW j \in Jobs, NEW c \in Children, c.at = "running", Honest(c), NEW d \in Timeout(j, c)
  PROVE  Truthful(d)
<1> DEFINE t == [c EXCEPT !.timedOut = TRUE]
<1>1. t \in Children /\ t.at = "running" /\ t.timedOut /\ t.grace = c.grace /\ t.os = c.os
  BY DEF Children
<1>2. d = c \/ d \in KillOutcomes(j, t)
  BY DEF Timeout
<1> HIDE DEF t
<1>3. Honest(t)
  BY <1>1 DEF Honest
<1>4. QED
  BY <1>1, <1>2, <1>3, KillsAreTrue DEF Truthful

(* A command that fills its evidence file. *)
LEMMA RetentionIsTrue ==
  ASSUME NEW j \in Jobs, NEW c \in Children, Honest(c), NEW d \in KillForRetention(j, c)
  PROVE  Truthful(d)
<1> DEFINE o == [c EXCEPT !.overflow = TRUE]
           f == [o EXCEPT !.killError = TRUE]
<1>1. o \in Children /\ o.at = c.at /\ o.grace = c.grace /\ o.os = c.os
  BY DEF Children
<1>2. f \in Children /\ f.at = c.at /\ f.grace = c.grace /\ f.os = c.os
  BY DEF Children
<1>3. d = c \/ (c.at = "running" /\ (d = f \/ (c.os # "reaped" /\ d = Killed(o))))
  BY DEF KillForRetention
<1> HIDE DEF o, f
<1>4. QED
  BY <1>1, <1>2, <1>3, KilledIsTrue DEF Truthful, Honest

LEMMA KeptIsTrue ==
  ASSUME NEW c \in Children, Honest(c)
  PROVE  /\ Truthful(Kept(c)) /\ Kept(c).at = c.at
<1>1. Min({Ceiling, c.kept + c.sent}) \in Nat
  <2>1. c.kept + c.sent \in Nat /\ Ceiling \in Nat
    BY JobsAssumption DEF Children
  <2> DEFINE S == {Ceiling, c.kept + c.sent}
  <2>2. \E x \in S : \A y \in S : x =< y
    BY <2>1
  <2>3. Min(S) \in S
    BY <2>2 DEF Min
  <2>4. QED
    BY <2>1, <2>3
<1> DEFINE m == Min({Ceiling, c.kept + c.sent})
           v == c.overflow \/ c.sent > Room(c)
           k == [c EXCEPT !.sent = 0, !.kept = m, !.overflow = v]
<1>2. Kept(c) = k /\ v \in BOOLEAN /\ m \in Nat
  BY <1>1 DEF Kept, Children
<1> HIDE DEF m, v
<1>3. k \in Children /\ k.at = c.at /\ k.os = c.os /\ k.code = c.code /\ k.timedOut = c.timedOut
      /\ k.spawnError = c.spawnError /\ k.killError = c.killError /\ k.grace = c.grace
      /\ k.overflow = v
  BY <1>2 DEF Children
<1> HIDE DEF k
<1>4. c.overflow => v
  BY DEF v
<1>5. QED
  BY <1>2, <1>3, <1>4 DEF Truthful, Honest, GivenUp, InTime

LEMMA LaunchedIsTrue ==
  ASSUME NEW j \in Jobs, NEW c \in Launched(j)
  PROVE  Truthful(c)
<1> DEFINE b == j \in Agents
           n == [Idle EXCEPT !.at = "running", !.os = "alive", !.pipe = TRUE, !.limit = TRUE,
                             !.idle = b]
           e == [Idle EXCEPT !.spawnError = TRUE]
<1>1. b \in BOOLEAN /\ (c = n \/ c = Settle(j, e))
  BY DEF Launched
<1> HIDE DEF b
<1>2. n \in Children /\ n.at = "running" /\ n.grace = FALSE
  BY <1>1 DEF Idle, Children
<1>3. e \in Children /\ e.spawnError /\ e.os = "none"
  BY DEF Idle, Children
<1> HIDE DEF n, e
<1>4. GivenUp(e)
  BY <1>3 DEF GivenUp, InTime
<1>5. QED
  BY <1>1, <1>2, <1>3, <1>4, SettleIsTrue DEF Truthful, Honest

(* Each step of a process replaces what is known of one child. *)
LEMMA OneChild ==
  ASSUME ChildrenAreTrue, NEW j \in Jobs, NEW d, Truthful(d), child' = [child EXCEPT ![j] = d]
  PROVE  ChildrenAreTrue'
BY DEF ChildrenAreTrue, Truthful

LEMMA ChildStepIsTrue ==
  ASSUME ChildrenAreTrue, NEW j \in Jobs, ChildStep(j)
  PROVE  ChildrenAreTrue'
<1> DEFINE c == child[j]
<1>1. c \in Children /\ Honest(c) /\ child \in [Jobs -> Children]
  BY DEF ChildrenAreTrue
<1>2. CASE ChildWrites(j)
  <2> DEFINE w == c.wrote + 1
             t == c.sent + 1
             m == [c EXCEPT !.wrote = w]
             d == [m EXCEPT !.sent = t]
  <2>0. w \in Nat /\ t \in Nat
    BY <1>1 DEF Children
  <2>1. child' = [child EXCEPT ![j] = d]
    <3> DEFINE one == [child EXCEPT ![j] = m]
    <3>1. child' = [one EXCEPT ![j] = [one[j] EXCEPT !.sent = t]]
      BY <1>2, Zenon DEF ChildWrites
    <3> HIDE DEF m, w, t
    <3>2. one[j] = m
      BY <1>1
    <3>3. \A e : [one EXCEPT ![j] = e] = [child EXCEPT ![j] = e]
      BY <1>1
    <3>4. QED
      BY <3>1, <3>2, <3>3, Zenon
  <2> HIDE DEF w, t
  <2>2. d \in Children /\ \A f \in DOMAIN Idle \ {"wrote", "sent"} : d[f] = c[f]
    BY <1>1, <2>0 DEF Children, Idle
  <2> HIDE DEF d
  <2>3. Truthful(d)
    BY <1>1, <2>2 DEF Truthful, Honest, GivenUp, InTime, Idle
  <2>4. QED
    BY <2>1, <2>3, OneChild
<1>3. CASE ChildExits(j)
  <2>1. PICK code \in {"zero", "nonzero"}, held \in BOOLEAN :
          child' = [child EXCEPT ![j].os = "zombie", ![j].code = code, ![j].pipe = held]
    BY <1>3 DEF ChildExits
  <2> DEFINE d == [c EXCEPT !.os = "zombie", !.code = code, !.pipe = held]
  <2>2. child' = [child EXCEPT ![j] = d]
    BY <1>1, <2>1 DEF Children
  <2>3. Truthful(d)
    BY <1>1, <1>3 DEF ChildExits, Waits, Truthful, Honest, GivenUp, InTime, Children
  <2>4. QED
    BY <2>2, <2>3, OneChild
<1>4. CASE OrphanCloses(j)
  <2> DEFINE d == [c EXCEPT !.pipe = FALSE]
  <2>1. child' = [child EXCEPT ![j] = d]
    BY <1>1, <1>4 DEF OrphanCloses, Children
  <2>2. Truthful(d)
    BY <1>1 DEF Truthful, Honest, GivenUp, InTime, Children
  <2>3. QED
    BY <2>1, <2>2, OneChild
<1>5. CASE EvidenceFails(j)
  <2> DEFINE d == [c EXCEPT !.evidenceError = TRUE]
  <2>1. child' = [child EXCEPT ![j] = d]
    BY <1>1, <1>5 DEF EvidenceFails, Children
  <2>2. Truthful(d)
    BY <1>1 DEF Truthful, Honest, GivenUp, InTime, Children
  <2>3. QED
    BY <2>1, <2>2, OneChild
<1>6. QED
  BY <1>2, <1>3, <1>4, <1>5 DEF ChildStep

LEMMA LoopStepIsTrue ==
  ASSUME ChildrenAreTrue, NEW j \in Jobs, LoopStep(j)
  PROVE  ChildrenAreTrue'
<1> DEFINE c == child[j]
<1>1. c \in Children /\ Honest(c) /\ child \in [Jobs -> Children]
  BY DEF ChildrenAreTrue
<1>2. CASE ExitEvent(j)
  <2> DEFINE d == [c EXCEPT !.os = "reaped", !.limit = FALSE, !.idle = FALSE, !.grace = TRUE]
  <2>1. child' = [child EXCEPT ![j] = d]
    BY <1>1, <1>2 DEF ExitEvent, Children
  <2>2. Truthful(d)
    BY <1>1 DEF Truthful, Honest, GivenUp, InTime, Children
  <2>3. QED
    BY <2>1, <2>2, OneChild
<1>3. CASE CloseEvent(j)
  <2>1. Truthful(Settle(j, c))
    BY <1>1, <1>3, SettleIsTrue DEF CloseEvent, GivenUp
  <2>2. QED
    BY <1>3, <2>1, OneChild DEF CloseEvent
<1>4. CASE LimitTimer(j)
  <2> DEFINE e == [c EXCEPT !.limit = FALSE]
  <2>1. PICK d \in Timeout(j, e) : child' = [child EXCEPT ![j] = d]
    BY <1>4 DEF LimitTimer
  <2>2. e \in Children /\ e.at = "running" /\ Honest(e)
    BY <1>1, <1>4 DEF LimitTimer, Waits, Children, Honest
  <2> HIDE DEF e
  <2>3. Truthful(d)
    BY <2>2, TimeoutsAreTrue
  <2>4. QED
    BY <2>1, <2>3, OneChild
<1>5. CASE IdleTimer(j)
  <2> DEFINE e == [c EXCEPT !.idle = FALSE]
  <2>1. PICK d \in Timeout(j, e) : child' = [child EXCEPT ![j] = d]
    BY <1>5 DEF IdleTimer
  <2>2. e \in Children /\ e.at = "running" /\ Honest(e)
    BY <1>1, <1>5 DEF IdleTimer, Waits, Children, Honest
  <2> HIDE DEF e
  <2>3. Truthful(d)
    BY <2>2, TimeoutsAreTrue
  <2>4. QED
    BY <2>1, <2>3, OneChild
<1>6. CASE GraceTimer(j)
  <2> DEFINE e == [c EXCEPT !.grace = FALSE]
  <2>1. child' = [child EXCEPT ![j] = Settle(j, e)]
    BY <1>6 DEF GraceTimer
  <2>2. e \in Children /\ GivenUp(e)
    BY <1>1, <1>6 DEF GraceTimer, Children, Honest, GivenUp
  <2> HIDE DEF e
  <2>3. QED
    BY <2>1, <2>2, SettleIsTrue, OneChild
<1>7. CASE AgentReads(j)
  <2>1. Truthful(Kept(c)) /\ Kept(c).at = "running"
    BY <1>1, <1>7, KeptIsTrue DEF AgentReads, Waits
  <2>2. PICK d \in {Kept(c)} \cup Timeout(j, Kept(c)) :
          child' = [child EXCEPT ![j] =
                      IF Room(c) > 0 /\ d.at = "running" THEN [d EXCEPT !.idle = TRUE] ELSE d]
    BY <1>7 DEF AgentReads
  <2>3. Truthful(d)
    BY <2>1, TimeoutsAreTrue DEF Truthful
  <2> DEFINE e == [d EXCEPT !.idle = TRUE]
  <2>4. Truthful(e)
    BY <2>3 DEF Truthful, Honest, GivenUp, InTime, Children
  <2>5. QED
    BY <2>2, <2>3, <2>4, OneChild
<1>8. CASE CommandReads(j)
  <2>1. Truthful(Kept(c)) /\ c.at \in {"running", "ending"}
    BY <1>1, <1>8, KeptIsTrue DEF CommandReads
  <2>2. PICK d \in {Kept(c)} \cup KillForRetention(j, Kept(c)) :
          child' = [child EXCEPT ![j] =
                      [d EXCEPT !.evidenceError = d.evidenceError \/ c.at = "ending"]]
    BY <1>8 DEF CommandReads
  <2>3. Truthful(d)
    BY <2>1, RetentionIsTrue DEF Truthful
  <2> DEFINE v == d.evidenceError \/ c.at = "ending"
             e == [d EXCEPT !.evidenceError = v]
  <2>4. v \in BOOLEAN
    BY <2>3 DEF Truthful, Children
  <2> HIDE DEF v
  <2>5. Truthful(e)
    BY <2>3, <2>4 DEF Truthful, Honest, GivenUp, InTime, Children
  <2>6. child' = [child EXCEPT ![j] = e]
    BY <2>2 DEF v
  <2>7. QED
    BY <2>5, <2>6, OneChild
<1>9. CASE EvidenceCloses(j)
  <2>1. Truthful(Ended(c))
    BY <1>1, <1>9, EndedIsTrue DEF EvidenceCloses, Honest
  <2>2. QED
    BY <1>9, <2>1, OneChild DEF EvidenceCloses
<1>10. QED
  BY <1>2, <1>3, <1>4, <1>5, <1>6, <1>7, <1>8, <1>9 DEF LoopStep

-----------------------------------------------------------------------------
(* Who works for the stage. *)
LEMMA JobsOfTheStage ==
  /\ Seats \subseteq Agents /\ Seats = Range(Panel)
  /\ Author \in Agents /\ Command \in Jobs /\ Agents \subseteq Jobs
BY PanelAssumption DEF Seats, Agents, Range

(* A dispatch starts the children it has probed and leaves the others alone. *)
LEMMA LaunchIsTrue ==
  ASSUME ChildrenAreTrue, NEW agents \in SUBSET Agents, Launch(agents)
  PROVE  ChildrenAreTrue'
<1>1. PICK probed \in SUBSET agents : \E new \in [probed -> UNION {Launched(a) : a \in probed}] :
         /\ \A a \in probed : new[a] \in Launched(a)
         /\ child' = [j \in Jobs |-> IF j \in probed THEN new[j] ELSE child[j]]
  BY Zenon DEF Launch
<1>2. PICK new : /\ \A a \in probed : new[a] \in Launched(a)
                 /\ child' = [j \in Jobs |-> IF j \in probed THEN new[j] ELSE child[j]]
  BY <1>1
<1>3. \A a \in probed : Truthful(new[a])
  BY <1>2, LaunchedIsTrue DEF Agents
<1>4. QED
  BY <1>2, <1>3 DEF ChildrenAreTrue, Truthful

LEMMA ChildrenStayTrue ==
  ASSUME ChildrenAreTrue, [Next]_vars
  PROVE  ChildrenAreTrue'
<1>1. CASE UNCHANGED child
  BY <1>1 DEF ChildrenAreTrue
<1>2. CASE StartRound
  BY <1>1, <1>2, LaunchIsTrue, JobsOfTheStage DEF StartRound
<1>3. CASE PanelDecides
  <2>1. UNCHANGED child \/ Launch({Author})
    BY <1>3 DEF PanelDecides
  <2>2. QED
    BY <1>1, <2>1, LaunchIsTrue, JobsOfTheStage
<1>4. CASE Remediate
  <2>1. PICK c \in Launched(Command) : child' = [child EXCEPT ![Command] = c]
    BY <1>4 DEF Remediate
  <2>2. QED
    BY <2>1, LaunchedIsTrue, OneChild, JobsOfTheStage
<1>5. CASE Verify
  BY <1>5, IdleIsTrue, OneChild, JobsOfTheStage DEF Verify
<1>6. ASSUME NEW a \in Agents, Dispatched(a) PROVE ChildrenAreTrue'
  BY <1>6, IdleIsTrue, OneChild, JobsOfTheStage DEF Dispatched
<1>7. ASSUME NEW j \in Jobs, Process(j) PROVE ChildrenAreTrue'
  BY <1>7, LoopStepIsTrue, ChildStepIsTrue DEF Process
<1>8. Enter \/ RecordingFails \/ PanelFails \/ RemediationFails \/ Deliver => UNCHANGED child
  BY DEF Enter, RecordingFails, PanelFails, RemediationFails, Deliver
<1>9. ASSUME NEW j \in Jobs, Disturb(j) PROVE UNCHANGED child
  BY <1>9 DEF Disturb
<1>10. QED
  BY <1>1, <1>2, <1>3, <1>4, <1>5, <1>6, <1>7, <1>8, <1>9 DEF Next, StageStep, vars

LEMMA ChildrenAreAlwaysTrue == Spec => []ChildrenAreTrue
<1>1. Init => ChildrenAreTrue
  BY IdleIsTrue DEF Init, ChildrenAreTrue, Truthful
<1>2. ChildrenAreTrue /\ [Next]_vars => ChildrenAreTrue'
  BY ChildrenStayTrue
<1>3. QED
  BY <1>1, <1>2, PTL DEF Spec


-----------------------------------------------------------------------------
(* The rows that a panel's answers become.                                   *)
Findings == [round : Nat, seat : Seats, path : Paths, severity : Range(Severities)]

SoundOutcome(o) ==
  /\ o.is # "valid" => o.reports = {}
  /\ IsFiniteSet(o.reports)
  /\ \A r \in o.reports : r.path \in Paths /\ r.severity \in Range(Severities)

OutcomesAreSound ==
  /\ outcome = [a \in Agents |-> outcome[a]]
  /\ \A a \in Agents : SoundOutcome(outcome[a])

Row(s, r) == [round |-> round, seat |-> s, path |-> r.path, severity |-> r.severity]
SeatRows(s) == {Row(s, r) : r \in outcome[s].reports}

LEMMA SeatRowsAreListed ==
  ASSUME OutcomesAreSound, round \in Nat, NEW s \in Seats
  PROVE  /\ SetToSeq(SeatRows(s)) \in Seq(Findings)
         /\ Range(SetToSeq(SeatRows(s))) = SeatRows(s)
         /\ \A r \in SeatRows(s) : r \in Findings /\ r.seat = s /\ r.round = round
<1> DEFINE reports == outcome[s].reports
           f == [r \in reports |-> Row(s, r)]
<1>1. IsFiniteSet(reports) /\ \A r \in reports : r.path \in Paths /\ r.severity \in Range(Severities)
  BY JobsOfTheStage DEF OutcomesAreSound, SoundOutcome
<1>2. f \in Surjection(reports, SeatRows(s))
  BY DEF Surjection, SeatRows
<1>3. IsFiniteSet(SeatRows(s))
  BY <1>1, <1>2, FS_Surjection
<1>4. \A r \in SeatRows(s) : r \in Findings /\ r.seat = s /\ r.round = round
  BY <1>1 DEF SeatRows, Row, Findings
<1>5. SetToSeq(SeatRows(s)) \in Seq(SeatRows(s)) /\ Range(SetToSeq(SeatRows(s))) = SeatRows(s)
  BY <1>3, SetIsListed
<1>6. SetToSeq(SeatRows(s)) \in Seq(Findings)
  BY <1>4, <1>5, SeqMonotonic
<1>7. QED
  BY <1>4, <1>5, <1>6

(* Every report of every seat, of this round, in the order of the seats.     *)
LEMMA RowsOfThePanel ==
  ASSUME OutcomesAreSound, round \in Nat
  PROVE  /\ RecordedRows(Panel, outcome) \in Seq(Findings)
         /\ Range(RecordedRows(Panel, outcome)) = UNION {SeatRows(s) : s \in Seats}
         /\ \A i, k \in DOMAIN RecordedRows(Panel, outcome) : i <= k =>
              Seat(RecordedRows(Panel, outcome)[i]) <= Seat(RecordedRows(Panel, outcome)[k])
<1>1. PICK n \in Nat : n = Len(Panel) /\ DOMAIN Panel = 1..n /\ Panel \in [1..n -> Agents]
  BY PanelAssumption, LenProperties
<1> DEFINE ss == [i \in 1..n |-> SetToSeq(SeatRows(Panel[i]))]
           rows == FlattenSeq(ss)
<1>2. RecordedRows(Panel, outcome) = rows
  BY <1>1 DEF RecordedRows, Rows, SeatRows, Row
<1>3. \A i \in 1..n : Panel[i] \in Seats
  BY <1>1 DEF Seats, Range
<1>4. \A s \in Seats : \E i \in 1..n : Panel[i] = s
  BY <1>1 DEF Seats, Range
<1>5. \A i \in 1..n : /\ ss[i] \in Seq(Findings) /\ Range(ss[i]) = SeatRows(Panel[i])
                      /\ \A r \in SeatRows(Panel[i]) : r.seat = Panel[i]
  BY <1>3, SeatRowsAreListed
<1>6. ss \in [1..n -> Seq(Findings)]
  BY <1>5
<1> HIDE DEF ss
<1>7. rows \in Seq(Findings) /\ Flattens(rows, ss, n)
  BY <1>6, FlattenedInOrder
<1> HIDE DEF rows
<1>8. Range(rows) = UNION {SeatRows(s) : s \in Seats}
  <2>1. ASSUME NEW s \in Seats PROVE SeatRows(s) \subseteq Range(rows)
    BY <1>4, <1>5, <1>7 DEF Flattens
  <2>2. ASSUME NEW a \in DOMAIN rows PROVE \E s \in Seats : rows[a] \in SeatRows(s)
    <3>1. a <= a
      <4>1. DOMAIN rows = 1..Len(rows)
        BY <1>7, LenProperties
      <4>2. QED
        BY <4>1
    <3>2. PICK i \in 1..n : rows[a] \in Range(ss[i])
      BY <1>7, <3>1 DEF Flattens
    <3>3. QED
      BY <1>3, <1>5, <3>2
  <2>3. QED
    BY <2>1, <2>2 DEF Range
<1>9. \A i \in 1..n : \A r \in Range(ss[i]) : Seat(r) = i
  <2> SUFFICES ASSUME NEW i \in 1..n, NEW r \in Range(ss[i]) PROVE Seat(r) = i
    OBVIOUS
  <2>1. r.seat = Panel[i]
    BY <1>5
  <2>2. \A m \in DOMAIN Panel : Panel[m] = r.seat <=> m = i
    BY <1>1, <2>1, PanelAssumption DEF IsInjective
  <2>3. QED
    BY <1>1, <2>2 DEF Seat
<1>10. ASSUME NEW a \in DOMAIN rows, NEW b \in DOMAIN rows, a <= b
       PROVE  Seat(rows[a]) <= Seat(rows[b])
  <2>1. PICK i \in 1..n : \E k \in 1..n : i <= k /\ rows[a] \in Range(ss[i]) /\ rows[b] \in Range(ss[k])
    BY <1>7, <1>10 DEF Flattens
  <2>2. PICK k \in 1..n : i <= k /\ rows[a] \in Range(ss[i]) /\ rows[b] \in Range(ss[k])
    BY <2>1
  <2>3. Seat(rows[a]) = i /\ Seat(rows[b]) = k
    BY <1>9, <2>2
  <2>4. QED
    BY <2>2, <2>3
<1>11. QED
  BY <1>2, <1>7, <1>8, <1>10

-----------------------------------------------------------------------------
(* How far a review has come: which commit is at the head, how many rounds   *)
(* are in the record, and what each of them was.                             *)
Passing == {"passed", "delivered", "undelivered"}
Live == {"entry", "round", "panel", "remedy", "verify"} \cup Passing

Counts == {Cardinality(ps) : ps \in SUBSET Paths}
RoundRecords == [round : Nat, commit : Nat, changed : SUBSET Paths, findings : Counts,
                 blocking : SUBSET Paths, remedy : SUBSET [base : Nat, commit : Nat]]

InPlace ==
  /\ round \in Nat /\ commit \in Nat /\ round <= MaxRounds
  /\ at \in {"entry", "round", "verify"} =>
       commit = round /\ Len(rounds) = round /\ round < MaxRounds
  /\ at = "panel" => commit = round - 1 /\ Len(rounds) = round - 1
  /\ at = "remedy" => commit = round - 1 /\ Len(rounds) = round /\ round < MaxRounds
  /\ at \in Passing => commit = round - 1 /\ Len(rounds) = round

(* A round of the record: its number, the commit it saw, whose reviewers all *)
(* ran, and, once a commit followed it, the remedy of what it reported.      *)
RoundHolds(n) ==
  /\ rounds[n].round = n /\ rounds[n].commit = n - 1
  /\ rounds[n].changed # {} /\ rounds[n].blocking = {}
  /\ \A s \in Seats : [round |-> n, agent |-> s] \in runs
  /\ n <= commit => /\ rounds[n].remedy = {[base |-> n - 1, commit |-> n]}
                    /\ InRound(findings, n) # {}
  /\ n > commit => rounds[n].remedy = {}

RoundsAreChained ==
  /\ rounds \in Seq(RoundRecords) /\ findings \in Seq(Findings)
  /\ at \in Live => /\ \A n \in 1..Len(rounds) : RoundHolds(n)
                    /\ \A r \in Range(findings) : r.round <= Len(rounds)

PanelIsWhole ==
  /\ at = "panel" =>
       /\ Changed(files) # {}
       /\ \A s \in Seats : outcome[s].is \in {"valid", "output_invalid"}
                           => [round |-> round, agent |-> s] \in runs
  /\ at = "remedy" => InRound(findings, round) # {}

Deserved ==
  /\ at \in Passing =>
       /\ \A r \in InRound(findings, round) : Index(r.severity) < Index(Threshold)
       /\ round < MaxRounds => InRound(findings, round) = {}
       /\ record = {PassRecord(rounds)}
       /\ gate = {[round |-> round, commit |-> commit, findings |-> rounds[round].findings]}
  /\ at = "delivered" => Missing(Changed(files)) = {}
  /\ at = "undelivered" => Missing(Changed(files)) # {}

ReviewInv ==
  OutcomesAreSound /\ InPlace /\ RoundsAreChained /\ PanelIsWhole /\ Deserved

-----------------------------------------------------------------------------
(* A finding that does not block has no report that reaches the threshold.   *)
LEMMA NothingReachesTheThreshold ==
  ASSUME NEW rows \in SUBSET Findings, Blocking(rows) = {}, NEW r \in rows
  PROVE  Index(r.severity) < Index(Threshold)
<1>1. PICK n \in Nat : n = Len(Severities) /\ DOMAIN Severities = 1..n
  BY PanelAssumption, LenProperties
<1>2. \A s \in Range(Severities) : Index(s) \in 1..n
  BY <1>1 DEF Index, Range
<1> DEFINE S == {Index(q.severity) : q \in {x \in rows : x.path = r.path}}
<1>3. \A q \in rows : Index(q.severity) \in 1..n
  BY <1>2 DEF Findings
<1>4. S \subseteq 1..n /\ Index(r.severity) \in S
  BY <1>3
<1>5. Index(Threshold) \in 1..n /\ Index(r.severity) \in 1..n
  BY <1>2, <1>4, PanelAssumption
<1>6. r.path \in Located(rows) /\ r.path \notin Blocking(rows)
  BY DEF Located
<1>7. ~(Max(S) >= Index(Threshold))
  BY <1>6 DEF Blocking
<1> HIDE DEF S
<1>8. S \subseteq Nat /\ S # {} /\ \A x \in S : x <= n
  BY <1>4
<1>9. PICK m \in S : m = Max(S) /\ m >= Index(r.severity)
  BY <1>4, <1>8, MaxIsLargest
<1>10. m \in Nat /\ ~(m >= Index(Threshold))
  BY <1>7, <1>8, <1>9
<1>11. QED
  BY <1>5, <1>9, <1>10

LEMMA LaunchIsSound ==
  ASSUME OutcomesAreSound, NEW agents \in SUBSET Agents, Launch(agents)
  PROVE  /\ OutcomesAreSound'
         /\ \A a \in agents : outcome'[a].is \in {"waiting", "dispatch_failed"}
<1>1. PICK probed \in SUBSET agents :
        outcome' = [a \in Agents |-> IF a \in probed THEN Waiting
                                     ELSE IF a \in agents THEN Failed("dispatch_failed")
                                     ELSE outcome[a]]
  BY Zenon DEF Launch
<1>2. SoundOutcome(Waiting) /\ SoundOutcome(Failed("dispatch_failed"))
  BY FS_EmptySet DEF SoundOutcome, Waiting, Failed
<1>3. Waiting.is = "waiting" /\ Failed("dispatch_failed").is = "dispatch_failed"
  BY DEF Waiting, Failed
<1>4. QED
  BY <1>1, <1>2, <1>3 DEF OutcomesAreSound

LEMMA JudgedIsSound ==
  ASSUME NEW a \in Agents, NEW answer \in Answers[a]
  PROVE  SoundOutcome(Judged(answer))
<1>1. answer \subseteq Report /\ IsFiniteSet(answer)
  BY AnswersAreReports
<1>2. CASE Judged(answer) = Valid(answer) /\ \A r \in answer : r.severity \in Range(Severities)
  <2>1. Valid(answer).reports = answer /\ Valid(answer).is = "valid"
    BY DEF Valid
  <2>2. \A r \in answer : r.path \in Paths
    BY <1>1 DEF Report
  <2>3. QED
    BY <1>1, <1>2, <2>1, <2>2 DEF SoundOutcome
<1>3. CASE Judged(answer) = Failed("output_invalid")
  BY <1>3, FS_EmptySet DEF Failed, SoundOutcome
<1>4. QED
  BY <1>2, <1>3 DEF Judged

LEMMA DispatchedIsSound ==
  ASSUME OutcomesAreSound, NEW a \in Agents, Dispatched(a)
  PROVE  /\ OutcomesAreSound'
         /\ \A b \in Agents \ {a} : outcome'[b] = outcome[b]
         /\ outcome'[a].is \in {"valid", "output_invalid"} =>
              /\ Accepts(child[a]) /\ ~child[a].lost
              /\ [round |-> round, agent |-> a] \in runs'
         /\ runs \subseteq runs'
<1>1. PICK o : outcome' = [outcome EXCEPT ![a] = o] /\ SoundOutcome(o)
               /\ (\/ o = Failed("dispatch_failed") /\ (UNCHANGED runs \/ runs' = runs \cup {[round |-> round, agent |-> a]})
                   \/ /\ Accepts(child[a]) /\ ~child[a].lost
                      /\ runs' = runs \cup {[round |-> round, agent |-> a]})
  <2>1. SoundOutcome(Failed("dispatch_failed")) /\ SoundOutcome(Failed("output_invalid"))
    BY FS_EmptySet DEF SoundOutcome, Failed
  <2>2. QED
    BY <2>1, JudgedIsSound, Zenon DEF Dispatched
<1>2. outcome'[a] = o /\ \A b \in Agents \ {a} : outcome'[b] = outcome[b]
  BY <1>1 DEF OutcomesAreSound
<1>3. outcome' = [b \in Agents |-> outcome'[b]]
  BY <1>1 DEF OutcomesAreSound
<1>4. Failed("dispatch_failed").is = "dispatch_failed"
  BY DEF Failed
<1>5. QED
  BY <1>1, <1>2, <1>3, <1>4 DEF OutcomesAreSound

(* Steps that add no round keep the rounds. *)
LEMMA RoundsAreKept ==
  ASSUME RoundsAreChained, UNCHANGED <<rounds, findings, commit>>, runs \subseteq runs',
         at' \in Live => at \in Live
  PROVE  RoundsAreChained'
BY DEF RoundsAreChained, RoundHolds, InRound

LEMMA InRoundGrows ==
  ASSUME NEW f \in Seq(Findings), NEW g \in Seq(Findings), NEW n
  PROVE  /\ f \o g \in Seq(Findings)
         /\ Range(f \o g) = Range(f) \cup Range(g)
         /\ InRound(f, n) \subseteq InRound(f \o g, n)
<1>1. PICK p \in Nat : p = Len(f) /\ DOMAIN f = 1..p
  BY LenProperties
<1>2. PICK q \in Nat : q = Len(g) /\ DOMAIN g = 1..q
  BY LenProperties
<1> DEFINE h == f \o g
<1>3. /\ h \in Seq(Findings) /\ Len(h) = p + q
      /\ \A i \in 1..(p + q) : h[i] = IF i <= p THEN f[i] ELSE g[i - p]
  BY <1>1, <1>2, ConcatProperties
<1>4. DOMAIN h = 1..(p + q)
  BY <1>3, LenProperties
<1> HIDE DEF h
<1>5. \A i \in 1..p : h[i] = f[i] /\ i \in DOMAIN h
  BY <1>3, <1>4
<1>6. \A i \in 1..q : h[p + i] = g[i] /\ p + i \in DOMAIN h
  BY <1>3, <1>4
<1>7. \A i \in DOMAIN h : (i \in 1..p /\ h[i] = f[i]) \/ (i - p \in 1..q /\ h[i] = g[i - p])
  BY <1>3, <1>4
<1>8. Range(h) = Range(f) \cup Range(g)
  BY <1>1, <1>2, <1>5, <1>6, <1>7 DEF Range
<1>9. QED
  BY <1>3, <1>8 DEF InRound, h

-----------------------------------------------------------------------------
(* The round that a panel decides. *)
LEMMA RecordedRound ==
  ASSUME ReviewInv, at = "panel", NEW rows \in SUBSET Findings, NEW decision
  PROVE  /\ RoundRecord(rows, decision) \in RoundRecords
         /\ RoundRecord(rows, decision).round = round
         /\ RoundRecord(rows, decision).commit = round - 1
         /\ RoundRecord(rows, decision).changed # {}
         /\ RoundRecord(rows, decision).remedy = {}
         /\ RoundRecord(rows, decision).findings = Cardinality(Located(rows))
         /\ decision # "block" => RoundRecord(rows, decision).blocking = {}
<1>1. Located(rows) \in SUBSET Paths
  BY DEF Located, Findings
<1>2. Blocking(rows) \in SUBSET Paths
  BY <1>1 DEF Blocking
<1>3. Changed(files) \in SUBSET Paths /\ Changed(files) # {}
  BY DEF Changed, ReviewInv, PanelIsWhole
<1>4. Cardinality(Located(rows)) \in Counts
  BY <1>1 DEF Counts
<1>5. round \in Nat /\ commit \in Nat /\ commit = round - 1
  BY DEF ReviewInv, InPlace
<1>6. QED
  BY <1>2, <1>3, <1>4, <1>5 DEF RoundRecord, RoundRecords

LEMMA PanelDecidesWell ==
  ASSUME ReviewInv, PanelDecides
  PROVE  ReviewInv'
<1> DEFINE new == RecordedRows(Panel, outcome)
           found == InRound(findings', round)
           decision == Decision(found)
           rec == RoundRecord(found, decision)
<1>1. /\ at = "panel" /\ \A s \in Seats : outcome[s].is = "valid"
      /\ findings' = findings \o new
      /\ rounds' = Append(rounds, rec)
      /\ UNCHANGED <<round, commit, files, tree, runs>>
  BY DEF PanelDecides, AllSettled
<1>2. \/ /\ decision = "pass" /\ at' = "passed" /\ record' = {PassRecord(rounds')}
         /\ gate' = {[round |-> round, commit |-> commit,
                      findings |-> Cardinality(Located(found))]}
         /\ UNCHANGED outcome
      \/ decision = "block" /\ at' = "blocked" /\ UNCHANGED outcome
      \/ decision = "remediate" /\ at' = "remedy" /\ Launch({Author})
  BY DEF PanelDecides, Block
<1>3. /\ OutcomesAreSound /\ round \in Nat /\ commit \in Nat /\ commit = round - 1
      /\ round <= MaxRounds /\ Len(rounds) = round - 1
      /\ rounds \in Seq(RoundRecords) /\ findings \in Seq(Findings)
  BY <1>1 DEF ReviewInv, InPlace, RoundsAreChained
<1>4. /\ \A n \in 1..(round - 1) : RoundHolds(n)
      /\ \A r \in Range(findings) : r.round <= round - 1
      /\ \A s \in Seats : [round |-> round, agent |-> s] \in runs
  BY <1>1, <1>3 DEF ReviewInv, RoundsAreChained, PanelIsWhole, Live
<1>5. OutcomesAreSound'
  <2>1. {Author} \in SUBSET Agents
    BY JobsOfTheStage
  <2>2. UNCHANGED outcome \/ Launch({Author})
    BY <1>2
  <2>3. QED
    BY <1>3, <2>1, <2>2, LaunchIsSound DEF OutcomesAreSound
<1>6. /\ new \in Seq(Findings)
      /\ \A r \in Range(new) : r.round = round
  BY <1>3, RowsOfThePanel, SeatRowsAreListed
<1>7. /\ findings' \in Seq(Findings)
      /\ Range(findings') = Range(findings) \cup Range(new)
      /\ \A n : InRound(findings, n) \subseteq InRound(findings', n)
  BY <1>1, <1>3, <1>6, InRoundGrows
<1>8. found \in SUBSET Findings
  <2>1. Range(findings') \subseteq Findings
    BY <1>7, LenProperties DEF Range
  <2>2. QED
    BY <2>1 DEF InRound
<1> HIDE DEF found, new
<1>9. /\ rec \in RoundRecords
      /\ rec.round = round /\ rec.commit = round - 1 /\ rec.changed # {} /\ rec.remedy = {}
      /\ rec.findings = Cardinality(Located(found))
      /\ decision # "block" => rec.blocking = {}
  BY <1>1, <1>8, RecordedRound
<1> HIDE DEF rec, decision
<1>10. /\ rounds' \in Seq(RoundRecords) /\ Len(rounds') = round
       /\ \A n \in 1..(round - 1) : rounds'[n] = rounds[n]
       /\ rounds'[round] = rec
  <2>1. PICK k \in Nat : k = Len(rounds) /\ k + 1 = round
    BY <1>3
  <2>2. /\ rounds' \in Seq(RoundRecords) /\ Len(rounds') = k + 1
        /\ \A n \in 1..k : rounds'[n] = rounds[n]
        /\ rounds'[k + 1] = rec
    BY <1>1, <1>3, <1>9, <2>1, AppendProperties
  <2>3. round - 1 = k
    BY <2>1
  <2>4. QED
    BY <2>1, <2>2, <2>3
<1>11. InPlace'
  BY <1>1, <1>2, <1>3, <1>10 DEF InPlace, Passing, Decision, decision
<1>12. at' \in Live => RoundsAreChained'
  <2> SUFFICES ASSUME at' \in Live PROVE RoundsAreChained'
    OBVIOUS
  <2>1. decision # "block"
    BY <1>2 DEF Live, Passing
  <2>2. ASSUME NEW n \in 1..round PROVE RoundHolds(n)'
    <3>1. CASE n = round
      BY <1>1, <1>3, <1>4, <1>9, <1>10, <2>1, <3>1 DEF RoundHolds
    <3>2. CASE n \in 1..(round - 1)
      <4>1. RoundHolds(n) /\ rounds'[n] = rounds[n]
        BY <1>4, <1>10, <3>2
      <4>2. QED
        BY <1>1, <1>7, <4>1 DEF RoundHolds
    <3>3. QED
      BY <1>3, <3>1, <3>2
  <2>3. ASSUME NEW r \in Range(findings') PROVE r.round <= round
    <3>1. CASE r \in Range(new)
      BY <1>3, <1>6, <3>1
    <3>2. CASE r \in Range(findings)
      <4>1. r.round <= round - 1 /\ r.round \in Nat
        <5>1. r \in Findings
          BY <1>3, <3>2, LenProperties DEF Range
        <5>2. QED
          BY <1>4, <3>2, <5>1 DEF Findings
      <4>2. QED
        BY <1>3, <4>1
    <3>3. QED
      BY <1>7, <3>1, <3>2
  <2>4. QED
    BY <1>7, <1>10, <2>2, <2>3 DEF RoundsAreChained
<1>13. RoundsAreChained'
  BY <1>7, <1>10, <1>12 DEF RoundsAreChained
<1>14. PanelIsWhole'
  <2>1. decision = "remediate" => found # {}
    BY DEF Decision, decision
  <2>2. QED
    BY <1>1, <1>2, <2>1 DEF PanelIsWhole, found
<1>15. Deserved'
  <2>1. CASE decision = "pass"
    <3>1. at' = "passed" /\ record' = {PassRecord(rounds')}
          /\ gate' = {[round |-> round, commit |-> commit, findings |-> Cardinality(Located(found))]}
      BY <1>2, <2>1
    <3>2. round < MaxRounds => found = {}
      BY <2>1 DEF Decision, decision
    <3>3. found # {} => Blocking(found) = {}
      BY <2>1 DEF Decision, decision
    <3>4. \A r \in found : Index(r.severity) < Index(Threshold)
      BY <1>8, <3>3, NothingReachesTheThreshold
    <3>5. PassRecord(rounds)' = PassRecord(rounds')
      BY <1>1 DEF PassRecord
    <3>6. found = InRound(findings', round')
      BY <1>1 DEF found
    <3>7. QED
      BY <1>1, <1>9, <1>10, <3>1, <3>2, <3>4, <3>5, <3>6 DEF Deserved
  <2>2. CASE decision # "pass"
    BY <1>2, <2>2 DEF Deserved, Passing
  <2>3. QED
    BY <2>1, <2>2
<1>16. QED
  BY <1>5, <1>11, <1>13, <1>14, <1>15 DEF ReviewInv

(* A remediation gives the last round its remedy and moves the head. *)
LEMMA RemediateIsWell ==
  ASSUME ReviewInv, Remediate
  PROVE  ReviewInv'
<1> DEFINE remedy == {[base |-> commit, commit |-> commit + 1]}
<1>1. /\ at = "remedy" /\ at' = "verify" /\ commit' = commit + 1
      /\ rounds' = [rounds EXCEPT ![Len(rounds)].remedy = remedy]
      /\ UNCHANGED <<round, tree, outcome, runs, findings, record, gate>>
  BY DEF Remediate
<1>2. /\ OutcomesAreSound /\ round \in Nat /\ commit \in Nat /\ commit = round - 1
      /\ round < MaxRounds /\ Len(rounds) = round
      /\ rounds \in Seq(RoundRecords) /\ findings \in Seq(Findings)
  BY <1>1 DEF ReviewInv, InPlace, RoundsAreChained
<1>3. /\ \A n \in 1..round : RoundHolds(n)
      /\ \A r \in Range(findings) : r.round <= round
      /\ InRound(findings, round) # {}
  BY <1>1, <1>2 DEF ReviewInv, RoundsAreChained, PanelIsWhole, Live
<1>4. remedy \in SUBSET [base : Nat, commit : Nat] /\ remedy = {[base |-> round - 1, commit |-> round]}
  BY <1>2
<1> HIDE DEF remedy
<1>5. PICK k \in Nat : k = round /\ k = Len(rounds) /\ DOMAIN rounds = 1..k /\ k >= 1
                       /\ rounds \in [1..k -> RoundRecords]
  BY <1>2, LenProperties
<1> DEFINE last == [rounds[k] EXCEPT !.remedy = remedy]
<1>6. /\ last \in RoundRecords /\ last.remedy = remedy
      /\ last.round = rounds[k].round /\ last.commit = rounds[k].commit
      /\ last.changed = rounds[k].changed /\ last.blocking = rounds[k].blocking
  <2>1. rounds[k] \in RoundRecords
    BY <1>5
  <2>2. QED
    BY <1>4, <2>1 DEF RoundRecords
<1>7. rounds' = [rounds EXCEPT ![k] = last]
  BY <1>1, <1>5
<1> HIDE DEF last
<1>8. /\ rounds' \in Seq(RoundRecords) /\ Len(rounds') = k
      /\ \A n \in 1..k : rounds'[n] = IF n = k THEN last ELSE rounds[n]
  BY <1>2, <1>5, <1>6, <1>7, ExceptSeq
<1>9. InPlace'
  <2>1. MaxRounds \in Nat
    BY PanelAssumption
  <2>2. QED
    BY <1>1, <1>2, <1>5, <1>8, <2>1 DEF InPlace, Passing
<1>10. ASSUME NEW n \in 1..k PROVE RoundHolds(n)'
  <2>1. RoundHolds(n)
    BY <1>3, <1>5
  <2>2. commit' = k
    BY <1>1, <1>2, <1>5
  <2>3. n <= k /\ ~(n > k)
    OBVIOUS
  <2>4. CASE n = k
    <3>1. rounds'[n] = last /\ rounds'[n].remedy = {[base |-> n - 1, commit |-> n]}
      BY <1>4, <1>5, <1>6, <1>8, <2>4
    <3>2. InRound(findings, n)' # {}
      BY <1>1, <1>3, <1>5, <2>4 DEF InRound
    <3>3. QED
      BY <1>1, <1>6, <2>1, <2>2, <2>3, <2>4, <3>1, <3>2 DEF RoundHolds
  <2>5. CASE n # k
    <3>1. rounds'[n] = rounds[n] /\ n <= commit
      BY <1>2, <1>5, <1>8, <2>5
    <3>2. QED
      BY <1>1, <2>1, <2>2, <2>3, <3>1 DEF RoundHolds, InRound
  <2>6. QED
    BY <2>4, <2>5
<1>11. RoundsAreChained'
  BY <1>1, <1>2, <1>3, <1>5, <1>8, <1>10 DEF RoundsAreChained
<1>12. OutcomesAreSound' /\ PanelIsWhole' /\ Deserved'
  BY <1>1, <1>2 DEF OutcomesAreSound, PanelIsWhole, Deserved, Passing
<1>13. QED
  BY <1>9, <1>11, <1>12 DEF ReviewInv

LEMMA StartRoundIsWell ==
  ASSUME ReviewInv, StartRound
  PROVE  ReviewInv'
<1>1. /\ at = "round"
      /\ UNCHANGED <<commit, files, tree, runs, findings, rounds, record, gate>>
  BY DEF StartRound
<1>2. CASE at' = "blocked" /\ UNCHANGED <<round, outcome>>
  BY <1>1, <1>2, RoundsAreKept
     DEF ReviewInv, OutcomesAreSound, InPlace, PanelIsWhole, Deserved, Passing, Live
<1>3. CASE Changed(files) # {} /\ at' = "panel" /\ round' = round + 1 /\ Launch(Seats)
  <2>1. OutcomesAreSound' /\ \A s \in Seats : outcome'[s].is \in {"waiting", "dispatch_failed"}
    BY <1>3, LaunchIsSound, JobsOfTheStage DEF ReviewInv
  <2>2. RoundsAreChained'
    BY <1>1, <1>3, RoundsAreKept DEF ReviewInv, Live
  <2>3. InPlace'
    BY <1>1, <1>3, PanelAssumption DEF ReviewInv, InPlace, Passing
  <2>4. PanelIsWhole' /\ Deserved'
    BY <1>1, <1>3, <2>1 DEF PanelIsWhole, Deserved, Passing, Changed
  <2>5. QED
    BY <2>1, <2>2, <2>3, <2>4 DEF ReviewInv
<1>4. QED
  BY <1>2, <1>3 DEF StartRound, Block

LEMMA DispatchedIsWell ==
  ASSUME ReviewInv, NEW a \in Agents, Dispatched(a)
  PROVE  ReviewInv'
<1>1. UNCHANGED <<stage, findings, rounds, record, gate>>
  BY DEF Dispatched
<1>2. /\ OutcomesAreSound' /\ runs \subseteq runs'
      /\ \A b \in Agents \ {a} : outcome'[b] = outcome[b]
      /\ outcome'[a].is \in {"valid", "output_invalid"} => [round |-> round, agent |-> a] \in runs'
  BY DispatchedIsSound DEF ReviewInv
<1>3. RoundsAreChained'
  BY <1>1, <1>2, RoundsAreKept DEF ReviewInv, stage
<1>4. InPlace' /\ Deserved'
  BY <1>1 DEF ReviewInv, InPlace, Deserved, Passing, stage, InRound, PassRecord, Changed
<1>5. PanelIsWhole'
  <2>1. ASSUME at' = "panel", NEW s \in Seats, outcome'[s].is \in {"valid", "output_invalid"}
        PROVE  [round |-> round, agent |-> s] \in runs'
    <3>1. CASE s = a
      BY <1>2, <2>1, <3>1
    <3>2. CASE s # a
      BY <1>1, <1>2, <2>1, <3>2, JobsOfTheStage DEF ReviewInv, PanelIsWhole, stage
    <3>3. QED
      BY <3>1, <3>2
  <2>2. QED
    BY <1>1, <2>1 DEF ReviewInv, PanelIsWhole, stage, InRound, Changed
<1>6. QED
  BY <1>2, <1>3, <1>4, <1>5 DEF ReviewInv

(* Steps that end the stage, whatever they keep of the panel's reports. *)
LEMMA EndsWell ==
  ASSUME ReviewInv, at' \notin Live, findings' \in Seq(Findings),
         UNCHANGED <<round, commit, outcome, rounds>>
  PROVE  ReviewInv'
BY DEF ReviewInv, OutcomesAreSound, InPlace, RoundsAreChained, PanelIsWhole, Deserved, Live, Passing

LEMMA RecordingFailsWell ==
  ASSUME ReviewInv, RecordingFails
  PROVE  ReviewInv'
<1> DEFINE rows == RecordedRows(Panel, outcome)
<1>1. PICK n \in 0..(Len(rows) - 1) : findings' = findings \o SubSeq(rows, 1, n)
  BY Zenon DEF RecordingFails
<1>2. rows \in Seq(Findings) /\ findings \in Seq(Findings)
  BY RowsOfThePanel DEF ReviewInv, InPlace, RoundsAreChained
<1> HIDE DEF rows
<1>3. PICK k \in Nat : k = Len(rows) /\ \A i \in 1..k : rows[i] \in Findings
  BY <1>2, LenProperties, ElementOfSeq
<1>4. n \in Int /\ \A i \in 1..n : rows[i] \in Findings
  BY <1>3
<1>5. SubSeq(rows, 1, n) \in Seq(Findings)
  BY <1>4, SubSeqProperties
<1>6. findings' \in Seq(Findings)
  BY <1>1, <1>2, <1>5, InRoundGrows
<1>7. at' \notin Live /\ UNCHANGED <<round, commit, outcome, rounds>>
  BY DEF RecordingFails, Live, Passing
<1>8. QED
  BY <1>6, <1>7, EndsWell

LEMMA PanelFailsWell ==
  ASSUME ReviewInv, PanelFails
  PROVE  ReviewInv'
<1>1. RecordedRows(Panel, outcome) \in Seq(Findings) /\ findings \in Seq(Findings)
  BY RowsOfThePanel DEF ReviewInv, InPlace, RoundsAreChained
<1>2. findings' = findings \/ findings' = findings \o RecordedRows(Panel, outcome)
  BY DEF PanelFails
<1>3. findings' \in Seq(Findings)
  BY <1>1, <1>2, InRoundGrows
<1>4. at' \notin Live /\ UNCHANGED <<round, commit, outcome, rounds>>
  BY DEF PanelFails, Block, Live, Passing
<1>5. QED
  BY <1>3, <1>4, EndsWell

LEMMA ReviewStaysWell ==
  ASSUME ReviewInv, [Next]_vars
  PROVE  ReviewInv'
<1>1. CASE UNCHANGED <<at, round, commit, files, evidence>>
  BY <1>1, RoundsAreKept
     DEF ReviewInv, OutcomesAreSound, InPlace, PanelIsWhole, Deserved, Passing, evidence,
         InRound, Changed, PassRecord
<1>2. CASE Enter
  BY <1>2, RoundsAreKept
     DEF Enter, ReviewInv, OutcomesAreSound, InPlace, PanelIsWhole, Deserved, Passing, Live, evidence
<1>3. CASE RemediationFails
  BY <1>3, EndsWell DEF RemediationFails, Block, evidence, Live, Passing, ReviewInv, RoundsAreChained
<1>4. CASE Verify
  BY <1>4, RoundsAreKept
     DEF Verify, ReviewInv, OutcomesAreSound, InPlace, PanelIsWhole, Deserved, Passing, Live, evidence
<1>5. CASE Deliver
  <2>1. RoundsAreChained'
    BY <1>5, RoundsAreKept DEF Deliver, ReviewInv, evidence, Live, Passing
  <2>2. InPlace' /\ OutcomesAreSound' /\ PanelIsWhole'
    BY <1>5 DEF Deliver, ReviewInv, InPlace, OutcomesAreSound, PanelIsWhole, Passing, evidence
  <2>3. Deserved'
    BY <1>5 DEF Deliver, ReviewInv, Deserved, Passing, evidence, NetChanged, InRound, Missing,
                Changed, PassRecord
  <2>4. QED
    BY <2>1, <2>2, <2>3 DEF ReviewInv
<1>6. ASSUME NEW j \in Jobs, Process(j) \/ Disturb(j)
      PROVE  UNCHANGED <<at, round, commit, files, evidence>>
  BY <1>6 DEF Process, Disturb, stage
<1>7. QED
  BY <1>1, <1>2, <1>3, <1>4, <1>5, <1>6, StartRoundIsWell, RecordingFailsWell, PanelFailsWell,
     PanelDecidesWell, RemediateIsWell, DispatchedIsWell
     DEF Next, StageStep, vars, stage

LEMMA ReviewIsAlwaysWell == Spec => []ReviewInv
<1>1. Init => ReviewInv
  <2> SUFFICES ASSUME Init PROVE ReviewInv
    OBVIOUS
  <2>1. OutcomesAreSound
    BY FS_EmptySet DEF Init, OutcomesAreSound, SoundOutcome, Failed
  <2>2. <<>> \in Seq(RoundRecords) /\ <<>> \in Seq(Findings) /\ Len(<<>>) = 0 /\ DOMAIN <<>> = {}
    BY EmptySeq, LenProperties
  <2>3. InPlace
    BY <2>2, PanelAssumption DEF Init, InPlace, Passing
  <2>4. RoundsAreChained
    BY <2>2 DEF Init, RoundsAreChained, Range
  <2>5. PanelIsWhole /\ Deserved
    BY DEF Init, PanelIsWhole, Deserved, Passing
  <2>6. QED
    BY <2>1, <2>3, <2>4, <2>5 DEF ReviewInv
<1>2. ReviewInv /\ [Next]_vars => ReviewInv'
  BY ReviewStaysWell
<1>3. QED
  BY <1>1, <1>2, PTL DEF Spec

-----------------------------------------------------------------------------
(* invokeHarness and runVerifyCommand: whatever fires first of the exit, the *)
(* last output, the limits and a kill that fails, an outcome that a stage    *)
(* acts on is that of a process that ended by itself in time, and nobody     *)
(* gives up a living process unless its kill failed.                         *)
THEOREM OutcomesHold == Spec => OutcomesAreTrue
<1> DEFINE Step ==
      /\ \A a \in Agents : outcome[a] = Waiting /\ outcome'[a].is \in {"valid", "output_invalid"}
                           => Sound(child[a]) /\ ~child[a].lost
      /\ at = "verify" /\ at' = "round" => Sound(child[Command])
      /\ \A j \in Jobs : child'[j].at \in {"ending", "settled"} /\ child'[j].os = "alive"
                         => child'[j].killError
<1>1. ChildrenAreTrue /\ ChildrenAreTrue' /\ ReviewInv /\ [Next]_vars => [Step]_vars
  <2> SUFFICES ASSUME ChildrenAreTrue, ChildrenAreTrue', ReviewInv, Next PROVE Step
    OBVIOUS
  <2>1. ASSUME NEW a \in Agents, outcome[a] = Waiting,
               outcome'[a].is \in {"valid", "output_invalid"}
        PROVE  Sound(child[a]) /\ ~child[a].lost
    <3>1. Waiting.is = "waiting"
      BY DEF Waiting, Failed
    <3>2. OutcomesAreSound
      BY DEF ReviewInv
    <3>3. ~UNCHANGED outcome
      BY <2>1, <3>1
    <3>4. ASSUME NEW agents \in SUBSET Agents, Launch(agents) PROVE FALSE
      <4>1. PICK probed \in SUBSET agents :
              outcome' = [b \in Agents |-> IF b \in probed THEN Waiting
                                           ELSE IF b \in agents THEN Failed("dispatch_failed")
                                           ELSE outcome[b]]
        BY <3>4, Zenon DEF Launch
      <4>2. Failed("dispatch_failed").is = "dispatch_failed"
        BY DEF Failed
      <4>3. QED
        BY <2>1, <3>1, <4>1, <4>2
    <3>5. ~StageStep
      BY <3>3, <3>4, JobsOfTheStage
         DEF StageStep, Enter, StartRound, RecordingFails, PanelFails, PanelDecides,
             RemediationFails, Remediate, Verify, Deliver, evidence
    <3>6. \A j \in Jobs : ~Process(j) /\ ~Disturb(j)
      BY <3>3 DEF Process, Disturb, evidence
    <3>7. PICK b \in Agents : Dispatched(b)
      BY <3>5, <3>6 DEF Next
    <3>8. b = a
      BY <2>1, <3>1, <3>2, <3>7, DispatchedIsSound
    <3>9. child[a].at = "settled" /\ Accepts(child[a]) /\ ~child[a].lost
      BY <2>1, <3>2, <3>7, <3>8, DispatchedIsSound DEF Dispatched
    <3>10. Honest(child[a])
      BY JobsOfTheStage DEF ChildrenAreTrue
    <3>11. QED
      BY <3>9, <3>10 DEF Honest, GivenUp, Accepts, InTime, Sound
  <2>2. ASSUME at = "verify", at' = "round" PROVE Sound(child[Command])
    <3>1. Verify
      BY <2>2 DEF Next, StageStep, Enter, StartRound, RecordingFails, PanelFails, PanelDecides,
                  RemediationFails, Remediate, Deliver, AllSettled, Dispatched, Process, Disturb, stage
    <3>2. child[Command].at = "settled" /\ InTime(child[Command])
      BY <2>2, <3>1 DEF Verify, Verified
    <3>3. Honest(child[Command])
      BY JobsOfTheStage DEF ChildrenAreTrue
    <3>4. QED
      BY <3>2, <3>3 DEF Honest, GivenUp, InTime, Sound
  <2>3. ASSUME NEW j \in Jobs, child'[j].at \in {"ending", "settled"}, child'[j].os = "alive"
        PROVE  child'[j].killError
    BY <2>3 DEF ChildrenAreTrue, Honest, GivenUp
  <2>4. QED
    BY <2>1, <2>2, <2>3
<1>2. QED
  BY <1>1, ChildrenAreAlwaysTrue, ReviewIsAlwaysWell, PTL DEF Spec, OutcomesAreTrue

(* runCodeReviewStage: a pass is the verdict of a whole last panel on the    *)
(* head, whichever reviewers failed, disturbed the worktree or were cut off  *)
(* in earlier rounds, and each earlier panel was answered by its own commit. *)
THEOREM PassHolds == Spec => []PassIsDeserved
<1>1. ReviewInv => PassIsDeserved
  <2> SUFFICES ASSUME ReviewInv, at \in Passing
               PROVE  /\ \A s \in Seats, n \in 1..round : [round |-> n, agent |-> s] \in runs
                      /\ \A r \in InRound(findings, round) : Index(r.severity) < Index(Threshold)
                      /\ commit = round - 1
                      /\ \A n \in 1..round : rounds[n].commit = n - 1
                      /\ \A n \in 1..(round - 1) : InRound(findings, n) # {}
                      /\ round < MaxRounds => InRound(findings, round) = {}
    BY DEF PassIsDeserved, Passing
  <2>1. commit = round - 1 /\ Len(rounds) = round /\ round \in Nat /\ commit \in Nat
    BY DEF ReviewInv, InPlace
  <2>2. \A n \in 1..round : RoundHolds(n)
    BY <2>1 DEF ReviewInv, RoundsAreChained, Live
  <2>3. \A n \in 1..(round - 1) : n \in 1..round /\ n <= commit
    BY <2>1
  <2>4. QED
    BY <2>1, <2>2, <2>3 DEF RoundHolds, ReviewInv, Deserved
<1>2. QED
  BY <1>1, ReviewIsAlwaysWell, PTL

(* What the stage writes when it passes is what parsePassedCodeReviewRecord  *)
(* and runDeliveryStage accept, however many rounds and remedies it took.    *)
THEOREM ParsingHolds == Spec => []PassedRecordParses
<1>1. ReviewInv => PassedRecordParses
  <2> SUFFICES ASSUME ReviewInv, at = "passed"
               PROVE  \E r \in record, g \in gate : ParsePassed(r) /\ Agrees(r, g)
    BY DEF PassedRecordParses
  <2>1. /\ commit = round - 1 /\ Len(rounds) = round /\ round \in Nat /\ commit \in Nat
        /\ round <= MaxRounds /\ rounds \in Seq(RoundRecords) /\ round >= 1
    BY DEF ReviewInv, InPlace, RoundsAreChained, Passing
  <2>2. \A n \in 1..round : RoundHolds(n)
    BY <2>1 DEF ReviewInv, RoundsAreChained, Live, Passing
  <2> DEFINE r == PassRecord(rounds)
             g == [round |-> round, commit |-> commit, findings |-> rounds[round].findings]
  <2>3. record = {r} /\ gate = {g}
    BY DEF ReviewInv, Deserved, Passing
  <2>4. r.passed /\ r.rounds = rounds /\ r.initial = 0 /\ r.final = commit
    BY DEF PassRecord
  <2> HIDE DEF r
  <2>5. DOMAIN rounds = 1..round
    BY <2>1, LenProperties
  <2> DEFINE answer(n) == CHOOSE m \in rounds[n].remedy : TRUE
  <2>6. ASSUME NEW n \in 1..round, n <= commit
        PROVE  answer(n).base = n - 1 /\ answer(n).commit = n /\ answer(n) \in rounds[n].remedy
    <3> DEFINE remedy == [base |-> n - 1, commit |-> n]
    <3>1. rounds[n].remedy = {remedy}
      BY <2>2, <2>6 DEF RoundHolds
    <3>2. remedy.base = n - 1 /\ remedy.commit = n
      OBVIOUS
    <3> HIDE DEF remedy
    <3>3. answer(n) = remedy
      BY <3>1
    <3>4. QED
      BY <3>1, <3>2, <3>3
  <2> HIDE DEF answer
  <2> DEFINE Chained(i) == /\ rounds[i].round = i /\ rounds[i].changed # {}
                           /\ rounds[i].commit = IF i = 1 THEN 0 ELSE answer(i - 1).commit
                           /\ IF i = round THEN rounds[i].remedy = {} /\ rounds[i].blocking = {}
                              ELSE \E m \in rounds[i].remedy : m.base = rounds[i].commit
  <2>7. ASSUME NEW i \in 1..round
        PROVE  Chained(i)
    <3>1. /\ rounds[i].round = i /\ rounds[i].changed # {} /\ rounds[i].commit = i - 1
          /\ rounds[i].blocking = {} /\ (i > commit => rounds[i].remedy = {})
      BY <2>2 DEF RoundHolds
    <3>2. i # 1 => answer(i - 1).commit = i - 1
      <4>1. i # 1 => i - 1 \in 1..round /\ i - 1 <= commit
        BY <2>1
      <4>2. QED
        BY <2>6, <4>1
    <3>3. i = round => i > commit
      BY <2>1
    <3>4. i # round => i <= commit
      BY <2>1
    <3>5. i # round => \E m \in rounds[i].remedy : m.base = rounds[i].commit
      BY <2>6, <3>1, <3>4
    <3>6. rounds[i].commit = IF i = 1 THEN 0 ELSE answer(i - 1).commit
      BY <3>1, <3>2
    <3>7. QED
      BY <3>1, <3>3, <3>5, <3>6
  <2>8. ParsePassed(r)
    <3>1. Last(rounds).commit = commit
      BY <2>1, <2>2 DEF Last, RoundHolds
    <3>2. Len(rounds) \in 1..MaxRounds
      BY <2>1, PanelAssumption
    <3> DEFINE Whole(all, initial, last) ==
                 \A i \in DOMAIN all :
                   LET n == all[i]
                   IN /\ n.round = i /\ n.changed # {}
                      /\ n.commit = IF i = 1 THEN initial
                                    ELSE (CHOOSE m \in all[i - 1].remedy : TRUE).commit
                      /\ IF i = last THEN n.remedy = {} /\ n.blocking = {}
                         ELSE \E m \in n.remedy : m.base = n.commit
    <3>3. Whole(rounds, 0, round)
      BY <2>5, <2>7, Zenon DEF answer
    <3>4. Whole(r.rounds, r.initial, Len(r.rounds))
      <4> HIDE DEF Whole
      <4>1. r.rounds = rounds /\ r.initial = 0 /\ Len(r.rounds) = round
        BY <2>1, <2>4
      <4>2. QED
        BY <3>3, <4>1
    <3>5. QED
      BY <2>1, <2>4, <3>1, <3>2, <3>4, Zenon DEF ParsePassed
  <2>9. Agrees(r, g)
    BY <2>1, <2>4 DEF Agrees, Last
  <2>10. QED
    BY <2>3, <2>8, <2>9
<1>2. QED
  BY <1>1, ReviewIsAlwaysWell, PTL

-----------------------------------------------------------------------------
LEMMA RowsAreAdded ==
  ASSUME NEW S, NEW s \in Seq(S), NEW t \in Seq(S)
  PROVE  IsPrefix(s, s \o t) /\ SubSeq(s \o t, Len(s) + 1, Len(s \o t)) = t
<1>1. PICK p \in Nat : p = Len(s)
  BY LenProperties
<1>2. PICK q \in Nat : q = Len(t)
  BY LenProperties
<1>3. Len(s \o t) = p + q /\ s \o t \in Seq(S)
  BY <1>1, <1>2, ConcatProperties
<1>4. SubSeq(s \o t, 1, p) = SubSeq(s, 1, p)
  <2>1. CASE p = 0
    BY <2>1, SubSeqEmpty
  <2>2. CASE p # 0
    <3>1. 1 \in 1..p /\ p \in 1..p
      BY <2>2
    <3>2. QED
      BY <1>1, <3>1, SubSeqOfConcat1
  <2>3. QED
    BY <2>1, <2>2
<1>5. SubSeq(s \o t, p + 1, p + q) = t
  <2>1. CASE q = 0
    <3>1. t = <<>>
      BY <1>2, <2>1, EmptySeq, Zenon
    <3>2. p + 1 \in Int /\ p + q \in Int /\ p + q < p + 1
      BY <2>1
    <3>3. QED
      BY <3>1, <3>2, SubSeqEmpty
  <2>2. CASE q # 0
    <3>1. p + 1 \in (p + 1)..(p + q) /\ p + q \in (p + 1)..(p + q)
      BY <2>2
    <3>2. SubSeq(s \o t, p + 1, p + q) = SubSeq(t, p + 1 - p, p + q - p)
      BY <1>1, <1>2, <3>1, SubSeqOfConcat2
    <3>3. p + 1 - p = 1 /\ p + q - p = q
      OBVIOUS
    <3>4. SubSeq(t, 1, q) = t
      BY <1>2, SubSeqFull
    <3>5. QED
      BY <3>2, <3>3, <3>4
  <2>3. QED
    BY <2>1, <2>2
<1>6. p <= p + q
  OBVIOUS
<1>7. QED
  BY <1>1, <1>3, <1>4, <1>5, <1>6 DEF IsPrefix

LEMMA NewRowsAreAdded ==
  ASSUME NEW rows \in Seq(Findings), findings \in Seq(Findings), findings' = findings \o rows
  PROVE  IsPrefix(findings, findings') /\ NewRows = rows
BY RowsAreAdded DEF NewRows

(* What a settled panel records of its reports.                              *)
LEMMA RowsOfASettledPanel ==
  ASSUME ReviewInv, AllSettled
  PROVE  /\ \A r \in Range(RecordedRows(Panel, outcome)) :
              [round |-> r.round, agent |-> r.seat] \in runs
         /\ {[seat |-> r.seat, path |-> r.path, severity |-> r.severity] :
               r \in Range(RecordedRows(Panel, outcome))} =
              UNION {{[seat |-> s, path |-> r.path, severity |-> r.severity] :
                        r \in outcome[s].reports} : s \in Seats}
<1>1. Range(RecordedRows(Panel, outcome)) = UNION {SeatRows(s) : s \in Seats}
  BY RowsOfThePanel DEF ReviewInv, InPlace
<1>2. ASSUME NEW s \in Seats, NEW r \in SeatRows(s)
      PROVE  [round |-> r.round, agent |-> r.seat] \in runs
  <2>1. r.round = round /\ r.seat = s /\ outcome[s].reports # {}
    BY DEF SeatRows, Row
  <2>2. outcome[s].is = "valid"
    BY <2>1, JobsOfTheStage DEF ReviewInv, OutcomesAreSound, SoundOutcome
  <2>3. QED
    BY <2>1, <2>2 DEF ReviewInv, PanelIsWhole, AllSettled
<1>3. \A s \in Seats :
        {[seat |-> r.seat, path |-> r.path, severity |-> r.severity] : r \in SeatRows(s)} =
          {[seat |-> s, path |-> r.path, severity |-> r.severity] : r \in outcome[s].reports}
  <2>1. \A s : \A r \in outcome[s].reports :
          Row(s, r).seat = s /\ Row(s, r).path = r.path /\ Row(s, r).severity = r.severity
    BY DEF Row
  <2>2. ASSUME NEW s \in Seats
        PROVE  {[seat |-> r.seat, path |-> r.path, severity |-> r.severity] : r \in SeatRows(s)} =
                 {[seat |-> s, path |-> r.path, severity |-> r.severity] : r \in outcome[s].reports}
    <3> DEFINE L == {[seat |-> r.seat, path |-> r.path, severity |-> r.severity] : r \in SeatRows(s)}
               R == {[seat |-> s, path |-> r.path, severity |-> r.severity] : r \in outcome[s].reports}
    <3>1. ASSUME NEW x \in L PROVE x \in R
      <4>1. PICK r \in outcome[s].reports :
              x = [seat |-> Row(s, r).seat, path |-> Row(s, r).path, severity |-> Row(s, r).severity]
        BY Zenon DEF SeatRows
      <4>2. QED
        BY <2>1, <4>1
    <3>2. ASSUME NEW x \in R PROVE x \in L
      <4>1. PICK r \in outcome[s].reports :
              x = [seat |-> s, path |-> r.path, severity |-> r.severity]
        OBVIOUS
      <4>2. Row(s, r) \in SeatRows(s)
        BY DEF SeatRows
      <4>3. x = [seat |-> Row(s, r).seat, path |-> Row(s, r).path, severity |-> Row(s, r).severity]
        BY <2>1, <4>1
      <4>4. QED
        BY <4>2, <4>3
    <3> HIDE DEF L, R
    <3>3. L = R
      BY <3>1, <3>2
    <3>4. QED
      BY <3>3 DEF L, R
  <2>3. QED
    BY <2>2
<1>4. QED
  BY <1>1, <1>2, <1>3

(* recordFindingReports after allSettled: whatever the order in which the    *)
(* reviewers end and however the recording breaks off, rows are only added,  *)
(* in the order of the seats, each under a run of its round, and a panel     *)
(* over a clean worktree keeps all of its reports.                           *)
THEOREM ReportsHold == Spec => ReportsAreKept
<1> DEFINE Step ==
             /\ IsPrefix(findings, findings')
             /\ \A i, k \in DOMAIN NewRows : i < k => Seat(NewRows[i]) <= Seat(NewRows[k])
             /\ \A r \in Range(NewRows) : [round |-> r.round, agent |-> r.seat] \in runs
             /\ at = "panel" /\ at' \notin {"panel", "failed"} =>
                  {[seat |-> r.seat, path |-> r.path, severity |-> r.severity] : r \in Range(NewRows)} =
                    IF tree # "clean" THEN {}
                    ELSE UNION {{[seat |-> s, path |-> r.path, severity |-> r.severity] :
                                   r \in outcome[s].reports} : s \in Seats}
           rows == RecordedRows(Panel, outcome)
<1>1. ASSUME ReviewInv, [Next]_vars
      PROVE  Step
  <2>0. findings \in Seq(Findings) /\ OutcomesAreSound /\ round \in Nat
    BY <1>1 DEF ReviewInv, RoundsAreChained, InPlace
  <2>1. /\ rows \in Seq(Findings)
        /\ \A i, k \in DOMAIN rows : i <= k => Seat(rows[i]) <= Seat(rows[k])
    BY <2>0, RowsOfThePanel
  <2> HIDE DEF rows
  <2>2. PICK m \in Nat : m = Len(rows) /\ DOMAIN rows = 1..m
    BY <2>1, LenProperties
  <2>3. ASSUME findings' = findings, at = "panel" => at' \in {"panel", "failed"} \/ tree # "clean"
        PROVE  Step
    <3>1. <<>> \in Seq(Findings) /\ findings' = findings \o <<>>
      BY <2>0, <2>3, EmptySeq, ConcatEmptySeq
    <3>2. IsPrefix(findings, findings') /\ NewRows = <<>>
      BY <2>0, <3>1, NewRowsAreAdded
    <3>3. DOMAIN NewRows = {} /\ Range(NewRows) = {}
      BY <3>2 DEF Range
    <3>4. QED
      BY <2>3, <3>2, <3>3
  <2>4. CASE RecordingFails
    <3>1. PICK n \in 0..(m - 1) : findings' = findings \o SubSeq(rows, 1, n)
      BY <2>2, <2>4, Zenon DEF RecordingFails, rows
    <3> DEFINE some == SubSeq(rows, 1, n)
    <3>2. \A i \in 1..n : i \in DOMAIN rows /\ rows[i] \in Findings
      BY <2>1, <2>2, ElementOfSeq
    <3>3. some \in Seq(Findings) /\ DOMAIN some = 1..n /\ \A i \in 1..n : some[i] = rows[i]
      <4>1. /\ some \in Seq(Findings)
            /\ Len(some) = IF 1 <= n THEN n - 1 + 1 ELSE 0
            /\ \A i \in 1..(n - 1 + 1) : some[i] = rows[1 + i - 1]
        BY <3>2, SubSeqProperties
      <4> HIDE DEF some
      <4>2. Len(some) = n /\ \A i \in 1..n : some[i] = rows[i]
        BY <4>1
      <4>3. QED
        BY <4>1, <4>2, LenProperties
    <3>4. IsPrefix(findings, findings') /\ NewRows = some
      BY <2>0, <3>1, <3>3, NewRowsAreAdded
    <3> HIDE DEF some
    <3>5. \A i, k \in 1..n : i < k => Seat(some[i]) <= Seat(some[k])
      BY <2>1, <3>2, <3>3
    <3>6. Range(some) \subseteq Range(rows)
      BY <3>2, <3>3 DEF Range
    <3>7. \A r \in Range(rows) : [round |-> r.round, agent |-> r.seat] \in runs
      BY <1>1, <2>4, RowsOfASettledPanel DEF RecordingFails, rows
    <3>8. at' = "failed"
      BY <2>4 DEF RecordingFails
    <3>9. QED
      BY <3>3, <3>4, <3>5, <3>6, <3>7, <3>8
  <2>5. ASSUME AllSettled, tree = "clean", findings' = findings \o rows
        PROVE  Step
    <3>1. IsPrefix(findings, findings') /\ NewRows = rows
      BY <2>0, <2>1, <2>5, NewRowsAreAdded
    <3>2. /\ \A r \in Range(rows) : [round |-> r.round, agent |-> r.seat] \in runs
          /\ {[seat |-> r.seat, path |-> r.path, severity |-> r.severity] : r \in Range(rows)} =
               UNION {{[seat |-> s, path |-> r.path, severity |-> r.severity] :
                         r \in outcome[s].reports} : s \in Seats}
      BY <1>1, <2>5, RowsOfASettledPanel DEF rows
    <3>3. \A i, k \in DOMAIN rows : i < k => Seat(rows[i]) <= Seat(rows[k])
      BY <2>1, <2>2
    <3>4. QED
      BY <2>5, <3>1, <3>2, <3>3
  <2>6. CASE PanelFails
    BY <2>3, <2>5, <2>6 DEF PanelFails, rows
  <2>7. CASE PanelDecides
    BY <2>5, <2>7 DEF PanelDecides, rows
  <2>8. CASE Enter \/ StartRound \/ RemediationFails \/ Remediate \/ Verify \/ Deliver
    <3>1. findings' = findings /\ at # "panel"
      BY <2>8, Zenon DEF Enter, StartRound, RemediationFails, Remediate, Verify, Deliver, evidence
    <3>2. QED
      BY <2>3, <3>1
  <2>9. CASE \/ UNCHANGED <<at, findings>>
             \/ \E a \in Agents : Dispatched(a)
             \/ \E j \in Jobs : Process(j) \/ Disturb(j)
    <3>1. findings' = findings /\ at' = at
      BY <2>9, Zenon DEF Dispatched, Process, Disturb, stage, evidence
    <3>2. QED
      BY <2>3, <3>1
  <2>10. UNCHANGED vars => UNCHANGED <<at, findings>>
    BY DEF vars, stage, evidence
  <2>11. QED
    BY <1>1, <2>4, <2>6, <2>7, <2>8, <2>9, <2>10 DEF Next, StageStep
<1>2. QED
  BY <1>1, ReviewIsAlwaysWell, PTL DEF Spec, ReportsAreKept
=============================================================================
