---------------------------- MODULE PanelsProofs ----------------------------
(***************************************************************************)
(* Who reviews, proved for every installation, policy, request and         *)
(* inherited profile.  The selection is computed by recursive functions    *)
(* over its seats: the first section has what it takes to reason about     *)
(* them, which is that a set of numbers has a least one.                   *)
(***************************************************************************)
EXTENDS Panels, FiniteSetTheorems, SequenceTheorems, TLAPS

LEMMA LeastNumber ==
  ASSUME NEW T \in SUBSET Nat, T # {}
  PROVE  \E x \in T : \A y \in T : x <= y
  <1> DEFINE Below == {0..n : n \in T}
  <1>1. \A n \in T : 0..n \in FiniteSubsetsOf(Nat)
    BY FS_Interval DEF FiniteSubsetsOf
  <1>2. PICK X \in Below : \A Y \in Below : ~(<<Y, X>> \in StrictSubsetOrdering(Nat))
    <2>1. Below # {} /\ Below \subseteq FiniteSubsetsOf(Nat)
      BY <1>1
    <2> HIDE DEF Below
    <2> QED BY <2>1, WFMin, FS_StrictSubsetOrderingWellFounded
  <1>3. PICK x \in T : X = 0..x
    BY <1>2
  <1>4. ASSUME NEW y \in T, ~(x <= y)
        PROVE  FALSE
    <2>1. 0..y \in SUBSET (0..x) /\ 0..y # 0..x
      BY <1>4
    <2>2. <<0..y, 0..x>> \in StrictSubsetOrdering(Nat)
      BY <2>1 DEF StrictSubsetOrdering
    <2> QED BY <2>2, <1>2, <1>3
  <1> QED BY <1>4

(* Induction up to a bound: a set that has 0 and all the successors. *)
LEMMA UpTo ==
  ASSUME NEW N \in Nat, NEW T, 0 \in T, \A n \in 0..N : n \in T /\ n < N => n + 1 \in T
  PROVE  0..N \subseteq T
  <1> SUFFICES ASSUME (0..N) \ T # {} PROVE FALSE
    OBVIOUS
  <1>1. PICK x \in (0..N) \ T : \A y \in (0..N) \ T : x <= y
    <2> DEFINE Left == (0..N) \ T
    <2>1. Left \in SUBSET Nat /\ Left # {}
      OBVIOUS
    <2> HIDE DEF Left
    <2>2. \E x \in Left : \A y \in Left : x <= y
      BY <2>1, LeastNumber
    <2> QED BY <2>2 DEF Left
  <1>2. x \in Nat /\ x # 0
    BY <1>1
  <1>3. x - 1 \in 0..N /\ x - 1 < x /\ x - 1 < N
    BY <1>1, <1>2
  <1>4. x - 1 \in T
    BY <1>1, <1>3
  <1>5. (x - 1) + 1 \in T
    BY <1>3, <1>4
  <1> QED BY <1>1, <1>2, <1>5

(* Each value of f is determined by the one before. *)
Steps(N, x0, G, f) == f[0] = x0 /\ \A n \in 1..N : f[n] = G[n][f[n - 1]]

(* Such a function exists. *)
LEMMA Recursion ==
  ASSUME NEW N \in Nat, NEW X, NEW x0 \in X, NEW G \in [1..N -> [X -> X]]
  PROVE  \E f \in [0..N -> X] : Steps(N, x0, G, f)
  <1> DEFINE Good(m, f) == f[0] = x0 /\ \A n \in 1..m : f[n] = G[n][f[n - 1]]
             T == {m \in 0..N : \E f \in [0..N -> X] : Good(m, f)}
  <1>1. 0 \in T
    <2> DEFINE g == [n \in 0..N |-> x0]
    <2>1. g \in [0..N -> X] /\ Good(0, g)
      OBVIOUS
    <2> HIDE DEF g, Good
    <2> QED BY <2>1
  <1>2. ASSUME NEW m \in 0..N, m \in T, m < N
        PROVE  m + 1 \in T
    <2>1. PICK f \in [0..N -> X] : Good(m, f)
      BY <1>2
    <2> DEFINE g == [f EXCEPT ![m + 1] = G[m + 1][f[m]]]
    <2>2. f[m] \in X /\ m + 1 \in 1..N /\ G[m + 1][f[m]] \in X
      BY <1>2
    <2>3. g \in [0..N -> X]
      BY <2>2
    <2>4. \A n \in 0..m : g[n] = f[n]
      BY <1>2
    <2>5. g[m + 1] = G[m + 1][f[m]]
      BY <1>2
    <2> HIDE DEF g
    <2>6. g[0] = x0
      BY <1>2, <2>1, <2>4
    <2>7. ASSUME NEW n \in 1..(m + 1)
          PROVE  g[n] = G[n][g[n - 1]]
      <3>1. CASE n = m + 1
        <4>1. g[n - 1] = f[m]
          BY <1>2, <2>4, <3>1
        <4> QED BY <2>5, <3>1, <4>1
      <3>2. CASE n # m + 1
        <4>1. n \in 1..m /\ n - 1 \in 0..m /\ n \in 0..m
          BY <3>2
        <4> QED BY <2>1, <2>4, <4>1
      <3> QED BY <3>1, <3>2
    <2>8. Good(m + 1, g)
      BY <2>6, <2>7
    <2> HIDE DEF Good
    <2> QED BY <1>2, <2>3, <2>8
  <1>3. 0..N \subseteq T
    <2> HIDE DEF T
    <2> QED BY <1>1, <1>2, UpTo
  <1>4. N \in T
    BY <1>3
  <1> QED BY <1>4 DEF Steps

-----------------------------------------------------------------------------
(* Lists, sets and their sizes.                                              *)
LEMMA IntervalSize ==
  ASSUME NEW n \in Nat
  PROVE  /\ IsFiniteSet(1..n) /\ Cardinality(1..n) = n
         /\ IsFiniteSet(0..(n - 1)) /\ Cardinality(0..(n - 1)) = n
  <1>1. 0 \in Int /\ 1 \in Int /\ n \in Int /\ n - 1 \in Int
    OBVIOUS
  <1>2. IsFiniteSet(1..n) /\ Cardinality(1..n) = IF 1 > n THEN 0 ELSE n - 1 + 1
    BY <1>1, FS_Interval, Zenon
  <1>3. IsFiniteSet(0..(n - 1)) /\ Cardinality(0..(n - 1)) = IF 0 > n - 1 THEN 0 ELSE (n - 1) - 0 + 1
    BY <1>1, FS_Interval, Zenon
  <1> QED BY <1>2, <1>3

LEMMA RangeIsFinite ==
  ASSUME NEW X, NEW s \in Seq(X)
  PROVE  /\ IsFiniteSet(Range(s)) /\ Range(s) \subseteq X
         /\ Cardinality(Range(s)) \in Nat /\ Cardinality(Range(s)) <= Len(s)
  <1>1. s \in Surjection(1..Len(s), Range(s))
    BY DEF Surjection, Range
  <1>2. IsFiniteSet(1..Len(s)) /\ Cardinality(1..Len(s)) = Len(s)
    BY IntervalSize
  <1>3. IsFiniteSet(Range(s)) /\ Cardinality(Range(s)) <= Cardinality(1..Len(s))
    BY <1>1, <1>2, FS_Surjection
  <1>4. Range(s) \subseteq X
    BY DEF Range
  <1> QED BY <1>2, <1>3, <1>4, FS_CardinalityType

(* What is said of each member of a finite set is said finitely often.       *)
LEMMA ImageIsFinite ==
  ASSUME NEW S, IsFiniteSet(S), NEW T, NEW f \in [S -> T]
  PROVE  /\ IsFiniteSet(Range(f)) /\ Cardinality(Range(f)) \in Nat
         /\ Cardinality(Range(f)) <= Cardinality(S)
         /\ IsInjective(f) => Cardinality(Range(f)) = Cardinality(S)
  <1>1. f \in Surjection(S, Range(f))
    BY DEF Surjection, Range
  <1>2. IsFiniteSet(Range(f)) /\ Cardinality(Range(f)) <= Cardinality(S)
        /\ (Cardinality(Range(f)) = Cardinality(S) <=> f \in Injection(S, Range(f)))
    BY <1>1, FS_Surjection
  <1>3. f \in [S -> Range(f)]
    BY <1>1 DEF Surjection
  <1> QED BY <1>2, <1>3, FS_CardinalityType DEF Injection

(* Agents with integers for ids, no two of them with the same.               *)
Identified(S) ==
  /\ IsFiniteSet(S)
  /\ \A a \in S : a.id \in Int
  /\ \A a, b \in S : a.id = b.id => a = b

Rank(S, a) == Cardinality(Before(S, a))

(* Ranks are those of the ids, from none before to all the others before.    *)
LEMMA RanksFollowIds ==
  ASSUME NEW S, Identified(S)
  PROVE  /\ Cardinality(S) \in Nat
         /\ \A a \in S : Rank(S, a) \in 0..(Cardinality(S) - 1)
         /\ \A a, b \in S : a.id < b.id <=> Rank(S, a) < Rank(S, b)
  <1>1. Cardinality(S) \in Nat
    BY FS_CardinalityType DEF Identified
  <1>2. ASSUME NEW a \in S
        PROVE  IsFiniteSet(Before(S, a)) /\ Rank(S, a) \in Nat /\ Rank(S, a) < Cardinality(S)
    <2>1. Before(S, a) \in SUBSET S /\ Before(S, a) # S
      BY DEF Before, Identified
    <2>2. IsFiniteSet(Before(S, a)) /\ Cardinality(Before(S, a)) <= Cardinality(S)
          /\ Cardinality(Before(S, a)) # Cardinality(S)
      BY <2>1, FS_Subset DEF Identified
    <2> QED BY <1>1, <2>2, FS_CardinalityType DEF Rank
  <1>3. ASSUME NEW a \in S, NEW b \in S, a.id < b.id
        PROVE  Rank(S, a) < Rank(S, b)
    <2>1. Before(S, a) \in SUBSET Before(S, b)
      BY <1>3 DEF Before, Identified
    <2>2. a \in Before(S, b) /\ a \notin Before(S, a)
      BY <1>3 DEF Before, Identified
    <2>3. Cardinality(Before(S, a)) <= Cardinality(Before(S, b))
          /\ Cardinality(Before(S, a)) # Cardinality(Before(S, b))
      BY <2>1, <2>2, <1>2, FS_Subset
    <2> QED BY <1>2, <2>3 DEF Rank
  <1>4. ASSUME NEW a \in S, NEW b \in S, Rank(S, a) < Rank(S, b)
        PROVE  a.id < b.id
    <2>1. a.id \in Int /\ b.id \in Int /\ Rank(S, a) \in Nat /\ Rank(S, b) \in Nat
      BY <1>2 DEF Identified
    <2>2. CASE a.id = b.id
      BY <1>4, <2>1, <2>2 DEF Identified
    <2>3. CASE b.id < a.id
      BY <1>3, <1>4, <2>1, <2>3
    <2> QED BY <2>1, <2>2, <2>3
  <1> QED BY <1>1, <1>2, <1>3, <1>4

(* Every place has an agent of that rank.                                    *)
LEMMA RanksAreTaken ==
  ASSUME NEW S, Identified(S), NEW n \in 1..Cardinality(S)
  PROVE  \E a \in S : Rank(S, a) = n - 1
  <1> DEFINE N == Cardinality(S)
             rank == [a \in S |-> Rank(S, a)]
  <1>1. N \in Nat /\ rank \in [S -> 0..(N - 1)]
    BY RanksFollowIds
  <1>2. IsInjective(rank)
    <2> SUFFICES ASSUME NEW a \in S, NEW b \in S, Rank(S, a) = Rank(S, b) PROVE a = b
      BY DEF IsInjective
    <2>1. ~(a.id < b.id) /\ ~(b.id < a.id) /\ a.id \in Int /\ b.id \in Int
      BY RanksFollowIds DEF Identified
    <2> QED BY <2>1 DEF Identified
  <1>3. IsFiniteSet(0..(N - 1)) /\ Cardinality(0..(N - 1)) = N
    BY <1>1, IntervalSize
  <1>4. rank \in Injection(S, 0..(N - 1))
    BY <1>1, <1>2 DEF Injection
  <1>5. rank \in Surjection(S, 0..(N - 1))
    BY <1>3, <1>4, FS_Injection
  <1>6. n - 1 \in 0..(N - 1)
    BY <1>1
  <1>7. PICK a \in S : rank[a] = n - 1
    BY <1>5, <1>6 DEF Surjection
  <1> QED BY <1>7

(* The list by id has every agent once, in the order of the ids.             *)
LEMMA ByIdLists ==
  ASSUME NEW S, Identified(S)
  PROVE  /\ ById(S) \in Seq(S) /\ Len(ById(S)) = Cardinality(S) /\ Range(ById(S)) = S
         /\ \A i, k \in DOMAIN ById(S) : i < k => ById(S)[i].id < ById(S)[k].id
  <1>1. Cardinality(S) \in Nat
    BY RanksFollowIds
  <1>2. DOMAIN ById(S) = 1..Cardinality(S)
    BY DEF ById
  <1>3. ASSUME NEW n \in 1..Cardinality(S)
        PROVE  ById(S)[n] \in S /\ Rank(S, ById(S)[n]) = n - 1
    <2>1. \E a \in S : Cardinality(Before(S, a)) = n - 1
      BY RanksAreTaken DEF Rank
    <2>2. ById(S)[n] = CHOOSE a \in S : Cardinality(Before(S, a)) = n - 1
      BY DEF ById
    <2> QED BY <2>1, <2>2 DEF Rank
  <1>4. ById(S) \in Seq(S) /\ Len(ById(S)) = Cardinality(S)
    <2>1. ById(S) = [n \in 1..Cardinality(S) |-> ById(S)[n]]
      BY DEF ById
    <2> QED BY <1>1, <1>3, <2>1
  <1>5. ASSUME NEW i \in DOMAIN ById(S), NEW k \in DOMAIN ById(S), i < k
        PROVE  ById(S)[i].id < ById(S)[k].id
    <2>1. Rank(S, ById(S)[i]) < Rank(S, ById(S)[k])
      BY <1>1, <1>2, <1>3, <1>5
    <2> QED BY <1>2, <1>3, <2>1, RanksFollowIds
  <1>6. S \subseteq Range(ById(S))
    <2> SUFFICES ASSUME NEW a \in S PROVE a \in Range(ById(S))
      OBVIOUS
    <2> DEFINE n == Rank(S, a) + 1
    <2>1. n \in 1..Cardinality(S)
      BY <1>1, RanksFollowIds
    <2>2. ById(S)[n] \in S /\ Rank(S, ById(S)[n]) = Rank(S, a) /\ Rank(S, a) \in Nat
      BY <2>1, <1>3, RanksFollowIds
    <2>3. ~(a.id < ById(S)[n].id) /\ ~(ById(S)[n].id < a.id)
      BY <2>2, RanksFollowIds
    <2>4. a = ById(S)[n]
      BY <2>2, <2>3 DEF Identified
    <2> QED BY <1>2, <2>1, <2>4 DEF Range
  <1>7. Range(ById(S)) \subseteq S
    BY <1>2, <1>3 DEF Range
  <1> QED BY <1>4, <1>5, <1>6, <1>7

(* Some agent is the highest.                                                *)
LEMMA HighestIsOne ==
  ASSUME NEW S, Identified(S), S # {}
  PROVE  Highest(S) \in S
  <1>1. 1 \in 1..Cardinality(S)
    BY FS_EmptySet, RanksFollowIds DEF Identified
  <1>2. PICK a \in S : Rank(S, a) = 0
    BY <1>1, RanksAreTaken
  <1>3. ASSUME NEW b \in S
        PROVE  a.id <= b.id
    <2>1. ~(b.id < a.id) /\ a.id \in Int /\ b.id \in Int
      BY <1>2, RanksFollowIds DEF Identified
    <2> QED BY <2>1
  <1> QED BY <1>3 DEF Highest

LEMMA FirstIsOne ==
  ASSUME NEW X, NEW agents \in Seq(X), NEW S \in SUBSET Range(agents), S # {}
  PROVE  First(agents, S) \in S
  <1> DEFINE I == {i \in DOMAIN agents : agents[i] \in S}
  <1>1. I \in SUBSET Nat /\ I # {}
    BY DEF Range
  <1> HIDE DEF I
  <1>2. \E x \in I : \A y \in I : x <= y
    BY <1>1, LeastNumber
  <1>3. Min(I) \in I
    BY <1>2 DEF Min
  <1> QED BY <1>3 DEF First, I

-----------------------------------------------------------------------------
(* The two ways to take seats do take them one after the other.              *)
WithLens(pool, seats, size, lens) == {a \in pool : a.specialty = lens /\ Fits(seats, a, size)}
Fitting(pool, seats, size) == {a \in pool : Fits(seats, a, size)}

TakesRequired(agents, pool, size, required, f) ==
  /\ f[0] = <<>>
  /\ \A n \in 1..Len(required) :
       LET fit == WithLens(pool, f[n - 1], size, required[n])
       IN  f[n] = IF fit = {} THEN f[n - 1] ELSE Append(f[n - 1], First(agents, fit))

TakesRanked(seated, pool, size, f) ==
  /\ f[0] = seated
  /\ \A n \in 1..size :
       LET fit == Fitting(pool, f[n - 1], size)
       IN  f[n] = IF fit = {} THEN f[n - 1] ELSE Append(f[n - 1], Highest(fit))

LEMMA RequiredOneByOne ==
  ASSUME NEW X, NEW agents \in Seq(X), NEW pool \in SUBSET Range(agents), NEW size,
         NEW Y, NEW required \in Seq(Y)
  PROVE  \E f \in [0..Len(required) -> Seq(pool)] :
           /\ TakesRequired(agents, pool, size, required, f)
           /\ SeatRequired(agents, pool, size, required) = f[Len(required)]
  <1> DEFINE N == Len(required)
             Step(s, n) == LET fit == WithLens(pool, s, size, required[n])
                           IN  IF fit = {} THEN s ELSE Append(s, First(agents, fit))
             G == [n \in 1..N |-> [s \in Seq(pool) |-> Step(s, n)]]
             Eq(f) == f = [n \in 0..N |->
                        IF n = 0 THEN <<>>
                        ELSE LET fit == {a \in pool : a.specialty = required[n] /\ Fits(f[n - 1], a, size)}
                             IN  IF fit = {} THEN f[n - 1] ELSE Append(f[n - 1], First(agents, fit))]
  <1>1. N \in Nat
    OBVIOUS
  <1>2. ASSUME NEW s \in Seq(pool), NEW n \in 1..N
        PROVE  Step(s, n) \in Seq(pool)
    <2>1. WithLens(pool, s, size, required[n]) \in SUBSET pool
      BY DEF WithLens
    <2>2. WithLens(pool, s, size, required[n]) # {} =>
            First(agents, WithLens(pool, s, size, required[n])) \in pool
      BY <2>1, FirstIsOne
    <2> QED BY <2>2
  <1>3. G \in [1..N -> [Seq(pool) -> Seq(pool)]]
    <2> HIDE DEF Step, N
    <2> QED BY <1>2
  <1>4. PICK g \in [0..N -> Seq(pool)] :
          g[0] = <<>> /\ \A n \in 1..N : g[n] = G[n][g[n - 1]]
    <2>1. <<>> \in Seq(pool)
      OBVIOUS
    <2> DEFINE Z == Seq(pool)
    <2>2. <<>> \in Z /\ G \in [1..N -> [Z -> Z]]
      BY <1>3, <2>1
    <2> HIDE DEF G, N, Z
    <2>3. \E g \in [0..N -> Z] : Steps(N, <<>>, G, g)
      BY <1>1, <2>2, Recursion, Zenon
    <2> QED BY <2>3 DEF Z, Steps
  <1>5. \A n \in 1..N : g[n] = Step(g[n - 1], n)
    <2> SUFFICES ASSUME NEW n \in 1..N PROVE g[n] = Step(g[n - 1], n)
      OBVIOUS
    <2>1. n - 1 \in 0..N
      BY <1>1
    <2>2. g[n - 1] \in Seq(pool)
      BY <2>1
    <2> HIDE DEF Step, N
    <2> QED BY <1>4, <2>2
  <1>6. Eq(g)
    <2>1. \A n \in 0..N : n # 0 => n \in 1..N
      BY <1>1
    <2> QED BY <1>4, <1>5, <2>1 DEF WithLens
  <1> DEFINE f == CHOOSE h : Eq(h)
  <1>7. SeatRequired(agents, pool, size, required) = f[N]
    BY DEF SeatRequired
  <1>8. Eq(f)
    <2> HIDE DEF Eq
    <2> QED BY <1>6
  <1> HIDE DEF f
  <1>9. QED
    <2>1. f[0] = <<>>
      BY <1>1, <1>8
    <2>2. ASSUME NEW n \in 1..N
          PROVE  f[n] = Step(f[n - 1], n)
      <3>1. n \in 0..N /\ n # 0
        BY <1>1
      <3>2. f[n] = LET fit == {a \in pool : a.specialty = required[n] /\ Fits(f[n - 1], a, size)}
                   IN  IF fit = {} THEN f[n - 1] ELSE Append(f[n - 1], First(agents, fit))
        BY <1>8, <3>1, Zenon
      <3> QED BY <3>2 DEF WithLens
    <2> DEFINE T == {n \in 0..N : f[n] \in Seq(pool)}
    <2>3. 0 \in T
      <3>1. <<>> \in Seq(pool) /\ 0 \in 0..N
        BY <1>1
      <3> QED BY <2>1, <3>1
    <2>4. ASSUME NEW n \in 0..N, n \in T, n < N
          PROVE  n + 1 \in T
      <3>1. n + 1 \in 1..N /\ (n + 1) - 1 = n /\ n + 1 \in 0..N
        BY <1>1, <2>4
      <3>2. f[n + 1] = Step(f[n], n + 1)
        BY <2>2, <3>1
      <3> HIDE DEF Step
      <3> QED BY <1>2, <2>4, <3>1, <3>2
    <2>5. 0..N \subseteq T
      <3> HIDE DEF T, N
      <3> QED BY <1>1, <2>3, <2>4, UpTo
    <2>6. f \in [0..N -> Seq(pool)]
      <3>1. f = [n \in 0..N |-> f[n]]
        BY <1>8
      <3> HIDE DEF Eq, N
      <3> QED BY <2>5, <3>1
    <2>7. TakesRequired(agents, pool, size, required, f)
      BY <2>1, <2>2 DEF TakesRequired
    <2> QED BY <1>7, <2>6, <2>7

LEMMA RankedOneByOne ==
  ASSUME NEW S, Identified(S), NEW pool \in SUBSET S, NEW size \in Nat, NEW seated \in Seq(S)
  PROVE  \E f \in [0..size -> Seq(S)] :
           /\ TakesRanked(seated, pool, size, f)
           /\ SeatRanked(seated, pool, size) = f[size]
  <1> DEFINE Step(s) == LET fit == Fitting(pool, s, size)
                        IN  IF fit = {} THEN s ELSE Append(s, Highest(fit))
             G == [n \in 1..size |-> [s \in Seq(S) |-> Step(s)]]
             Eq(f) == f = [n \in 0..size |->
                        IF n = 0 THEN seated
                        ELSE LET fit == {a \in pool : Fits(f[n - 1], a, size)}
                             IN  IF fit = {} THEN f[n - 1] ELSE Append(f[n - 1], Highest(fit))]
  <1>1. ASSUME NEW s \in Seq(S)
        PROVE  Step(s) \in Seq(S)
    <2>1. Fitting(pool, s, size) \in SUBSET S
      BY DEF Fitting
    <2>2. Identified(Fitting(pool, s, size))
      BY <2>1, FS_Subset DEF Identified
    <2>3. Fitting(pool, s, size) # {} => Highest(Fitting(pool, s, size)) \in S
      BY <2>1, <2>2, HighestIsOne
    <2> QED BY <2>3
  <1>2. G \in [1..size -> [Seq(S) -> Seq(S)]]
    <2> HIDE DEF Step
    <2> QED BY <1>1
  <1>3. PICK g \in [0..size -> Seq(S)] :
          g[0] = seated /\ \A n \in 1..size : g[n] = G[n][g[n - 1]]
    <2> DEFINE Z == Seq(S)
    <2>1. seated \in Z /\ G \in [1..size -> [Z -> Z]]
      BY <1>2
    <2> HIDE DEF G, Z
    <2>2. \E g \in [0..size -> Z] : Steps(size, seated, G, g)
      BY <2>1, Recursion, Zenon
    <2> QED BY <2>2 DEF Z, Steps
  <1>4. \A n \in 1..size : g[n] = Step(g[n - 1])
    <2> SUFFICES ASSUME NEW n \in 1..size PROVE g[n] = Step(g[n - 1])
      OBVIOUS
    <2>1. n - 1 \in 0..size
      OBVIOUS
    <2>2. g[n - 1] \in Seq(S)
      BY <2>1
    <2> HIDE DEF Step
    <2> QED BY <1>3, <2>2
  <1>5. Eq(g)
    <2>1. \A n \in 0..size : n # 0 => n \in 1..size
      OBVIOUS
    <2> QED BY <1>3, <1>4, <2>1 DEF Fitting
  <1> DEFINE f == CHOOSE h : Eq(h)
  <1>6. SeatRanked(seated, pool, size) = f[size]
    BY DEF SeatRanked
  <1>7. Eq(f)
    <2> HIDE DEF Eq
    <2> QED BY <1>5
  <1> HIDE DEF f
  <1>8. f[0] = seated
    BY <1>7
  <1>9. ASSUME NEW n \in 1..size
        PROVE  f[n] = Step(f[n - 1])
    <2>1. n \in 0..size /\ n # 0
      OBVIOUS
    <2>2. f[n] = LET fit == {a \in pool : Fits(f[n - 1], a, size)}
                 IN  IF fit = {} THEN f[n - 1] ELSE Append(f[n - 1], Highest(fit))
      BY <1>7, <2>1, Zenon
    <2> QED BY <2>2 DEF Fitting
  <1>10. f \in [0..size -> Seq(S)]
    <2> DEFINE T == {n \in 0..size : f[n] \in Seq(S)}
    <2>1. 0 \in T
      BY <1>8
    <2>2. ASSUME NEW n \in 0..size, n \in T, n < size
          PROVE  n + 1 \in T
      <3>1. n + 1 \in 1..size /\ (n + 1) - 1 = n /\ n + 1 \in 0..size
        BY <2>2
      <3>2. f[n + 1] = Step(f[n])
        BY <1>9, <3>1
      <3> HIDE DEF Step
      <3> QED BY <1>1, <2>2, <3>1, <3>2
    <2>3. 0..size \subseteq T
      <3> HIDE DEF T
      <3> QED BY <2>1, <2>2, UpTo
    <2>4. f = [n \in 0..size |-> f[n]]
      BY <1>7
    <2> HIDE DEF Eq
    <2> QED BY <2>3, <2>4
  <1>11. TakesRanked(seated, pool, size, f)
    BY <1>8, <1>9 DEF TakesRanked
  <1> QED BY <1>6, <1>10, <1>11

-----------------------------------------------------------------------------
(* Seats that selectReviewers may have given: no agent and no lens twice.     *)
Sound(seats, S, size) ==
  /\ seats \in Seq(S) /\ Len(seats) <= size
  /\ \A i, k \in DOMAIN seats :
       i # k => seats[i].id # seats[k].id /\ seats[i].specialty # seats[k].specialty
  /\ \A a \in Range(seats) : a.specialty # None

(* Nobody loses a seat and one agent gets one.                               *)
Extends(t, seats, a) ==
  /\ Len(t) = Len(seats) + 1
  /\ \A i \in DOMAIN seats : t[i] = seats[i]
  /\ t[Len(seats) + 1] = a
  /\ Range(t) = Range(seats) \cup {a}

LEMMA AppendIsSound ==
  ASSUME NEW S, NEW size \in Nat, NEW seats, Sound(seats, S, size),
         NEW a \in S, Fits(seats, a, size)
  PROVE  Sound(Append(seats, a), S, size) /\ Extends(Append(seats, a), seats, a)
  <1> DEFINE t == Append(seats, a)
  <1>1. seats \in Seq(S) /\ Len(seats) \in Nat /\ DOMAIN seats = 1..Len(seats)
    BY DEF Sound
  <1>2. t \in Seq(S) /\ Len(t) = Len(seats) + 1 /\ DOMAIN t = 1..(Len(seats) + 1)
    BY <1>1
  <1>3. \A i \in 1..Len(seats) : t[i] = seats[i]
    BY <1>1
  <1>4. t[Len(seats) + 1] = a
    BY <1>1
  <1> HIDE DEF t
  <1>5. \A i \in DOMAIN t : i \in 1..Len(seats) \/ i = Len(seats) + 1
    BY <1>1, <1>2
  <1>6. Range(t) = Range(seats) \cup {a}
    <2>1. Range(t) \subseteq Range(seats) \cup {a}
      BY <1>1, <1>3, <1>4, <1>5 DEF Range
    <2>2. \A i \in 1..Len(seats) : i \in DOMAIN t
      BY <1>1, <1>2
    <2>3. Len(seats) + 1 \in DOMAIN t
      BY <1>1, <1>2
    <2> QED BY <1>1, <1>3, <1>4, <2>1, <2>2, <2>3 DEF Range
  <1>7. \A i \in 1..Len(seats) : seats[i].id # a.id /\ seats[i].specialty # a.specialty
    BY <1>1 DEF Fits, Range
  <1>8. ASSUME NEW i \in DOMAIN t, NEW k \in DOMAIN t, i # k
        PROVE  t[i].id # t[k].id /\ t[i].specialty # t[k].specialty
    <2>1. CASE i \in 1..Len(seats) /\ k \in 1..Len(seats)
      BY <1>1, <1>3, <1>8, <2>1 DEF Sound
    <2>2. CASE i \in 1..Len(seats) /\ k = Len(seats) + 1
      BY <1>3, <1>4, <1>7, <2>2
    <2>3. CASE k \in 1..Len(seats) /\ i = Len(seats) + 1
      BY <1>3, <1>4, <1>7, <2>3
    <2> QED BY <1>5, <1>8, <2>1, <2>2, <2>3
  <1>9. Len(t) <= size
    BY <1>1, <1>2 DEF Fits
  <1>10. \A b \in Range(t) : b.specialty # None
    BY <1>6 DEF Sound, Fits
  <1>11. Sound(t, S, size)
    BY <1>2, <1>8, <1>9, <1>10 DEF Sound
  <1> QED BY <1>1, <1>2, <1>3, <1>4, <1>6, <1>11 DEF t, Extends

(* Every configured lens gets its seat, in order, when some agent has it.     *)
LEMMA RequiredAreSeated ==
  ASSUME NEW X, NEW agents \in Seq(X), NEW pool \in SUBSET Range(agents), NEW size \in Nat,
         Identified(pool), NEW Y, NEW required \in Seq(Y), IsInjective(required),
         Len(required) <= size, Range(required) \subseteq Lenses(pool)
  PROVE  LET t == SeatRequired(agents, pool, size, required)
         IN  /\ Sound(t, pool, size) /\ Len(t) = Len(required)
             /\ \A i \in DOMAIN required : t[i].specialty = required[i]
  <1> DEFINE N == Len(required)
  <1>1. N \in Nat /\ DOMAIN required = 1..N
    OBVIOUS
  <1>2. PICK f \in [0..N -> Seq(pool)] :
          TakesRequired(agents, pool, size, required, f) /\ SeatRequired(agents, pool, size, required) = f[N]
    BY RequiredOneByOne, Zenon
  <1> DEFINE P(n) == /\ Sound(f[n], pool, size) /\ Len(f[n]) = n
                     /\ \A i \in 1..n : f[n][i].specialty = required[i]
             T == {n \in 0..N : P(n)}
  <1>3. 0 \in T
    BY <1>1, <1>2 DEF Sound, Range, TakesRequired
  <1>4. ASSUME NEW n \in 0..N, n \in T, n < N
        PROVE  n + 1 \in T
    <2> DEFINE lens == required[n + 1]
               fit == WithLens(pool, f[n], size, lens)
               a == First(agents, fit)
    <2>1. n + 1 \in 1..N /\ n + 1 \in 0..N /\ (n + 1) - 1 = n /\ n \in Nat
      BY <1>1, <1>4
    <2>2. f[n + 1] = IF fit = {} THEN f[n] ELSE Append(f[n], a)
      <3> HIDE DEF P
      <3> QED BY <1>2, <2>1 DEF TakesRequired
    <2>3. PICK b \in pool : b.specialty = lens /\ lens # None
      BY <1>1, <2>1 DEF Range, Lenses
    <2>4. ASSUME NEW s \in Range(f[n])
          PROVE  s.id # b.id /\ s.specialty # b.specialty
      <3>1. PICK i \in 1..n : s = f[n][i]
        BY <1>4 DEF Range, Sound
      <3>2. s.specialty = required[i] /\ i \in DOMAIN required /\ i # n + 1 /\ n + 1 \in DOMAIN required
        BY <1>1, <1>4, <2>1, <3>1
      <3>3. s.specialty # b.specialty
        BY <2>3, <3>2 DEF IsInjective
      <3>4. s \in pool
        BY <1>2, <3>1, <1>4 DEF Sound
      <3> QED BY <3>3, <3>4 DEF Identified
    <2>5. b \in fit
      BY <1>1, <1>4, <2>1, <2>3, <2>4 DEF WithLens, Fits
    <2>6. fit \in SUBSET Range(agents) /\ fit # {}
      BY <2>5 DEF WithLens
    <2>7. a \in fit
      <3> HIDE DEF fit
      <3> QED BY <2>6, FirstIsOne
    <2>8. a \in pool /\ a.specialty = lens /\ Fits(f[n], a, size)
      <3> HIDE DEF a
      <3> QED BY <2>7 DEF WithLens
    <2> HIDE DEF a, fit
    <2>9. f[n + 1] = Append(f[n], a)
      BY <2>2, <2>6
    <2>10. Sound(f[n], pool, size) /\ Len(f[n]) = n /\ \A i \in 1..n : f[n][i].specialty = required[i]
      BY <1>4
    <2>11. /\ Sound(f[n + 1], pool, size) /\ Len(f[n + 1]) = n + 1
           /\ \A i \in DOMAIN f[n] : f[n + 1][i] = f[n][i]
           /\ f[n + 1][n + 1] = a
      <3>1. Sound(f[n + 1], pool, size) /\ Extends(f[n + 1], f[n], a)
        BY <2>8, <2>9, <2>10, AppendIsSound
      <3> QED BY <2>10, <3>1 DEF Extends
    <2>12. DOMAIN f[n] = 1..n
      BY <2>1, <2>10 DEF Sound
    <2>13. \A i \in 1..(n + 1) : f[n + 1][i].specialty = required[i]
      <3>1. \A i \in 1..(n + 1) : i \in 1..n \/ i = n + 1
        BY <2>1
      <3> QED BY <2>8, <2>10, <2>11, <2>12, <3>1
    <2> QED BY <2>1, <2>11, <2>13
  <1>5. 0..N \subseteq T
    <2> HIDE DEF T, N
    <2> QED BY <1>1, <1>3, <1>4, UpTo
  <1>6. N \in T
    BY <1>1, <1>5
  <1> QED BY <1>1, <1>2, <1>6

(* t has the seats of seated, and after them only agents of the pool.         *)
Keeps(t, seated, S, pool, size) ==
  /\ Sound(t, S, size)
  /\ Len(seated) <= Len(t) /\ \A i \in DOMAIN seated : t[i] = seated[i]
  /\ Range(seated) \subseteq Range(t) /\ Range(t) \subseteq Range(seated) \cup pool

(* A walk by rank keeps the seats there are, seats only agents of its pool,   *)
(* and stops for want of seats or when every lens of the pool has one.        *)
LEMMA RankedAreSeated ==
  ASSUME NEW S, Identified(S), NEW pool \in SUBSET S, NEW size \in Nat,
         NEW seated, Sound(seated, S, size)
  PROVE  LET t == SeatRanked(seated, pool, size)
         IN  /\ Keeps(t, seated, S, pool, size)
             /\ Len(t) = size \/ Lenses(pool) \subseteq Lenses(Range(t))
  <1>1. seated \in Seq(S)
    BY DEF Sound
  <1>2. PICK f \in [0..size -> Seq(S)] :
          TakesRanked(seated, pool, size, f) /\ SeatRanked(seated, pool, size) = f[size]
    BY <1>1, RankedOneByOne
  <1> DEFINE Kept(t) == Keeps(t, seated, S, pool, size)
             Done(t) == Lenses(pool) \subseteq Lenses(Range(t))
             T == {n \in 0..size : Kept(f[n]) /\ (Len(f[n]) >= n \/ Done(f[n]))}
  <1>3. 0 \in T
    <2>1. Kept(seated) /\ Len(seated) >= 0
      BY <1>1 DEF Keeps
    <2> HIDE DEF Kept, Done
    <2> QED BY <1>2, <2>1 DEF TakesRanked
  <1>4. ASSUME NEW n \in 0..size, n \in T, n < size
        PROVE  n + 1 \in T
    <2> DEFINE fit == Fitting(pool, f[n], size)
               a == Highest(fit)
    <2>1. n + 1 \in 1..size /\ n + 1 \in 0..size /\ (n + 1) - 1 = n /\ n \in Nat
      BY <1>4
    <2>2. f[n + 1] = IF fit = {} THEN f[n] ELSE Append(f[n], a)
      <3> HIDE DEF T
      <3> QED BY <1>2, <2>1 DEF TakesRanked
    <2>3. Kept(f[n]) /\ (Len(f[n]) >= n \/ Done(f[n])) /\ f[n] \in Seq(S)
      BY <1>2, <1>4
    <2>4. CASE fit = {}
      <3>1. Len(f[n]) >= n + 1 \/ Done(f[n])
        <4>1. SUFFICES ASSUME Len(f[n]) < size, NEW b \in pool, b.specialty # None
                       PROVE  \E s \in Range(f[n]) : s.specialty = b.specialty
          <5>1. Len(f[n]) <= size /\ Len(f[n]) \in Nat
            BY <2>3 DEF Sound, Keeps
          <5>2. Len(f[n]) = size => Len(f[n]) >= n + 1
            BY <1>4
          <5>3. (\A b \in pool : b.specialty # None => \E s \in Range(f[n]) : s.specialty = b.specialty)
                => Done(f[n])
            BY DEF Lenses
          <5> HIDE DEF Done, Kept
          <5> QED BY <5>1, <5>2, <5>3
        <4>2. ~Fits(f[n], b, size)
          BY <2>4 DEF Fitting
        <4>3. PICK s \in Range(f[n]) : s.id = b.id \/ s.specialty = b.specialty
          BY <4>1, <4>2 DEF Fits
        <4>4. s \in S
          BY <2>3, <4>3 DEF Range
        <4> QED BY <4>3, <4>4 DEF Identified
      <3>2. f[n + 1] = f[n]
        BY <2>2, <2>4
      <3> HIDE DEF Kept, Done
      <3> QED BY <2>1, <2>3, <3>1, <3>2
    <2>5. CASE fit # {}
      <3>1. fit \in SUBSET pool /\ Identified(fit)
        <4>1. fit \in SUBSET S
          BY DEF Fitting
        <4> QED BY <4>1, FS_Subset DEF Identified, Fitting
      <3>2. a \in fit
        <4> HIDE DEF fit
        <4> QED BY <2>5, <3>1, HighestIsOne
      <3>3. a \in pool /\ a \in S /\ Fits(f[n], a, size)
        <4> HIDE DEF a
        <4> QED BY <3>2 DEF Fitting
      <3> HIDE DEF a, fit
      <3>4. f[n + 1] = Append(f[n], a)
        BY <2>2, <2>5
      <3>5. /\ Sound(f[n + 1], S, size) /\ Len(f[n + 1]) = Len(f[n]) + 1
            /\ \A i \in DOMAIN f[n] : f[n + 1][i] = f[n][i]
            /\ Range(f[n + 1]) = Range(f[n]) \cup {a}
        <4>1. Sound(f[n], S, size)
          BY <2>3 DEF Keeps
        <4>2. Sound(f[n + 1], S, size) /\ Extends(f[n + 1], f[n], a)
          BY <3>3, <3>4, <4>1, AppendIsSound
        <4> QED BY <4>2 DEF Extends
      <3>6. DOMAIN seated \subseteq DOMAIN f[n] /\ Len(f[n]) \in Nat /\ Len(seated) \in Nat
        BY <1>1, <2>3 DEF Keeps
      <3>7. Kept(f[n + 1])
        <4>1. Len(seated) <= Len(f[n + 1])
          BY <2>3, <3>5, <3>6 DEF Keeps
        <4>2. \A i \in DOMAIN seated : f[n + 1][i] = seated[i]
          BY <2>3, <3>5, <3>6 DEF Keeps
        <4>3. Range(seated) \subseteq Range(f[n + 1]) /\ Range(f[n + 1]) \subseteq Range(seated) \cup pool
          BY <2>3, <3>3, <3>5 DEF Keeps
        <4> QED BY <3>5, <4>1, <4>2, <4>3 DEF Keeps
      <3>8. Len(f[n + 1]) >= n + 1 \/ Done(f[n + 1])
        <4>1. CASE Len(f[n]) >= n
          BY <2>1, <3>5, <3>6, <4>1
        <4>2. CASE Done(f[n])
          BY <3>5, <4>2 DEF Lenses
        <4> QED BY <2>3, <4>1, <4>2
      <3> HIDE DEF Kept, Done
      <3> QED BY <2>1, <3>7, <3>8
    <2> QED BY <2>4, <2>5
  <1>5. 0..size \subseteq T
    <2> HIDE DEF T
    <2> QED BY <1>3, <1>4, UpTo
  <1>6. size \in T
    BY <1>5
  <1>7. Kept(f[size]) /\ (Len(f[size]) = size \/ Done(f[size]))
    <2>1. Kept(f[size]) /\ (Len(f[size]) >= size \/ Done(f[size]))
      <3> HIDE DEF Kept, Done
      <3> QED BY <1>6
    <2>2. Len(f[size]) <= size /\ Len(f[size]) \in Nat
      BY <2>1 DEF Sound, Keeps
    <2> HIDE DEF Kept, Done
    <2> QED BY <2>1, <2>2
  <1> QED BY <1>2, <1>7

-----------------------------------------------------------------------------
(* The panel of a spec or a plan review.                                      *)
LEMMA ReviewersAreIdentified ==
  ASSUME NEW agents, IsListing(agents), NEW output, NEW executor,
         DistinctIds(agents, output, executor)
  PROVE  Identified(Eligible(agents, output, executor))
  <1>1. IsFiniteSet(Range(agents)) /\ \A a \in Range(agents) : a.id \in Int
    BY RangeIsFinite DEF IsListing
  <1>2. Eligible(agents, output, executor) \in SUBSET Range(agents)
    BY DEF Eligible
  <1>3. IsFiniteSet(Eligible(agents, output, executor))
    BY <1>1, <1>2, FS_Subset
  <1>4. ASSUME NEW a \in Eligible(agents, output, executor),
               NEW b \in Eligible(agents, output, executor), a.id = b.id
        PROVE  a = b
    <2>1. PICK i \in DOMAIN agents : a = agents[i] /\ Reviews(a, output, executor)
      BY DEF Eligible, Range
    <2>2. PICK k \in DOMAIN agents : b = agents[k] /\ Reviews(b, output, executor)
      BY DEF Eligible, Range
    <2> QED BY <1>4, <2>1, <2>2 DEF DistinctIds
  <1> QED BY <1>1, <1>2, <1>3, <1>4 DEF Identified

LEMMA CandidatesAreEligible ==
  ASSUME NEW agents
  PROVE  Candidates(agents) = Eligible(agents, "findings", Executor.id)
  BY DEF Candidates, Eligible, Reviews

LEMMA LensesAreFinite ==
  ASSUME NEW S, IsFiniteSet(S)
  PROVE  IsFiniteSet(Lenses(S)) /\ Cardinality(Lenses(S)) \in Nat
  <1> DEFINE f == [a \in S |-> a.specialty]
             T == {a.specialty : a \in S}
  <1>1. f \in [S -> T] /\ Range(f) = T
    BY DEF Range
  <1>2. IsFiniteSet(T)
    <2> HIDE DEF f, T
    <2>1. IsFiniteSet(Range(f))
      BY <1>1, ImageIsFinite
    <2> QED BY <1>1, <2>1
  <1>3. Lenses(S) \in SUBSET T
    BY DEF Lenses
  <1> QED BY <1>2, <1>3, FS_Subset, FS_CardinalityType

(* As many seats as lenses.                                                   *)
LEMMA SeatsAreLenses ==
  ASSUME NEW S, NEW size \in Nat, NEW seats, Sound(seats, S, size)
  PROVE  /\ IsFiniteSet(Lenses(Range(seats)))
         /\ Cardinality(Lenses(Range(seats))) = Len(seats) /\ Len(seats) \in Nat
  <1> DEFINE N == Len(seats)
             f == [i \in 1..N |-> seats[i].specialty]
  <1>1. N \in Nat /\ DOMAIN seats = 1..N
    BY DEF Sound
  <1>2. f \in [1..N -> Range(f)] /\ IsInjective(f)
    BY <1>1 DEF Sound, IsInjective, Range
  <1>3. Range(f) = Lenses(Range(seats))
    BY <1>1 DEF Range, Lenses, Sound
  <1>4. IsFiniteSet(1..N) /\ Cardinality(1..N) = N
    BY <1>1, IntervalSize
  <1> HIDE DEF f, N
  <1>5. IsFiniteSet(Range(f)) /\ Cardinality(Range(f)) = N
    BY <1>2, <1>4, ImageIsFinite
  <1> QED BY <1>1, <1>3, <1>5 DEF N

ExactSelection(t, agents, size, required, requested) ==
  /\ Len(t) = size /\ Sound(t, Candidates(agents), size)
  /\ \A i \in DOMAIN required : t[i].specialty = required[i]
  /\ Range(requested) \subseteq Lenses(Range(t))

(* What can be staffed is seated: every seat is taken, the configured lenses  *)
(* come first and every lens that was asked for is there.                     *)
LEMMA SelectionIsExact ==
  ASSUME NEW agents, IsListing(agents), NEW size \in Nat,
         NEW Y, NEW required \in Seq(Y), NEW Z, NEW requested \in Seq(Z),
         Staffed(agents, size, required, requested, Executor.id)
  PROVE  ExactSelection(SelectReviewers(agents, size, required, requested),
                        agents, size, required, requested)
  <1> DEFINE pool == Candidates(agents)
             asked == Asked(pool, requested)
             U == Range(required) \cup Range(requested)
             first == SeatRequired(agents, pool, size, required)
             second == SeatRanked(first, asked, size)
             third == SeatRanked(second, pool, size)
  <1>1. SelectReviewers(agents, size, required, requested) = third
    BY DEF SelectReviewers
  <1>2. Identified(pool) /\ pool \in SUBSET Range(agents) /\ agents \in Seq(Range(agents))
    BY ReviewersAreIdentified, CandidatesAreEligible DEF Staffed, Eligible, IsListing
  <1>3. /\ IsInjective(required) /\ U \subseteq Lenses(pool)
        /\ Cardinality(U) <= size /\ Cardinality(Lenses(pool)) >= size
    BY CandidatesAreEligible DEF Staffed
  <1>4. IsFiniteSet(Lenses(pool)) /\ Cardinality(Lenses(pool)) \in Nat
    BY <1>2, LensesAreFinite DEF Identified
  <1>5. IsFiniteSet(U) /\ Cardinality(U) \in Nat
    BY <1>3, <1>4, FS_Subset, FS_CardinalityType
  <1>6. Len(required) <= size
    <2>1. required \in [1..Len(required) -> Range(required)] /\ Len(required) \in Nat
      BY DEF Range
    <2>2. Cardinality(Range(required)) = Len(required)
      BY <1>3, <2>1, IntervalSize, ImageIsFinite
    <2>3. Cardinality(Range(required)) <= Cardinality(U)
      BY <1>5, FS_Subset
    <2> QED BY <1>3, <1>5, <2>1, <2>2, <2>3
  <1>7. asked \in SUBSET pool
    BY DEF Asked
  <1>8. /\ Sound(first, pool, size) /\ Len(first) = Len(required)
        /\ \A i \in DOMAIN required : first[i].specialty = required[i]
    <2> HIDE DEF pool
    <2>1. Range(required) \subseteq Lenses(pool)
      BY <1>3
    <2> QED BY <1>2, <1>3, <1>6, <2>1, RequiredAreSeated
  <1>9. /\ Keeps(second, first, pool, asked, size)
        /\ Len(second) = size \/ Lenses(asked) \subseteq Lenses(Range(second))
    <2> HIDE DEF pool, asked, first
    <2> QED BY <1>2, <1>7, <1>8, RankedAreSeated
  <1>10. /\ Keeps(third, second, pool, pool, size)
         /\ Len(third) = size \/ Lenses(pool) \subseteq Lenses(Range(third))
    <2>1. Sound(second, pool, size)
      BY <1>9 DEF Keeps
    <2> HIDE DEF pool, second
    <2> QED BY <1>2, <2>1, RankedAreSeated
  <1> HIDE DEF pool, first, second, third
  <1>11. Len(third) = size
    <2>1. Sound(third, pool, size)
      BY <1>10 DEF Keeps
    <2>2. /\ IsFiniteSet(Lenses(Range(third)))
          /\ Cardinality(Lenses(Range(third))) = Len(third) /\ Len(third) \in Nat
      BY <2>1, SeatsAreLenses
    <2>3. CASE Lenses(pool) \subseteq Lenses(Range(third))
      <3>1. Cardinality(Lenses(pool)) <= Len(third)
        BY <2>2, <2>3, FS_Subset
      <3>2. Len(third) <= size
        BY <2>1 DEF Sound
      <3> QED BY <1>3, <1>4, <2>2, <3>1, <3>2
    <2> QED BY <1>10, <2>3
  <1>12. Range(requested) \subseteq Lenses(Range(second))
    <2>1. CASE Lenses(asked) \subseteq Lenses(Range(second))
      <3>1. Range(requested) \subseteq Lenses(asked)
        BY <1>3 DEF Asked, Lenses
      <3> QED BY <2>1, <3>1
    <2>2. CASE Len(second) = size
      <3>1. ASSUME NEW a \in Range(second), a.specialty # None
            PROVE  a.specialty \in U
        <4>1. CASE a \in asked
          BY <4>1 DEF Asked
        <4>2. CASE a \in Range(first)
          <5>1. PICK i \in DOMAIN required : a = first[i]
            BY <1>8, <4>2 DEF Range, Sound
          <5> QED BY <1>8, <5>1 DEF Range
        <4> QED BY <1>9, <4>1, <4>2 DEF Keeps
      <3>2. Lenses(Range(second)) \in SUBSET U
        BY <3>1 DEF Lenses
      <3>3. Sound(second, pool, size)
        BY <1>9 DEF Keeps
      <3>4. Cardinality(Lenses(Range(second))) = size
        BY <2>2, <3>3, SeatsAreLenses
      <3>5. Cardinality(Lenses(Range(second))) <= Cardinality(U)
        BY <1>5, <3>2, FS_Subset
      <3>6. Cardinality(U) = Cardinality(Lenses(Range(second)))
        BY <1>3, <1>5, <3>4, <3>5
      <3>7. U = Lenses(Range(second))
        <4> HIDE DEF U
        <4> QED BY <1>5, <3>2, <3>6, FS_Subset
      <3> QED BY <3>7
    <2> QED BY <1>9, <2>1, <2>2
  <1>13. Range(requested) \subseteq Lenses(Range(third))
    BY <1>10, <1>12 DEF Keeps, Lenses
  <1>14. ASSUME NEW i \in DOMAIN required
         PROVE  third[i].specialty = required[i]
    <2>1. i \in DOMAIN first /\ first \in Seq(pool)
      BY <1>8 DEF Sound
    <2>2. second[i] = first[i] /\ i \in DOMAIN second
      BY <1>9, <2>1 DEF Keeps, Sound
    <2>3. third[i] = second[i]
      BY <1>10, <2>2 DEF Keeps
    <2> QED BY <1>8, <2>2, <2>3
  <1>15. Sound(third, pool, size)
    BY <1>10 DEF Keeps
  <1> QED BY <1>1, <1>11, <1>13, <1>14, <1>15 DEF ExactSelection, pool

LEMMA OrderOfLensesIsNot ==
  ASSUME NEW agents, NEW size, NEW required, NEW Z, NEW requested \in Seq(Z)
  PROVE  SelectReviewers(agents, size, required, Reverse(requested))
         = SelectReviewers(agents, size, required, requested)
  <1> DEFINE N == Len(requested)
             back == Reverse(requested)
  <1>1. N \in Nat /\ DOMAIN requested = 1..N
    OBVIOUS
  <1>2. DOMAIN back = 1..N /\ \A i \in 1..N : back[i] = requested[(N - i) + 1]
    BY DEF Reverse
  <1>3. \A i \in 1..N : (N - i) + 1 \in 1..N /\ (N - ((N - i) + 1)) + 1 = i
    BY <1>1
  <1> HIDE DEF N, back
  <1>4. \A i \in 1..N : requested[i] = back[(N - i) + 1]
    BY <1>2, <1>3
  <1>5. Range(back) = Range(requested)
    BY <1>1, <1>2, <1>3, <1>4 DEF Range
  <1>6. Asked(Candidates(agents), back) = Asked(Candidates(agents), requested)
    BY <1>5 DEF Asked
  <1> QED BY <1>6 DEF SelectReviewers, back

(* What is refused cannot be seated in any other way.                         *)
LEMMA NoOtherSeating ==
  ASSUME NEW agents, IsListing(agents), NEW size \in Nat, NEW required, NEW requested,
         IsInjective(required), IsInjective(requested),
         Cardinality(Range(required) \cup Range(requested)) <= size,
         DistinctIds(agents, "findings", Executor.id),
         ~Staffed(agents, size, required, requested, Executor.id)
  PROVE  Seatings(agents, size, Range(required) \cup Range(requested)) = {}
  <1> DEFINE R == Eligible(agents, "findings", Executor.id)
             U == Range(required) \cup Range(requested)
  <1>1. SUFFICES ASSUME NEW S \in Seatings(agents, size, U) PROVE FALSE
    OBVIOUS
  <1> DEFINE W == {a.specialty : a \in S}
  <1>2. S \in SUBSET R /\ Cardinality(W) = size /\ U \subseteq W /\ None \notin W
    BY DEF Seatings
  <1>3. IsFiniteSet(Lenses(R)) /\ Cardinality(Lenses(R)) \in Nat
    BY ReviewersAreIdentified, LensesAreFinite DEF Identified
  <1>4. W \in SUBSET Lenses(R)
    BY <1>2 DEF Lenses
  <1>5. Cardinality(W) <= Cardinality(Lenses(R))
    <2> HIDE DEF W, R
    <2> QED BY <1>3, <1>4, FS_Subset
  <1>6. U \subseteq Lenses(R) /\ Cardinality(Lenses(R)) >= size
    <2> HIDE DEF W, U, R
    <2> QED BY <1>2, <1>3, <1>4, <1>5
  <1> QED BY <1>6 DEF Staffed

-----------------------------------------------------------------------------
(* The panel of the code review.                                              *)
ExactCodePanel(t, agents, size) ==
  LET reviewers == Eligible(agents, "code-findings", Executor.id)
  IN  /\ t \in Seq(reviewers) /\ Len(t) = size
      /\ \A i, k \in DOMAIN t : i < k => t[i].id < t[k].id
      /\ \A a \in reviewers \ Range(t) : \A s \in Range(t) : s.id < a.id

LEMMA CodePanelIsExact ==
  ASSUME NEW agents, IsListing(agents), NEW size, CodeStaffed(agents, size, Executor.id)
  PROVE  ExactCodePanel(CodePanel(agents, size, Executor.id), agents, size)
  <1> DEFINE Q == Eligible(agents, "code-findings", Executor.id)
             ranked == ById(Q)
             t == CodePanel(agents, size, Executor.id)
  <1>1. size \in 2..5 /\ Cardinality(Q) >= size
    BY DEF CodeStaffed, SizeFloor, SizeCeiling
  <1>2. Identified(Q)
    BY ReviewersAreIdentified DEF CodeStaffed
  <1>3. Cardinality(Q) \in Nat
    BY <1>2, RanksFollowIds
  <1> HIDE DEF Q
  <1>4. /\ ranked \in Seq(Q) /\ Len(ranked) = Cardinality(Q) /\ Range(ranked) = Q
        /\ \A i, k \in DOMAIN ranked : i < k => ranked[i].id < ranked[k].id
    BY <1>2, ByIdLists
  <1>5. t = SubSeq(ranked, 1, Min({size, Len(ranked)}))
    BY DEF CodePanel, Q
  <1> HIDE DEF ranked, t
  <1>6. Min({size, Len(ranked)}) = size
    BY <1>1, <1>3, <1>4 DEF Min
  <1>7. t \in Seq(Q) /\ Len(t) = size /\ \A i \in 1..size : t[i] = ranked[i]
    <2>1. t = SubSeq(ranked, 1, size) /\ size \in Nat /\ size <= Len(ranked)
      <3>1. t = SubSeq(ranked, 1, size)
        BY <1>5, <1>6, Zenon
      <3> QED BY <1>1, <1>3, <1>4, <3>1
    <2>2. \A i \in 1..size : i \in 1..Len(ranked)
      BY <1>3, <1>4, <2>1
    <2>3. t = [i \in 1..size |-> ranked[i]]
      BY <1>4, <2>1, <2>2
    <2>4. \A i \in 1..size : ranked[i] \in Q
      BY <1>4, <2>2
    <2> QED BY <2>1, <2>3, <2>4
  <1>8. DOMAIN t = 1..size /\ DOMAIN ranked = 1..Cardinality(Q) /\ 1..size \subseteq 1..Cardinality(Q)
    BY <1>1, <1>3, <1>4, <1>7
  <1>9. \A i, k \in DOMAIN t : i < k => t[i].id < t[k].id
    BY <1>4, <1>7, <1>8
  <1>10. ASSUME NEW a \in Q \ Range(t), NEW s \in Range(t)
         PROVE  s.id < a.id
    <2>1. PICK k \in 1..Cardinality(Q) : a = ranked[k]
      BY <1>4, <1>8 DEF Range
    <2>2. PICK i \in 1..size : s = ranked[i]
      BY <1>7, <1>8 DEF Range
    <2>3. k \notin 1..size
      BY <1>7, <1>8, <2>1 DEF Range
    <2>4. i < k
      BY <1>1, <1>3, <2>1, <2>2, <2>3
    <2> QED BY <1>4, <1>8, <2>1, <2>2, <2>4
  <1> QED BY <1>7, <1>9, <1>10 DEF ExactCodePanel, Q, t

-----------------------------------------------------------------------------
(* Freezing sorts the agents and changes nothing else about them.             *)
LEMMA FreezingSorts ==
  ASSUME NEW r \in Registries
  PROVE  LET sorted == ById(Range(r))
         IN  /\ IsListing(sorted) /\ Range(sorted) = Range(r)
             /\ \A output, executor : DistinctIds(sorted, output, executor)
  <1> DEFINE sorted == ById(Range(r))
  <1>1. IsListing(r) /\ \A i, k \in DOMAIN r : r[i].id = r[k].id => i = k
    BY AgentsAreRegistered
  <1>2. Identified(Range(r))
    <2>1. IsFiniteSet(Range(r))
      BY <1>1, RangeIsFinite DEF IsListing
    <2>2. \A a, b \in Range(r) : a.id = b.id => a = b
      BY <1>1 DEF Range
    <2> QED BY <1>1, <2>1, <2>2 DEF Identified, IsListing
  <1>3. /\ sorted \in Seq(Range(r)) /\ Range(sorted) = Range(r)
        /\ \A i, k \in DOMAIN sorted : i < k => sorted[i].id < sorted[k].id
    BY <1>2, ByIdLists
  <1> HIDE DEF sorted
  <1>4. IsListing(sorted)
    BY <1>1, <1>3 DEF IsListing
  <1>5. ASSUME NEW i \in DOMAIN sorted, NEW k \in DOMAIN sorted, sorted[i].id = sorted[k].id
        PROVE  i = k
    <2>1. i \in Int /\ k \in Int /\ sorted[i].id \in Int /\ sorted[k].id \in Int
      BY <1>3, <1>4 DEF IsListing, Range
    <2>2. ~(i < k) /\ ~(k < i)
      BY <1>3, <1>5, <2>1
    <2> QED BY <2>1, <2>2
  <1>6. \A output, executor : DistinctIds(sorted, output, executor)
    BY <1>5 DEF DistinctIds
  <1> QED BY <1>3, <1>4, <1>6 DEF sorted

(* What was frozen staffs the code panel, and every document panel whose      *)
(* lenses some agent has.                                                     *)
FrozenHere(p) ==
  p = Frozen(registry, policy) /\ StaffsAnyPanel /\ Resolvable(registry, flags)

LEMMA FrozenStaffs ==
  ASSUME registry \in Registries, policy \in Policies, NEW p, FrozenHere(p)
  PROVE  /\ IsListing(p.agents) /\ IsShaped(p.policy) /\ Honoured(p) /\ Implements(p)
         /\ CodeStaffed(p.agents, p.policy.codeSize, Executor.id)
         /\ \A r : Permitted(r, p.policy) /\ r.size \in Int
                   /\ Range(r.specialties) \subseteq Lenses(Eligible(p.agents, "findings", Executor.id))
                   => Staffed(p.agents, r.size, p.policy.required, r.specialties, Executor.id)
  <1>1. /\ p.agents = ById(Range(registry)) /\ p.policy = policy
        /\ p.settings = Names(registry) /\ p.executor = Executor
    BY DEF FrozenHere, Frozen
  <1>2. /\ IsListing(p.agents) /\ Range(p.agents) = Range(registry)
        /\ \A output, executor : DistinctIds(p.agents, output, executor)
    BY <1>1, FreezingSorts
  <1>3. IsShaped(p.policy) /\ ValidPolicy(p.policy)
    BY <1>1, PoliciesAreShaped, PoliciesAreValid
  <1>4. \A output, executor : Eligible(p.agents, output, executor) = Eligible(registry, output, executor)
    BY <1>2 DEF Eligible
  <1>5. Implements(p)
    BY <1>2, AgentsAreRegistered DEF Implements
  <1>6. Honoured(p)
    <2>1. p.agents # <<>>
      BY <1>5 DEF Implements, Range
    <2>2. Names(p.agents) \subseteq p.settings
      BY <1>1, <1>2 DEF Names
    <2> QED BY <1>1, <1>3, <2>1, <2>2, ExecutorReviews DEF Honoured
  <1>7. CodeStaffed(p.agents, p.policy.codeSize, Executor.id)
    BY <1>1, <1>2, <1>4 DEF FrozenHere, StaffsAnyPanel, CodeStaffed
  <1>8. ASSUME NEW r, Permitted(r, p.policy), r.size \in Int,
               Range(r.specialties) \subseteq Lenses(Eligible(p.agents, "findings", Executor.id))
        PROVE  Staffed(p.agents, r.size, p.policy.required, r.specialties, Executor.id)
    <2> DEFINE R == Eligible(p.agents, "findings", Executor.id)
    <2>1. /\ IsInjective(p.policy.required) /\ Range(p.policy.required) \subseteq Lenses(R)
          /\ Cardinality(Lenses(R)) >= p.policy.max
      BY <1>1, <1>4 DEF FrozenHere, StaffsAnyPanel, Staffed
    <2>2. Cardinality(Lenses(R)) \in Nat
      BY <1>2, ReviewersAreIdentified, LensesAreFinite DEF Identified
    <2>3. r.size <= p.policy.max /\ p.policy.max \in Int
      BY <1>3, <1>8 DEF Permitted, IsShaped
    <2>4. Cardinality(Lenses(R)) >= r.size
      <3> HIDE DEF R
      <3> QED BY <1>8, <2>1, <2>2, <2>3
    <2> QED BY <1>2, <1>8, <2>1, <2>4 DEF Staffed, Permitted
  <1> QED BY <1>2, <1>3, <1>5, <1>6, <1>7, <1>8

-----------------------------------------------------------------------------
(* What every state has beside the three properties: at most one profile and  *)
(* one request, a profile that this build froze is the one of this            *)
(* installation, and what a panel is seated from was honoured and permitted.  *)
Started == {"created", "frozen", "unfrozen", "loaded", "unloaded"}
Reviewing == {"loaded", "asked", "seated", "unstaffable"}

PanelInv ==
  /\ registry \in Registries /\ policy \in Policies
  /\ \A p, q \in profile : p = q
  /\ \A r, q \in request : r = q
  /\ \A p \in profile : IsListing(p.agents) /\ IsShaped(p.policy) /\ (p.here => FrozenHere(p))
  /\ at \in Started => request = {}
  /\ \A r \in request, p \in profile :
       r \in Requests /\ WellFormed(r) /\ Permitted(r, p.policy)
  /\ at \in Reviewing => \A p \in profile : Honoured(p)

Panelled == PanelInv /\ PanelsAreExact /\ RefusalsAreNeeded /\ FrozenProfilesSeat

LEMMA PanelsInit == Init => Panelled
  <1> SUFFICES ASSUME Init PROVE Panelled
    OBVIOUS
  <1>1. PanelInv
    BY InheritedAreShaped DEF Init, PanelInv, Started, Reviewing
  <1>2. PanelsAreExact /\ RefusalsAreNeeded /\ FrozenProfilesSeat
    BY DEF Init, PanelsAreExact, RefusalsAreNeeded, FrozenProfilesSeat
  <1> QED BY <1>1, <1>2 DEF Panelled

(* A refusal that none of the properties is about.                            *)
LEMMA OtherRefusals ==
  ASSUME PanelInv, UNCHANGED <<registry, policy, flags, profile, request, panel>>,
         at' \notin {"seated", "code seated", "incomplete", "unstaffable"},
         at' \in Reviewing => \A p \in profile : Honoured(p),
         at' \in Started => request = {},
         at' \in {"unloaded", "unset", "code unstaffable"} => \A p \in profile : ~p.here
  PROVE  Panelled'
  <1>1. UNCHANGED <<registry, policy, flags, profile, request, panel>>
    OBVIOUS
  <1>2. PanelInv'
    BY <1>1 DEF PanelInv, FrozenHere, Frozen, StaffsAnyPanel, Resolvable, Names
  <1>3. PanelsAreExact' /\ RefusalsAreNeeded' /\ FrozenProfilesSeat'
    BY <1>1 DEF PanelsAreExact, RefusalsAreNeeded, FrozenProfilesSeat
  <1> QED BY <1>2, <1>3 DEF Panelled

LEMMA FreezeStep ==
  ASSUME PanelInv, Freeze PROVE Panelled'
  <1>1. CASE StaffsAnyPanel /\ Resolvable(registry, flags)
    <2>1. /\ profile' = {Frozen(registry, policy)} /\ at' = "frozen"
          /\ UNCHANGED <<registry, policy, flags, panel>> /\ request' = {}
      BY <1>1 DEF Freeze, PanelInv, Started
    <2>2. FrozenHere(Frozen(registry, policy))
      BY <1>1 DEF FrozenHere
    <2>3. IsListing(Frozen(registry, policy).agents) /\ IsShaped(Frozen(registry, policy).policy)
      BY <2>2, FrozenStaffs DEF PanelInv
    <2>4. FrozenHere(Frozen(registry, policy))'
      BY <2>1, <2>2 DEF FrozenHere, Frozen, StaffsAnyPanel, Resolvable, Names
    <2>5. PanelInv'
      BY <2>1, <2>3, <2>4 DEF PanelInv, Reviewing, Frozen
    <2>6. PanelsAreExact' /\ RefusalsAreNeeded' /\ FrozenProfilesSeat'
      BY <2>1 DEF PanelsAreExact, RefusalsAreNeeded, FrozenProfilesSeat
    <2> QED BY <2>5, <2>6 DEF Panelled
  <1>2. CASE ~(StaffsAnyPanel /\ Resolvable(registry, flags))
    <2>1. Refuse("unfrozen") /\ request = {}
      BY <1>2 DEF Freeze, PanelInv, Started
    <2> QED BY <2>1, OtherRefusals DEF Refuse, Reviewing
  <1> QED BY <1>1, <1>2

LEMMA LoadStep ==
  ASSUME PanelInv, Load PROVE Panelled'
  <1>1. PICK p \in profile : IF Honoured(p) THEN Refuse("loaded") ELSE Refuse("unloaded")
    BY DEF Load
  <1>2. request = {} /\ \A q \in profile : q = p
    BY DEF Load, PanelInv, Started
  <1>3. p.here => Honoured(p)
    BY FrozenStaffs DEF PanelInv
  <1>4. CASE Honoured(p)
    <2>1. Refuse("loaded") /\ \A q \in profile : Honoured(q)
      BY <1>1, <1>2, <1>4
    <2> QED BY <1>2, <2>1, OtherRefusals DEF Refuse
  <1>5. CASE ~Honoured(p)
    <2>1. Refuse("unloaded") /\ \A q \in profile : ~q.here
      BY <1>1, <1>2, <1>3, <1>5
    <2> QED BY <1>2, <2>1, OtherRefusals DEF Refuse, Reviewing
  <1> QED BY <1>4, <1>5

LEMMA AskStep ==
  ASSUME PanelInv, Ask PROVE Panelled'
  <1>1. PICK r \in Requests, p \in profile :
          IF WellFormed(r) /\ Permitted(r, p.policy)
          THEN /\ at' = "asked"
               /\ request' = {r}
               /\ UNCHANGED <<registry, policy, flags, profile, panel>>
          ELSE Refuse("invalid")
    BY DEF Ask
  <1>2. (\A q \in profile : q = p) /\ (\A q \in profile : Honoured(q))
    BY DEF Ask, PanelInv, Reviewing
  <1>3. CASE WellFormed(r) /\ Permitted(r, p.policy)
    <2>1. /\ at' = "asked" /\ request' = {r}
          /\ UNCHANGED <<registry, policy, flags, profile, panel>>
      BY <1>1, <1>3
    <2>2. \A q \in profile : FrozenHere(q) => FrozenHere(q)'
      BY <2>1 DEF FrozenHere, Frozen, StaffsAnyPanel, Resolvable, Names
    <2>3. PanelInv'
      BY <1>2, <1>3, <2>1, <2>2 DEF PanelInv, Started
    <2>4. PanelsAreExact' /\ RefusalsAreNeeded' /\ FrozenProfilesSeat'
      BY <2>1 DEF PanelsAreExact, RefusalsAreNeeded, FrozenProfilesSeat
    <2> QED BY <2>3, <2>4 DEF Panelled
  <1>4. CASE ~(WellFormed(r) /\ Permitted(r, p.policy))
    <2>1. Refuse("invalid")
      BY <1>1, <1>4
    <2> QED BY <2>1, OtherRefusals DEF Refuse, Started, Reviewing
  <1> QED BY <1>3, <1>4

(* Seating changes neither the profile nor the request.                       *)
LEMMA TakeKeeps ==
  ASSUME PanelInv, UNCHANGED <<registry, policy, flags, profile, request>>,
         at' \notin Started, \A p \in profile : Honoured(p)
  PROVE  PanelInv'
  <1>1. UNCHANGED <<registry, policy, flags, profile, request>>
    OBVIOUS
  <1>2. \A q \in profile : FrozenHere(q) => FrozenHere(q)'
    BY <1>1 DEF FrozenHere, Frozen, StaffsAnyPanel, Resolvable, Names
  <1> QED BY <1>1, <1>2 DEF PanelInv

LEMMA SeatDocumentStep ==
  ASSUME PanelInv, SeatDocumentPanel PROVE Panelled'
  <1>1. PICK r \in request, p \in profile :
          LET picked == SelectReviewers(p.agents, r.size, p.policy.required, r.specialties)
          IN IF ~Staffed(p.agents, r.size, p.policy.required, r.specialties, Executor.id)
             THEN Refuse("unstaffable")
             ELSE IF Len(picked) < r.size THEN Refuse("incomplete")
             ELSE IF ~Set(p, picked) THEN Refuse("unset")
             ELSE Take(picked, "seated")
    BY DEF SeatDocumentPanel
  <1> DEFINE picked == SelectReviewers(p.agents, r.size, p.policy.required, r.specialties)
             U == Range(p.policy.required) \cup Range(r.specialties)
  <1>2. /\ \A q \in profile : q = p
        /\ \A q \in request : q = r
        /\ IsListing(p.agents) /\ IsShaped(p.policy) /\ Honoured(p)
        /\ r \in Requests /\ WellFormed(r) /\ Permitted(r, p.policy)
        /\ p.here => FrozenHere(p)
    BY DEF SeatDocumentPanel, PanelInv, Reviewing
  <1>3. /\ r.size \in Nat /\ r.specialties \in Seq(Range(r.specialties))
        /\ p.policy.required \in Seq(Range(p.policy.required))
    BY <1>2, RequestsAreShaped DEF WellFormed, IsShaped
  <1>4. /\ IsInjective(p.policy.required) /\ IsInjective(r.specialties)
        /\ Cardinality(U) <= r.size
    BY <1>2 DEF Honoured, ValidPolicy, Permitted
  <1>5. CASE ~Staffed(p.agents, r.size, p.policy.required, r.specialties, Executor.id)
    <2>1. /\ at' = "unstaffable"
          /\ UNCHANGED <<registry, policy, flags, profile, request, panel>>
      BY <1>1, <1>5 DEF Refuse
    <2>2. PanelInv'
      BY <1>2, <2>1 DEF PanelInv, Started, FrozenHere, Frozen, StaffsAnyPanel, Resolvable, Names
    <2>3. \/ ~DistinctIds(p.agents, "findings", Executor.id)
          \/ Seatings(p.agents, r.size, U) = {}
      BY <1>2, <1>3, <1>4, <1>5, NoOtherSeating
    <2>4. RefusalsAreNeeded'
      BY <1>2, <2>1, <2>3 DEF RefusalsAreNeeded
    <2>5. p.here => ~(Range(r.specialties) \subseteq Lenses(Eligible(p.agents, "findings", Executor.id)))
      <3>1. r.size \in Int /\ registry \in Registries /\ policy \in Policies
        BY <1>3 DEF PanelInv
      <3> QED BY <1>2, <1>5, <3>1, FrozenStaffs
    <2>6. FrozenProfilesSeat'
      BY <1>2, <2>1, <2>5 DEF FrozenProfilesSeat
    <2>7. PanelsAreExact'
      BY <2>1 DEF PanelsAreExact
    <2> QED BY <2>2, <2>4, <2>6, <2>7 DEF Panelled
  <1>6. CASE Staffed(p.agents, r.size, p.policy.required, r.specialties, Executor.id)
    <2>1. ExactSelection(picked, p.agents, r.size, p.policy.required, r.specialties)
      BY <1>2, <1>3, <1>6, SelectionIsExact
    <2>2. /\ Len(picked) = r.size /\ Sound(picked, Candidates(p.agents), r.size)
          /\ \A i \in DOMAIN p.policy.required : picked[i].specialty = p.policy.required[i]
          /\ Range(r.specialties) \subseteq Lenses(Range(picked))
      BY <2>1 DEF ExactSelection
    <2>3. Range(picked) \subseteq Candidates(p.agents)
      BY <2>2 DEF Sound, Range
    <2>4. Set(p, picked)
      BY <1>2, <2>3 DEF Set, Honoured, Names, Ids, Candidates
    <2>5. ~(Len(picked) < r.size)
      BY <1>3, <2>2
    <2>6. Take(picked, "seated")
      BY <1>1, <1>6, <2>4, <2>5
    <2>7. IsLensed(picked, "findings")
      BY <2>2, <2>3, CandidatesAreEligible DEF Sound, IsLensed, Eligible
    <2>8. picked = SelectReviewers(p.agents, r.size, p.policy.required, Reverse(r.specialties))
      BY <1>3, OrderOfLensesIsNot
    <2> HIDE DEF picked
    <2>9. /\ at' = "seated" /\ panel' = picked
          /\ UNCHANGED <<registry, policy, flags, profile, request>>
      BY <2>6 DEF Take
    <2>10. PanelInv'
      <3>1. \A q \in profile : Honoured(q)
        BY <1>2
      <3> QED BY <2>9, <3>1, TakeKeeps DEF Started
    <2>11. PanelsAreExact'
      BY <1>2, <2>2, <2>7, <2>8, <2>9 DEF PanelsAreExact, IsLensed
    <2>12. RefusalsAreNeeded' /\ FrozenProfilesSeat'
      BY <2>9 DEF RefusalsAreNeeded, FrozenProfilesSeat
    <2> QED BY <2>10, <2>11, <2>12 DEF Panelled
  <1> QED BY <1>5, <1>6

LEMMA SeatCodeStep ==
  ASSUME PanelInv, SeatCodePanel PROVE Panelled'
  <1>1. PICK p \in profile :
          LET picked == CodePanel(p.agents, p.policy.codeSize, Executor.id)
          IN IF ~CodeStaffed(p.agents, p.policy.codeSize, Executor.id) THEN Refuse("code unstaffable")
             ELSE IF ~Set(p, picked) \/ ~Implements(p) THEN Refuse("unset")
             ELSE Take(picked, "code seated")
    BY DEF SeatCodePanel
  <1> DEFINE picked == CodePanel(p.agents, p.policy.codeSize, Executor.id)
             Q == Eligible(p.agents, "code-findings", Executor.id)
  <1>2. /\ \A q \in profile : q = p
        /\ IsListing(p.agents) /\ Honoured(p)
        /\ registry \in Registries /\ policy \in Policies
        /\ p.here => FrozenHere(p)
    BY DEF SeatCodePanel, PanelInv, Reviewing
  <1>3. p.here => CodeStaffed(p.agents, p.policy.codeSize, Executor.id) /\ Implements(p)
    BY <1>2, FrozenStaffs
  <1>4. CASE ~CodeStaffed(p.agents, p.policy.codeSize, Executor.id)
    <2>1. Refuse("code unstaffable")
      BY <1>1, <1>4
    <2>2. \A q \in profile : ~q.here
      BY <1>2, <1>3, <1>4
    <2> QED BY <2>1, <2>2, OtherRefusals DEF Refuse, Started, Reviewing
  <1>5. CASE CodeStaffed(p.agents, p.policy.codeSize, Executor.id)
    <2>1. ExactCodePanel(picked, p.agents, p.policy.codeSize)
      BY <1>2, <1>5, CodePanelIsExact
    <2>2. /\ picked \in Seq(Q) /\ Len(picked) = p.policy.codeSize
          /\ \A i, k \in DOMAIN picked : i < k => picked[i].id < picked[k].id
          /\ \A a \in Q \ Range(picked) : \A s \in Range(picked) : s.id < a.id
      BY <2>1 DEF ExactCodePanel
    <2> HIDE DEF picked
    <2>3. Range(picked) \subseteq Q /\ Q \subseteq Range(p.agents) /\ Range(picked) \subseteq Range(p.agents)
      BY <2>2 DEF Range, Eligible
    <2>4. Set(p, picked)
      BY <1>2, <2>3 DEF Set, Honoured, Names, Ids
    <2>5. CASE ~Implements(p)
      <3>1. Refuse("unset")
        BY <1>1, <1>5, <2>5 DEF picked
      <3>2. \A q \in profile : ~q.here
        BY <1>2, <1>3, <2>5
      <3> QED BY <3>1, <3>2, OtherRefusals DEF Refuse, Started, Reviewing
    <2>6. CASE Implements(p)
      <3>1. Take(picked, "code seated")
        BY <1>1, <1>5, <2>4, <2>6 DEF picked
      <3>2. /\ at' = "code seated" /\ panel' = picked
            /\ UNCHANGED <<registry, policy, flags, profile, request>>
        BY <3>1 DEF Take
      <3>3. PanelInv'
        <4>1. \A q \in profile : Honoured(q)
          BY <1>2
        <4> QED BY <3>2, <4>1, TakeKeeps DEF Started
      <3>4. \A a \in Range(picked) : Reviews(a, "code-findings", Executor.id) /\ a.specialty # None /\ a.instructed
        BY <1>5, <2>3 DEF CodeStaffed, Eligible, Reviews
      <3>5. ASSUME NEW i \in DOMAIN picked, NEW k \in DOMAIN picked, i # k
            PROVE  picked[i].id # picked[k].id /\ picked[i].specialty # picked[k].specialty
        <4>1. picked[i] \in Q /\ picked[k] \in Q /\ i \in Int /\ k \in Int
          BY <2>2
        <4>2. picked[i].id \in Int /\ picked[k].id \in Int
          BY <1>2, <2>3, <4>1 DEF IsListing
        <4>3. i < k \/ k < i
          BY <3>5, <4>1
        <4>4. picked[i].id # picked[k].id
          BY <2>2, <4>2, <4>3
        <4> QED BY <1>5, <4>1, <4>4 DEF CodeStaffed
      <3>6. IsLensed(picked, "code-findings")
        BY <3>4, <3>5 DEF IsLensed
      <3>7. PanelsAreExact'
        BY <1>2, <2>2, <3>2, <3>4, <3>6 DEF PanelsAreExact, IsLensed
      <3>8. RefusalsAreNeeded' /\ FrozenProfilesSeat'
        BY <3>2 DEF RefusalsAreNeeded, FrozenProfilesSeat
      <3> QED BY <3>3, <3>7, <3>8 DEF Panelled
    <2> QED BY <2>5, <2>6
  <1> QED BY <1>4, <1>5

LEMMA PanelsInvariant == Spec => []Panelled
  <1>1. Panelled /\ [Next]_vars => Panelled'
    <2> SUFFICES ASSUME Panelled, [Next]_vars PROVE Panelled'
      OBVIOUS
    <2>1. PanelInv
      BY DEF Panelled
    <2>2. CASE Freeze
      BY <2>1, <2>2, FreezeStep
    <2>3. CASE Load
      BY <2>1, <2>3, LoadStep
    <2>4. CASE Ask
      BY <2>1, <2>4, AskStep
    <2>5. CASE SeatDocumentPanel
      BY <2>1, <2>5, SeatDocumentStep
    <2>6. CASE SeatCodePanel
      BY <2>1, <2>6, SeatCodeStep
    <2>7. CASE UNCHANGED vars
      <3>1. PanelInv'
        BY <2>1, <2>7 DEF vars, PanelInv, FrozenHere, Frozen, StaffsAnyPanel, Resolvable, Names
      <3>2. PanelsAreExact' /\ RefusalsAreNeeded' /\ FrozenProfilesSeat'
        BY <2>7 DEF vars, Panelled, PanelsAreExact, RefusalsAreNeeded, FrozenProfilesSeat
      <3> QED BY <3>1, <3>2 DEF Panelled
    <2> QED BY <2>2, <2>3, <2>4, <2>5, <2>6, <2>7 DEF Next
  <1> QED BY <1>1, PanelsInit, PTL DEF Spec

(* A document panel that is seated is as large as it was asked to be, with    *)
(* the configured lenses first and every requested one, in whatever order     *)
(* they were asked for; a code panel is the first of the eligible by id.      *)
THEOREM PanelsHold == Spec => []PanelsAreExact
  BY PanelsInvariant, PTL DEF Panelled

(* A document panel is refused only when no choice of reviewers would do, and *)
(* what is not refused is never found incomplete.                             *)
THEOREM RefusalsHold == Spec => []RefusalsAreNeeded
  BY PanelsInvariant, PTL DEF Panelled

(* A profile that this build froze loads, seats its code panel, and misses a  *)
(* document panel only for a lens that no frozen reviewer has.                *)
THEOREM FrozenProfilesHold == Spec => []FrozenProfilesSeat
  BY PanelsInvariant, PTL DEF Panelled
=============================================================================
