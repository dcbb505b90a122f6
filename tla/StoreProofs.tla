----------------------------- MODULE StoreProofs -----------------------------
(***************************************************************************)
(* Theorems about Store, for any number of writers, readers, units and     *)
(* migrations.  The argument is one inductive invariant, StoreInv: who     *)
(* holds RESERVED is the only one with work of its own, that work is the   *)
(* committed database and what its unit has done so far, and what a unit   *)
(* has on disk before it commits is nothing, or the steps that it has      *)
(* behind it.  Nothing in it speaks of the repository lock.                *)
(***************************************************************************)
EXTENDS Store, TLAPS

KindNames == {"grant", "answer", "finalize", "add_stage", "complete_stage"}
Effects == [by : Writers, unit : Nat, op : Nat]
Tips == Effects \cup {None}
Databases == [rows : SUBSET Effects, chain : Seq([event : Effects, prev : Tips]),
              tables : SUBSET Nat, version : Nat]

Waiting == {"closed", "migrate", "ready", "failed", "dead", "begin"}
Inside == {"read", "write", "leave", "commit", "commit_journal"}
Caller == {"op", "thrown", "caught"}
Connections == [pc : Waiting \cup Inside \cup Caller, units : Seq(KindNames), done : SUBSET Nat,
                at : Nat, depth : Nat, aborted : BOOLEAN, refused : BOOLEAN, attempt : Nat,
                schema : Nat, tip : Tips, work : Databases]
Views == [pc : {"out", "open", "rows_read", "chain_read"}, rows : SUBSET Effects,
          chain : Seq([event : Effects, prev : Tips])]

(* The variables have their types.                                           *)
StoreTypes ==
  /\ disk \in Databases /\ hot \in BOOLEAN /\ reserved \in Writers \cup {None}
  /\ con \in [Writers -> Connections] /\ view \in [Readers -> Views]

(* A connection runs a unit.                                                 *)
Active(w) == con[w].pc \in {"begin"} \cup Inside \cup Caller /\ con[w].units # <<>>

(* How deep a unit is, and at which of its steps.                            *)
Nested(w) == Op(w) \in {"stage", "audit"}
Frame(w) == IF Whole(Kind(w)) THEN 1 ELSE 0

Stands(w) ==
  LET c == con[w]
      n == Len(Ops(Kind(w)))
  IN /\ c.pc \in {"closed", "migrate"} => c.units = <<>>
     /\ c.pc \in {"begin", "read", "write", "leave"} \cup Caller => c.units # <<>>
     /\ c.pc \in Waiting \/ c.units = <<>> => c.depth = 0 /\ ~c.aborted /\ ~c.refused
     /\ Active(w) =>
          /\ c.at \in 1..(n + 1)
          /\ ~Whole(Kind(w)) => ~c.aborted /\ ~c.refused
          /\ c.refused => c.pc \in {"op", "commit", "commit_journal"} /\ c.at = n + 1 /\ Kind(w) = "finalize"
          /\ c.pc = "begin" => IF Whole(Kind(w)) THEN c.at = 1 ELSE c.at <= n /\ Nested(w)
          /\ c.pc = "op" => c.depth = Frame(w)
          /\ c.pc \in {"read", "write", "leave"} => c.depth = Frame(w) + 1 /\ c.at <= n /\ Nested(w)
          /\ c.pc = "thrown" =>
               /\ c.depth \in {1, Frame(w) + 1}
               /\ c.depth = Frame(w) + 1 => c.at <= n /\ Nested(w)
          /\ c.pc = "caught" => Whole(Kind(w)) /\ c.depth = 1 /\ c.aborted /\ c.at <= n /\ Nested(w)
          /\ c.pc \in {"commit", "commit_journal"} =>
               IF Whole(Kind(w)) THEN c.at = n + 1 ELSE c.at <= n /\ Nested(w)
     /\ c.pc = "commit_journal" => ~c.aborted

(* RESERVED is held from BEGIN to the end of the outermost frame.            *)
Holds(w) == con[w].pc \in Inside \/ (con[w].pc \in Caller /\ con[w].depth > 0)

Events(chain) == {chain[i].event : i \in 1..Len(chain)}
Made(db) == db.rows \cup Events(db.chain)

(* What the unit under way has done in its transaction.                      *)
DidLast(w) == con[w].pc \in {"leave", "commit", "commit_journal"}
Did(w) == IF con[w].refused THEN {}
          ELSE {i \in Intended(Kind(w)) : i < con[w].at \/ (i = con[w].at /\ DidLast(w))}

(* The effects of a writer that are on disk are of units it has begun; a     *)
(* unit under way has none there, or those of the steps behind it.           *)
OwnsItsEffects(w) ==
  \A e \in Made(disk) : e.by = w =>
    /\ e.unit \in 1..Unit(w) /\ e.op \in Intended(con[w].units[e.unit])
    /\ Active(w) /\ e.unit = Unit(w) => ~Whole(Kind(w)) /\ e.op < con[w].at

Linked(chain) ==
  \A i \in 1..Len(chain) : chain[i].prev = IF i = 1 THEN None ELSE chain[i - 1].event
Single(chain) == \A i, j \in 1..Len(chain) : chain[i].event = chain[j].event => i = j

(* The work of the writer that holds RESERVED.                               *)
WorkFollows(w) ==
  LET c == con[w]
  IN Holds(w) =>
       IF c.units = <<>>
         THEN /\ c.work.rows = disk.rows /\ c.work.chain = disk.chain
              /\ c.work.version = c.schema + 1 /\ c.work.tables = disk.tables \cup {c.schema + 1}
              /\ c.schema = disk.version /\ c.schema < Supported
         ELSE /\ c.work.tables = disk.tables /\ c.work.version = disk.version
              /\ disk.rows \subseteq c.work.rows /\ Events(disk.chain) \subseteq Events(c.work.chain)
              /\ \A e \in (c.work.rows \ disk.rows) \cup (Events(c.work.chain) \ Events(disk.chain)) :
                   e.by = w /\ e.unit = Unit(w) /\ e.op \in Did(w)
              /\ Whole(Kind(w)) /\ ~c.aborted =>
                   \A i \in Did(w) : [by |-> w, unit |-> Unit(w), op |-> i] \in Made(c.work)
              /\ Linked(c.work.chain) /\ Single(c.work.chain)
              /\ c.pc = "write" => c.tip = Last(c.work.chain)

(* A finalizing unit that goes on after its check has found no delivery, and *)
(* the record is its own from the step that writes it.                       *)
NoDelivery == \A e \in disk.rows : KindOf(e) # "finalize"
FinalizesOnce(w) ==
  Holds(w) /\ con[w].units # <<>> /\ Kind(w) = "finalize" /\ ~con[w].refused =>
    /\ con[w].at > 1 => NoDelivery
    /\ con[w].at > 3 => record = <<w, Unit(w)>>

MigratesInOrder(w) ==
  con[w].pc = "migrate" => con[w].schema < Supported /\ con[w].schema <= disk.version

Writing(w) ==
  /\ Stands(w) /\ (reserved = w <=> Holds(w))
  /\ OwnsItsEffects(w) /\ WorkFollows(w) /\ FinalizesOnce(w) /\ MigratesInOrder(w)

UnitsWhole ==
  \A w \in Writers :
    /\ \A n \in 1..Unit(w) : Whole(con[w].units[n]) =>
         Had(w, n, disk.rows, disk.chain) \in {{}, Intended(con[w].units[n])}
    /\ \A n \in con[w].done :
         /\ n \in 1..Unit(w) /\ Whole(con[w].units[n])
         /\ Had(w, n, disk.rows, disk.chain) = Intended(con[w].units[n])

DiskIsSound ==
  /\ Linked(disk.chain) /\ Single(disk.chain)
  /\ disk.tables = 1..disk.version /\ disk.version <= Supported
  /\ UnitsWhole /\ DeliveryKeepsItsRecord

Viewing(r) ==
  /\ view[r].pc # "out" => disk.version = Supported
  /\ r \in Shared => view[r].rows = disk.rows
  /\ view[r].pc = "chain_read" => view[r].chain = disk.chain

StoreInv ==
  /\ StoreTypes /\ DiskIsSound
  /\ \A w \in Writers : Writing(w)
  /\ \A r \in Readers : Viewing(r)
  /\ Exclusive => Shared = {}

-----------------------------------------------------------------------------
(* The steps of the units.                                                   *)
Steps == {"stage", "audit", "row", "check", "record"}

LEMMA UnitTable ==
  /\ Ops("grant") = Grant /\ Ops("answer") = Answer /\ Ops("finalize") = Finalize
  /\ Ops("add_stage") = AddStage /\ Ops("complete_stage") = CompleteStage
BY DEF Ops

LEMMA UnitSteps ==
  /\ \A k \in KindNames : Ops(k) \in Seq(Steps) /\ Len(Ops(k)) \in 2..6
  /\ \A k \in KindNames \ {"finalize"} : \A i \in 1..Len(Ops(k)) : Ops(k)[i] \in {"stage", "audit", "row"}
  /\ Len(Ops("finalize")) = 6 /\ Ops("finalize")[2] = "stage"
  /\ \A i \in 1..Len(Ops("finalize")) :
       /\ Ops("finalize")[i] = "check" <=> i = 1
       /\ Ops("finalize")[i] = "record" <=> i = 3
<1>1. /\ Grant \in Seq(Steps) /\ Answer \in Seq(Steps) /\ AddStage \in Seq(Steps)
      /\ CompleteStage \in Seq(Steps) /\ Finalize \in Seq(Steps)
  BY DEF Grant, Answer, AddStage, CompleteStage, Finalize, Steps
<1>2. Len(Grant) = 5 /\ \A i \in 1..5 : Grant[i] \in {"stage", "audit", "row"}
  <2>1. /\ Grant[1] = "stage" /\ Grant[2] = "audit" /\ Grant[3] = "row"
        /\ Grant[4] = "row" /\ Grant[5] = "audit" /\ Len(Grant) = 5
    BY DEF Grant
  <2>2. QED
    BY <2>1
<1>3. Len(Finalize) = 6 /\ Finalize[2] = "stage"
      /\ \A i \in 1..6 : (Finalize[i] = "check" <=> i = 1) /\ (Finalize[i] = "record" <=> i = 3)
  <2>1. /\ Finalize[1] = "check" /\ Finalize[2] = "stage" /\ Finalize[3] = "record"
        /\ Finalize[4] = "row" /\ Finalize[5] = "row" /\ Finalize[6] = "audit" /\ Len(Finalize) = 6
    BY DEF Finalize
  <2>2. QED
    BY <2>1
<1>4. Len(Answer) = 2 /\ \A i \in 1..2 : Answer[i] \in {"stage", "audit", "row"}
  <2>1. Answer[1] = "row" /\ Answer[2] = "audit" /\ Len(Answer) = 2
    BY DEF Answer
  <2>2. QED
    BY <2>1
<1>5. Len(AddStage) = 2 /\ \A i \in 1..2 : AddStage[i] \in {"stage", "audit", "row"}
  <2>1. AddStage[1] = "stage" /\ AddStage[2] = "audit" /\ Len(AddStage) = 2
    BY DEF AddStage
  <2>2. QED
    BY <2>1
<1>6. Len(CompleteStage) = 2 /\ \A i \in 1..2 : CompleteStage[i] \in {"stage", "audit", "row"}
  <2>1. CompleteStage[1] = "row" /\ CompleteStage[2] = "audit" /\ Len(CompleteStage) = 2
    BY DEF CompleteStage
  <2>2. QED
    BY <2>1
<1>7. ASSUME NEW k \in KindNames
      PROVE  /\ Ops(k) \in Seq(Steps) /\ Len(Ops(k)) \in 2..6
             /\ k # "finalize" => \A i \in 1..Len(Ops(k)) : Ops(k)[i] \in {"stage", "audit", "row"}
  <2>1. k \in {"grant", "answer", "add_stage", "complete_stage", "finalize"}
    BY DEF KindNames
  <2>2. CASE k = "grant"
    BY <1>1, <1>2, <2>2, UnitTable
  <2>3. CASE k = "answer"
    BY <1>1, <1>4, <2>3, UnitTable
  <2>4. CASE k = "add_stage"
    BY <1>1, <1>5, <2>4, UnitTable
  <2>5. CASE k = "complete_stage"
    BY <1>1, <1>6, <2>5, UnitTable
  <2>6. CASE k = "finalize"
    BY <1>1, <1>3, <2>6, UnitTable
  <2>7. QED
    BY <2>1, <2>2, <2>3, <2>4, <2>5, <2>6
<1>8. QED
  BY <1>3, <1>7, UnitTable

LEMMA IntendedSteps ==
  ASSUME NEW k \in KindNames
  PROVE  /\ Intended(k) \subseteq 1..Len(Ops(k)) /\ Intended(k) # {}
         /\ \A i \in 1..Len(Ops(k)) : i \in Intended(k) <=> Ops(k)[i] \notin {"check", "record"}
<1>1. Intended(k) \subseteq 1..Len(Ops(k))
  BY DEF Intended
<1>2. \A i \in 1..Len(Ops(k)) : i \in Intended(k) <=> Ops(k)[i] \notin {"check", "record"}
  BY DEF Intended
<1>3. 2 \in 1..Len(Ops(k)) /\ Ops(k)[2] \notin {"check", "record"}
  <2>1. 2 \in 1..Len(Ops(k))
    <3>1. \A n \in 2..6 : 2 \in 1..n
      OBVIOUS
    <3>2. QED
      BY <3>1, UnitSteps, Zenon
  <2>2. k # "finalize" => Ops(k)[2] \in {"stage", "audit", "row"}
    BY <2>1, UnitSteps
  <2>3. QED
    BY <2>1, <2>2, UnitSteps
<1>4. QED
  BY <1>1, <1>2, <1>3

(* What verifyAuditChain compares, event by event.                           *)
LEMMA LinkedIsUnbroken ==
  ASSUME NEW chain \in Seq([event : Effects, prev : Tips])
  PROVE  (\A i \in 1..Len(chain) : chain[i].prev = Last(SubSeq(chain, 1, i - 1))) <=> Linked(chain)
<1>1. ASSUME NEW i \in 1..Len(chain)
      PROVE  Last(SubSeq(chain, 1, i - 1)) = IF i = 1 THEN None ELSE chain[i - 1].event
  <2>1. CASE i = 1
    <3>1. SubSeq(chain, 1, i - 1) = <<>>
      BY <2>1
    <3>2. QED
      BY <2>1, <3>1 DEF Last
  <2>2. CASE i # 1
    <3>1. i - 1 \in 1..Len(chain)
      BY <2>2
    <3>2. /\ Len(SubSeq(chain, 1, i - 1)) = i - 1
          /\ SubSeq(chain, 1, i - 1)[i - 1] = chain[i - 1]
      BY <3>1
    <3>3. SubSeq(chain, 1, i - 1) # <<>>
      BY <3>1, <3>2
    <3>4. QED
      BY <2>2, <3>2, <3>3 DEF Last
  <2>3. QED
    BY <2>1, <2>2
<1>2. QED
  BY <1>1 DEF Linked

(* An append follows the last event.                                         *)
LEMMA AppendLinks ==
  ASSUME NEW chain \in Seq([event : Effects, prev : Tips]), Linked(chain), Single(chain),
         NEW e \in Effects, e \notin Events(chain),
         NEW next, next = Append(chain, [event |-> e, prev |-> Last(chain)])
  PROVE  Linked(next) /\ Single(next) /\ Events(next) = Events(chain) \cup {e}
<1> DEFINE link == [event |-> e, prev |-> Last(chain)]
           n == Len(chain)
<1>1. n \in Nat /\ Len(next) = n + 1 /\ next[n + 1] = link /\ \A i \in 1..n : next[i] = chain[i]
  OBVIOUS
<1>2. Last(chain) = IF n = 0 THEN None ELSE chain[n].event
  BY DEF Last
<1>3. Linked(next)
  <2> SUFFICES ASSUME NEW i \in 1..(n + 1)
               PROVE  next[i].prev = IF i = 1 THEN None ELSE next[i - 1].event
    BY <1>1 DEF Linked
  <2>1. CASE i = n + 1
    BY <1>1, <1>2, <2>1
  <2>2. CASE i \in 1..n
    <3>1. next[i] = chain[i] /\ (i # 1 => next[i - 1] = chain[i - 1])
      BY <1>1, <2>2
    <3>2. QED
      BY <2>2, <3>1 DEF Linked
  <2>3. QED
    BY <1>1, <2>1, <2>2
<1>4. Single(next)
  <2>1. \A i \in 1..n : chain[i].event # e
    BY DEF Events
  <2> SUFFICES ASSUME NEW i \in 1..(n + 1), NEW j \in 1..(n + 1), next[i].event = next[j].event
               PROVE  i = j
    BY <1>1 DEF Single
  <2>2. CASE i \in 1..n /\ j \in 1..n
    BY <1>1, <2>2 DEF Single
  <2>3. CASE i = n + 1 \/ j = n + 1
    BY <1>1, <2>1, <2>3
  <2>4. QED
    BY <1>1, <2>2, <2>3
<1>5. Events(next) = Events(chain) \cup {e}
  BY <1>1 DEF Events
<1>6. QED
  BY <1>3, <1>4, <1>5

-----------------------------------------------------------------------------
LEMMA InSequence ==
  ASSUME NEW S, NEW s \in Seq(S), NEW i \in 1..Len(s)
  PROVE  s[i] \in S
OBVIOUS

LEMMA LastInSequence ==
  ASSUME NEW S, NEW s \in Seq(S), s # <<>>
  PROVE  s[Len(s)] \in S
<1>1. Len(s) \in 1..Len(s)
  OBVIOUS
<1>2. QED
  BY <1>1, InSequence

(* What a step of one writer leaves to the others.                           *)
LEMMA DiskEffects ==
  ASSUME StoreTypes
  PROVE  /\ Made(disk) \subseteq Effects /\ disk.rows \subseteq Made(disk)
         /\ \A w \in Writers : Holds(w) => Made(con[w].work) \subseteq Effects
<1>1. \A db \in Databases : Made(db) \subseteq Effects
  <2> SUFFICES ASSUME NEW db \in Databases PROVE Made(db) \subseteq Effects
    OBVIOUS
  <2>1. db.rows \subseteq Effects /\ db.chain \in Seq([event : Effects, prev : Tips])
    BY DEF Databases
  <2>2. \A i \in 1..Len(db.chain) : db.chain[i] \in [event : Effects, prev : Tips]
    BY <2>1, InSequence
  <2>3. \A i \in 1..Len(db.chain) : db.chain[i].event \in Effects
    BY <2>2
  <2>4. QED
    BY <2>1, <2>3 DEF Made, Events
<1>2. disk \in Databases /\ \A w \in Writers : con[w].work \in Databases
  BY DEF StoreTypes, Connections
<1>3. QED
  BY <1>1, <1>2 DEF Made

LEMMA ConnectionTypes ==
  ASSUME StoreTypes, NEW w \in Writers
  PROVE  /\ con[w] \in Connections /\ con[w].units \in Seq(KindNames) /\ Unit(w) \in Nat
         /\ con[w].at \in Nat /\ con[w].depth \in Nat /\ con[w].schema \in Nat
         /\ con[w].aborted \in BOOLEAN /\ con[w].refused \in BOOLEAN
         /\ con[w].work \in Databases /\ con[w].done \subseteq Nat /\ con[w].attempt \in Nat
         /\ \A n \in 1..Unit(w) : con[w].units[n] \in KindNames
         /\ con[w].units # <<>> => Unit(w) \in 1..Unit(w) /\ Kind(w) \in KindNames
<1>1. con[w] \in Connections
  BY DEF StoreTypes
<1>2. con[w].units \in Seq(KindNames)
  BY <1>1 DEF Connections
<1>3. QED
  BY <1>1, <1>2 DEF Connections, Unit, Kind

(* The units a writer has begun stay what they were.                         *)
KeepsUnits(w) ==
  /\ Unit(w)' \in Nat /\ Unit(w) <= Unit(w)'
  /\ \A n \in 1..Unit(w) : con'[w].units[n] = con[w].units[n]

LEMMA KindStays ==
  ASSUME StoreTypes, \A w \in Writers : OwnsItsEffects(w) /\ KeepsUnits(w),
         NEW e \in Made(disk)
  PROVE  KindOf(e)' = KindOf(e)
<1>1. e.by \in Writers
  BY DiskEffects DEF Effects
<1>2. e.unit \in 1..Unit(e.by)
  BY <1>1 DEF OwnsItsEffects
<1>3. QED
  BY <1>1, <1>2 DEF KindOf, KeepsUnits

(* The others, when the committed database stays.                            *)
LEMMA Elsewhere ==
  ASSUME NEW v \in Writers, con'[v] = con[v], disk' = disk, reserved' = v <=> reserved = v,
         Holds(v) => record' = record, NoDelivery => NoDelivery', Writing(v)
  PROVE  Writing(v)'
<1>1. Unit(v)' = Unit(v) /\ Kind(v)' = Kind(v) /\ Active(v)' = Active(v) /\ Holds(v)' = Holds(v)
  BY DEF Unit, Kind, Active, Holds
<1>2. Op(v)' = Op(v) /\ Nested(v)' = Nested(v) /\ Frame(v)' = Frame(v) /\ Did(v)' = Did(v)
  BY <1>1 DEF Op, Nested, Frame, Did, DidLast
<1>3. Stands(v)'
  BY <1>1, <1>2 DEF Writing, Stands
<1>4. OwnsItsEffects(v)'
  BY <1>1 DEF Writing, OwnsItsEffects, Made
<1>5. WorkFollows(v)'
  BY <1>1, <1>2 DEF Writing, WorkFollows, Made
<1>6. FinalizesOnce(v)'
  BY <1>1 DEF Writing, FinalizesOnce
<1>7. MigratesInOrder(v)'
  BY DEF Writing, MigratesInOrder
<1>8. QED
  BY <1>1, <1>3, <1>4, <1>5, <1>6, <1>7 DEF Writing

(* The others, when w has changed it.                                        *)
LEMMA ElsewhereChanged ==
  ASSUME NEW v \in Writers, con'[v] = con[v], ~Holds(v), reserved' # v,
         \A e \in Made(disk') : e.by = v => e \in Made(disk),
         disk.version \in Nat, disk'.version \in Nat, con[v].schema \in Nat,
         disk.version <= disk'.version, Writing(v)
  PROVE  Writing(v)'
<1>1. Unit(v)' = Unit(v) /\ Kind(v)' = Kind(v) /\ Active(v)' = Active(v) /\ Holds(v)' = Holds(v)
  BY DEF Unit, Kind, Active, Holds
<1>2. Op(v)' = Op(v) /\ Nested(v)' = Nested(v) /\ Frame(v)' = Frame(v)
  BY <1>1 DEF Op, Nested, Frame
<1>3. Stands(v)'
  BY <1>1, <1>2 DEF Writing, Stands
<1>4. OwnsItsEffects(v)'
  BY <1>1 DEF Writing, OwnsItsEffects
<1>5. WorkFollows(v)' /\ FinalizesOnce(v)'
  BY <1>1 DEF WorkFollows, FinalizesOnce
<1>6. MigratesInOrder(v)'
  BY DEF Writing, MigratesInOrder
<1>7. QED
  BY <1>1, <1>3, <1>4, <1>5, <1>6 DEF Writing

-----------------------------------------------------------------------------
(* A step of one writer that commits nothing keeps the invariant when it     *)
(* keeps the writer's own part.                                              *)
LEMMA GrowingUnits ==
  ASSUME NEW s \in Seq(KindNames), NEW t \in Seq(KindNames),
         t = s \/ \E k \in KindNames : t = Append(s, k)
  PROVE  /\ Len(t) \in Nat /\ Len(t) \in {Len(s), Len(s) + 1}
         /\ \A n \in 1..Len(s) : t[n] = s[n]
OBVIOUS

LEMMA SetTypes ==
  ASSUME StoreTypes, NEW w \in Writers, NEW d \in Connections, Set(w, d)
  PROVE  /\ con' \in [Writers -> Connections] /\ con'[w] = d
         /\ \A v \in Writers \ {w} : con'[v] = con[v]
BY DEF StoreTypes, Set

LEMMA UnbegunHasNothing ==
  ASSUME StoreTypes, NEW w \in Writers, OwnsItsEffects(w), NEW n \in Nat, n > Unit(w)
  PROVE  Had(w, n, disk.rows, disk.chain) = {}
<1>1. \A e \in Made(disk) : ~(e.by = w /\ e.unit = n)
  BY ConnectionTypes DEF OwnsItsEffects
<1>2. QED
  BY <1>1 DEF Had, Made, Events

LEMMA KeepsDisk ==
  ASSUME StoreInv, NEW w \in Writers, NEW d \in Connections, Set(w, d),
         disk' = disk, hot' \in BOOLEAN, view' = view, reserved' \in Writers \cup {None},
         \A v \in Writers \ {w} : reserved' = v <=> reserved = v,
         record' = record \/ (Holds(w) /\ NoDelivery),
         d.done = con[w].done,
         d.units = con[w].units \/ \E k \in KindNames : d.units = Append(con[w].units, k),
         d.pc = "commit_journal" => con[w].pc = "commit_journal" \/ Shared = {},
         Writing(w)'
  PROVE  StoreInv'
<1> USE DEF StoreInv
<1>1. /\ con' \in [Writers -> Connections] /\ con'[w] = d
      /\ \A v \in Writers \ {w} : con'[v] = con[v]
  BY SetTypes
<1>2. StoreTypes'
  BY <1>1 DEF StoreTypes
<1>3. \A v \in Writers : KeepsUnits(v)
  <2>1. \A v \in Writers \ {w} : KeepsUnits(v)
    BY <1>1, ConnectionTypes DEF KeepsUnits, Unit
  <2>2. d.units \in Seq(KindNames) /\ con[w].units \in Seq(KindNames)
    BY ConnectionTypes DEF Connections
  <2>3. /\ Len(d.units) \in Nat /\ Len(d.units) \in {Len(con[w].units), Len(con[w].units) + 1}
        /\ \A n \in 1..Len(con[w].units) : d.units[n] = con[w].units[n]
    BY <2>2, GrowingUnits
  <2>4. Unit(w)' = Len(d.units)
    BY <1>1 DEF Unit
  <2>5. KeepsUnits(w)
    BY <1>1, <2>3, <2>4, ConnectionTypes DEF KeepsUnits, Unit
  <2>6. QED
    BY <2>1, <2>5
<1>4. \A e \in disk.rows : KindOf(e)' = KindOf(e)
  BY <1>3, KindStays, DiskEffects DEF Writing
<1>5. \A v \in Writers : Writing(v)'
  <2> SUFFICES ASSUME NEW v \in Writers \ {w} PROVE Writing(v)'
    OBVIOUS
  <2>1. Holds(v) => record' = record
    BY DEF Writing
  <2>2. NoDelivery => NoDelivery'
    BY <1>4 DEF NoDelivery
  <2>3. QED
    BY <1>1, <2>1, <2>2, Elsewhere
<1>6. DeliveryKeepsItsRecord'
  BY <1>4 DEF DiskIsSound, DeliveryKeepsItsRecord, NoDelivery
<1>7. UnitsWhole'
  <2>1. ASSUME NEW v \in Writers, NEW n \in 1..Unit(v)', Whole(con'[v].units[n])
        PROVE  Had(v, n, disk.rows, disk.chain) \in {{}, Intended(con'[v].units[n])}
    <3>1. Unit(v) \in Nat /\ Unit(v)' \in Nat /\ n \in Nat
      BY <1>3, ConnectionTypes DEF KeepsUnits
    <3>2. CASE n \in 1..Unit(v)
      BY <1>3, <2>1, <3>2 DEF KeepsUnits, DiskIsSound, UnitsWhole
    <3>3. CASE n > Unit(v)
      BY <3>1, <3>3, UnbegunHasNothing DEF Writing
    <3>4. QED
      BY <3>1, <3>2, <3>3
  <2>2. ASSUME NEW v \in Writers, NEW n \in con'[v].done
        PROVE  /\ n \in 1..Unit(v)' /\ Whole(con'[v].units[n])
               /\ Had(v, n, disk.rows, disk.chain) = Intended(con'[v].units[n])
    <3>1. n \in con[v].done
      BY <1>1, <2>2
    <3>2. /\ n \in 1..Unit(v) /\ Whole(con[v].units[n])
          /\ Had(v, n, disk.rows, disk.chain) = Intended(con[v].units[n])
      BY <3>1 DEF DiskIsSound, UnitsWhole
    <3>3. QED
      BY <1>3, <3>2, ConnectionTypes DEF KeepsUnits
  <2>3. QED
    BY <2>1, <2>2 DEF UnitsWhole
<1>8. DiskIsSound'
  BY <1>6, <1>7 DEF DiskIsSound
<1>9. (\A r \in Readers : Viewing(r)') /\ Shared' = Shared
  BY DEF Viewing, Shared
<1>10. Exclusive' => Shared' = {}
  BY <1>1, <1>9 DEF Exclusive
<1>11. QED
  BY <1>2, <1>5, <1>8, <1>9, <1>10

-----------------------------------------------------------------------------
(* A writer's own part.  The effects it has on disk:                         *)
LEMMA OwnStays ==
  ASSUME StoreTypes, NEW w \in Writers, OwnsItsEffects(w), disk' = disk,
         con'[w].units = con[w].units, con'[w].at \in Nat,
         Active(w)' => Active(w) /\ (Whole(Kind(w)) \/ con[w].at <= con'[w].at)
  PROVE  OwnsItsEffects(w)'
<1> SUFFICES ASSUME NEW e \in Made(disk), e.by = w
             PROVE  /\ e.unit \in 1..Unit(w)' /\ e.op \in Intended(con'[w].units[e.unit])
                    /\ Active(w)' /\ e.unit = Unit(w)' => ~Whole(Kind(w)') /\ e.op < con'[w].at
  BY DEF OwnsItsEffects, Made
<1>1. Unit(w)' = Unit(w) /\ Kind(w)' = Kind(w)
  BY DEF Unit, Kind
<1>2. /\ e.unit \in 1..Unit(w) /\ e.op \in Intended(con[w].units[e.unit])
      /\ Active(w) /\ e.unit = Unit(w) => ~Whole(Kind(w)) /\ e.op < con[w].at
  BY DEF OwnsItsEffects
<1>3. e.op \in Nat /\ con[w].at \in Nat
  BY DiskEffects, ConnectionTypes DEF Effects
<1>4. QED
  BY <1>1, <1>2, <1>3

(* Finalizing, when the step is not the check or the record.                 *)
LEMMA FinalizeStays ==
  ASSUME StoreInv, NEW w \in Writers, disk' = disk, record' = record,
         con'[w].units = con[w].units, con'[w].refused = con[w].refused, Holds(w),
         con[w].units # <<>> => Stands(w) /\ Active(w),
         con'[w].at \in {con[w].at, con[w].at + 1},
         con'[w].at = con[w].at + 1 => con[w].at <= Len(Ops(Kind(w))) /\ Op(w) \notin {"check", "record"},
         \A e \in disk.rows : KindOf(e)' = KindOf(e)
  PROVE  FinalizesOnce(w)'
<1> SUFFICES ASSUME con[w].units # <<>>, Kind(w) = "finalize", ~con[w].refused
             PROVE  /\ con'[w].at > 1 => NoDelivery
                    /\ con'[w].at > 3 => record = <<w, Unit(w)>>
  <2>1. Unit(w)' = Unit(w) /\ Kind(w)' = Kind(w)
    BY DEF Unit, Kind
  <2>2. NoDelivery => NoDelivery'
    BY DEF NoDelivery
  <2>3. QED
    BY <2>1, <2>2 DEF FinalizesOnce
<1>1. (con[w].at > 1 => NoDelivery) /\ (con[w].at > 3 => record = <<w, Unit(w)>>)
  BY DEF StoreInv, Writing, FinalizesOnce
<1>2. con[w].at \in Nat /\ con[w].at >= 1
  BY ConnectionTypes DEF Stands, StoreInv
<1>3. con'[w].at = con[w].at + 1 => con[w].at # 1 /\ con[w].at # 3
  BY UnitSteps DEF Op
<1>4. QED
  BY <1>1, <1>2, <1>3

(* The work, when the step adds nothing to it.                               *)
LEMMA WorkStays ==
  ASSUME NEW w \in Writers, disk' = disk, WorkFollows(w), Holds(w),
         con'[w].units = con[w].units, con'[w].work = con[w].work, con[w].units # <<>>,
         con[w].aborted => con'[w].aborted,
         Did(w) \subseteq Did(w)', con'[w].aborted \/ Did(w)' = Did(w),
         con'[w].pc = "write" => con'[w].tip = Last(con[w].work.chain)
  PROVE  WorkFollows(w)'
<1>1. Unit(w)' = Unit(w) /\ Kind(w)' = Kind(w)
  BY DEF Unit, Kind
<1>2. QED
  BY <1>1 DEF WorkFollows, Made

(* A writer that does not hold RESERVED after its step.                      *)
LEMMA LetsGo ==
  ASSUME StoreInv, NEW w \in Writers, NEW d \in Connections, Set(w, d),
         UNCHANGED <<disk, record, view>>, hot' \in BOOLEAN,
         reserved' = IF reserved = w THEN None ELSE reserved,
         d.done = con[w].done,
         d.units = con[w].units \/ \E k \in KindNames : d.units = Append(con[w].units, k),
         ~Holds(w)', Stands(w)', OwnsItsEffects(w)', MigratesInOrder(w)'
  PROVE  StoreInv'
<1>1. reserved' # w /\ reserved' \in Writers \cup {None}
  BY StoreAssumption DEF StoreInv, StoreTypes
<1>2. \A v \in Writers \ {w} : reserved' = v <=> reserved = v
  BY StoreAssumption
<1>3. con'[w] = d
  BY SetTypes DEF StoreInv
<1>4. d.pc # "commit_journal"
  BY <1>3 DEF Holds, Inside
<1>5. Writing(w)'
  BY <1>1 DEF Writing, WorkFollows, FinalizesOnce
<1>6. QED
  BY <1>1, <1>2, <1>4, <1>5, KeepsDisk

(* A writer that keeps RESERVED.                                             *)
LEMMA HoldsOn ==
  ASSUME StoreInv, NEW w \in Writers, NEW d \in Connections, Set(w, d),
         UNCHANGED <<disk, hot, reserved, view>>, record' = record \/ NoDelivery,
         d.done = con[w].done, d.units = con[w].units, con[w].units # <<>>,
         Whole(Kind(w)) \/ con[w].at <= d.at,
         d.pc = "commit_journal" => Shared = {},
         Holds(w), Holds(w)', Stands(w)', WorkFollows(w)', FinalizesOnce(w)'
  PROVE  StoreInv'
<1>1. con'[w] = d
  BY SetTypes DEF StoreInv
<1>2. d.at \in Nat
  BY DEF Connections
<1>3. Active(w)
  BY DEF Active, Holds
<1>4. OwnsItsEffects(w)'
  BY <1>1, <1>2, <1>3, OwnStays DEF StoreInv, Writing
<1>5. MigratesInOrder(w)' /\ reserved' = w
  BY DEF MigratesInOrder, Holds, Inside, Caller, StoreInv, Writing
<1>6. Writing(w)'
  BY <1>4, <1>5 DEF Writing
<1>7. QED
  BY <1>6, KeepsDisk DEF StoreInv, StoreTypes

-----------------------------------------------------------------------------
(* Connections between units, and a frame tried again.                       *)
LEMMA RestTypes ==
  ASSUME NEW c \in Connections
  PROVE  /\ Rest(c) \in Connections
         /\ Rest(c) = [c EXCEPT !.pc = "ready", !.depth = 0, !.aborted = FALSE, !.refused = FALSE,
                                !.tip = None, !.work = Empty(0)]
         /\ Rest(c).pc = "ready" /\ Rest(c).units = c.units /\ Rest(c).done = c.done
         /\ Rest(c).at = c.at /\ Rest(c).depth = 0 /\ ~Rest(c).aborted /\ ~Rest(c).refused
         /\ Rest(c).schema = c.schema /\ Rest(c).attempt = c.attempt
<1>1. Empty(0) \in Databases
  BY DEF Empty, Databases
<1>2. QED
  BY <1>1 DEF Rest, Connections, Waiting, Tips

LEMMA AgainTypes ==
  ASSUME StoreTypes, NEW w \in Writers
  PROVE  /\ Again(w) \in Connections
         /\ Again(w).pc = "begin" /\ Again(w).units = con[w].units /\ Again(w).done = con[w].done
         /\ Again(w).at = (IF Whole(Kind(w)) THEN 1 ELSE con[w].at)
         /\ Again(w).depth = 0 /\ ~Again(w).aborted /\ ~Again(w).refused
<1>1. con[w] \in Connections /\ Rest(con[w]) \in Connections
  BY ConnectionTypes, RestTypes
<1>3. con[w].at \in Nat /\ Rest(con[w]).at = con[w].at
  BY <1>1, RestTypes, ConnectionTypes
<1>4. (IF Whole(Kind(w)) THEN 1 ELSE con[w].at) \in Nat
  BY <1>3
<1> DEFINE a == Rest(con[w])
           n == IF Whole(Kind(w)) THEN 1 ELSE con[w].at
<1>5. /\ a \in Connections /\ a.units = con[w].units /\ a.done = con[w].done /\ a.attempt \in Nat
      /\ a.depth = 0 /\ ~a.aborted /\ ~a.refused /\ n \in Nat
  BY <1>1, <1>4, RestTypes, ConnectionTypes
<1>6. PICK m \in Nat : Again(w) = [a EXCEPT !.pc = "begin", !.attempt = m, !.at = n]
  <2>1. Again(w) = [a EXCEPT !.pc = "begin", !.attempt = a.attempt + 1, !.at = n]
    BY <1>3 DEF Again
  <2>2. a.attempt + 1 \in Nat
    BY <1>5
  <2>3. QED
    BY <2>1, <2>2, Zenon
<1> HIDE DEF a, n
<1>7. /\ Again(w) \in Connections /\ Again(w).pc = "begin" /\ Again(w).units = a.units
      /\ Again(w).done = a.done /\ Again(w).at = n /\ Again(w).depth = a.depth
      /\ Again(w).aborted = a.aborted /\ Again(w).refused = a.refused
  BY <1>5, <1>6 DEF Connections, Waiting
<1>8. QED
  BY <1>5, <1>7 DEF n

(* After a step that gives the unit up.                                      *)
LEMMA RestsAgain ==
  ASSUME StoreInv, NEW w \in Writers, UNCHANGED <<disk, record, view>>, hot' \in BOOLEAN,
         reserved' = IF reserved = w THEN None ELSE reserved,
         NEW p \in {"ready", "dead"}, Set(w, [Rest(con[w]) EXCEPT !.pc = p])
  PROVE  StoreInv'
<1> DEFINE d == [Rest(con[w]) EXCEPT !.pc = p]
<1>1. con[w] \in Connections /\ StoreTypes
  BY ConnectionTypes DEF StoreInv
<1>2. /\ d \in Connections /\ d.pc = p /\ d.units = con[w].units /\ d.done = con[w].done
      /\ d.at = con[w].at /\ d.depth = 0 /\ ~d.aborted /\ ~d.refused
  BY <1>1, RestTypes DEF Connections, Waiting
<1>3. con'[w] = d
  BY <1>1, <1>2, SetTypes
<1> HIDE DEF d
<1>4. ~Holds(w)' /\ ~Active(w)' /\ MigratesInOrder(w)'
  BY <1>2, <1>3 DEF Holds, Active, MigratesInOrder, Inside, Caller
<1>5. Stands(w)'
  BY <1>2, <1>3, <1>4 DEF Stands, Caller, Waiting
<1>6. OwnsItsEffects(w)'
  BY <1>1, <1>2, <1>3, <1>4, OwnStays, ConnectionTypes DEF StoreInv, Writing
<1>7. QED
  BY <1>2, <1>4, <1>5, <1>6, LetsGo DEF d

LEMMA TriesAgain ==
  ASSUME StoreInv, NEW w \in Writers, UNCHANGED <<disk, hot, record, view>>,
         reserved' = IF reserved = w THEN None ELSE reserved,
         Active(w), Whole(Kind(w)) \/ (con[w].at <= Len(Ops(Kind(w))) /\ Nested(w)),
         Set(w, Again(w))
  PROVE  StoreInv'
<1> DEFINE d == Again(w)
<1>1. con[w] \in Connections /\ StoreTypes /\ hot' \in BOOLEAN /\ con[w].units # <<>>
  BY ConnectionTypes DEF StoreInv, StoreTypes, Active
<1>2. /\ d \in Connections /\ d.pc = "begin" /\ d.units = con[w].units /\ d.done = con[w].done
      /\ d.at = (IF Whole(Kind(w)) THEN 1 ELSE con[w].at) /\ d.depth = 0 /\ ~d.aborted /\ ~d.refused
  BY <1>1, AgainTypes
<1>3. con'[w] = d
  BY <1>1, <1>2, SetTypes
<1> HIDE DEF d
<1>4. ~Holds(w)' /\ MigratesInOrder(w)'
  BY <1>2, <1>3 DEF Holds, MigratesInOrder, Inside, Caller
<1>5. /\ Kind(w)' = Kind(w) /\ Unit(w)' = Unit(w) /\ Kind(w) \in KindNames
      /\ con[w].at \in 1..(Len(Ops(Kind(w))) + 1) /\ Len(Ops(Kind(w))) \in 2..6
      /\ ~Whole(Kind(w)) => Nested(w)' = Nested(w)
  BY <1>1, <1>2, <1>3, ConnectionTypes, UnitSteps
     DEF Kind, Unit, StoreInv, Writing, Stands, Nested, Op
<1>6. Stands(w)'
  BY <1>1, <1>2, <1>3, <1>5 DEF Stands, Caller, Waiting
<1>7. OwnsItsEffects(w)'
  <2>1. con'[w].at \in Nat /\ (~Whole(Kind(w)) => con[w].at <= con'[w].at)
    BY <1>1, <1>2, <1>3, ConnectionTypes
  <2>2. QED
    BY <1>1, <1>2, <1>3, <2>1, OwnStays DEF StoreInv, Writing
<1>8. QED
  BY <1>1, <1>2, <1>4, <1>6, <1>7, LetsGo DEF d

-----------------------------------------------------------------------------
(* The steps after which a writer does not hold RESERVED.                    *)
LEMMA HolderFacts ==
  ASSUME StoreInv, NEW w \in Writers
  PROVE  /\ StoreTypes /\ con[w] \in Connections /\ Stands(w) /\ OwnsItsEffects(w)
         /\ reserved = w <=> Holds(w)
         /\ Holds(w) \/ con[w].pc = "begin" => (con[w].units # <<>> => Active(w))
         /\ con[w].pc \in {"begin"} \cup Caller => con[w].units # <<>>
<1>1. Stands(w) /\ OwnsItsEffects(w) /\ (reserved = w <=> Holds(w)) /\ StoreTypes
  BY DEF StoreInv, Writing
<1>2. QED
  BY <1>1, ConnectionTypes DEF Holds, Active, Stands, Inside, Caller

LEMMA OpenKeeps ==
  ASSUME StoreInv, NEW w \in Writers, Open(w)
  PROVE  StoreInv'
<1> DEFINE p == IF disk.version < Supported THEN "migrate" ELSE "ready"
           d == [con[w] EXCEPT !.pc = p, !.schema = disk.version]
<1>1. con[w] \in Connections /\ StoreTypes /\ disk.version \in Nat
  BY HolderFacts DEF StoreTypes, Databases
<1>2. con[w].pc = "closed" /\ con[w].units = <<>> /\ con[w].depth = 0 /\ ~con[w].aborted /\ ~con[w].refused
  BY HolderFacts DEF Open, Stands, Waiting
<1>3. /\ d \in Connections /\ d.pc = p /\ d.units = con[w].units /\ d.done = con[w].done
      /\ d.depth = 0 /\ ~d.aborted /\ ~d.refused /\ d.schema = disk.version /\ d.at = con[w].at
  BY <1>1, <1>2 DEF Connections, Waiting
<1>4. Set(w, d) /\ con'[w] = d
  BY <1>1, <1>3, SetTypes DEF Open
<1> HIDE DEF d
<1>5. ~Holds(w) /\ ~Holds(w)' /\ ~Active(w)'
  BY <1>2, <1>3, <1>4 DEF Holds, Active, Inside, Caller
<1>6. Stands(w)'
  BY <1>2, <1>3, <1>4, <1>5 DEF Stands, Caller, Waiting
<1>7. MigratesInOrder(w)'
  <2>1. d.pc = "migrate" => disk.version < Supported
    BY <1>3
  <2>2. disk' = disk
    BY DEF Open
  <2>3. QED
    BY <1>1, <1>3, <1>4, <2>1, <2>2 DEF MigratesInOrder
<1>8. OwnsItsEffects(w)'
  BY <1>1, <1>3, <1>4, <1>5, HolderFacts, OwnStays, ConnectionTypes DEF Open
<1>9. UNCHANGED <<disk, reserved, record, view>> /\ hot' \in BOOLEAN /\ reserved # w
  BY <1>5, HolderFacts DEF Open
<1>10. QED
  BY <1>3, <1>4, <1>5, <1>6, <1>7, <1>8, <1>9, LetsGo

LEMMA MigrateFailsKeeps ==
  ASSUME StoreInv, NEW w \in Writers, UNCHANGED <<disk, record, view>>, hot' \in BOOLEAN,
         reserved' = IF reserved = w THEN None ELSE reserved,
         con[w].units = <<>>, Set(w, [con[w] EXCEPT !.pc = "failed"])
  PROVE  StoreInv'
<1> DEFINE d == [con[w] EXCEPT !.pc = "failed"]
<1>1. con[w] \in Connections /\ StoreTypes
  BY HolderFacts
<1>2. con[w].depth = 0 /\ ~con[w].aborted /\ ~con[w].refused
  BY HolderFacts DEF Stands
<1>3. /\ d \in Connections /\ d.pc = "failed" /\ d.units = con[w].units /\ d.done = con[w].done
      /\ d.depth = 0 /\ ~d.aborted /\ ~d.refused /\ d.at = con[w].at
  BY <1>1, <1>2 DEF Connections, Waiting
<1>4. con'[w] = d
  BY <1>1, <1>3, SetTypes
<1> HIDE DEF d
<1>5. ~Holds(w)' /\ ~Active(w)' /\ MigratesInOrder(w)'
  BY <1>3, <1>4 DEF Holds, Active, MigratesInOrder, Inside, Caller
<1>6. Stands(w)'
  BY <1>3, <1>4, <1>5 DEF Stands, Caller, Waiting
<1>7. OwnsItsEffects(w)'
  BY <1>1, <1>3, <1>4, <1>5, HolderFacts, OwnStays, ConnectionTypes
<1>8. QED
  BY <1>1, <1>3, <1>5, <1>6, <1>7, LetsGo DEF d

LEMMA StartUnitKeeps ==
  ASSUME StoreInv, NEW w \in Writers, StoreAssumption, StartUnit(w)
  PROVE  StoreInv'
<1>1. /\ con[w] \in Connections /\ StoreTypes /\ con[w].pc = "ready" /\ con[w].units \in Seq(KindNames)
      /\ con[w].depth = 0 /\ ~con[w].aborted /\ ~con[w].refused /\ Unit(w) \in Nat
  BY HolderFacts, ConnectionTypes DEF StartUnit, Stands, Waiting
<1>2. PICK kind \in Kinds[w] :
        Set(w, [con[w] EXCEPT !.units = Append(@, kind), !.at = 1, !.attempt = 1,
                              !.pc = IF Whole(kind) THEN "begin" ELSE "op"])
  BY DEF StartUnit
<1>3. kind \in KindNames
  BY <1>2 DEF StoreAssumption, KindNames
<1> DEFINE units == Append(con[w].units, kind)
           p == IF Whole(kind) THEN "begin" ELSE "op"
           d == [con[w] EXCEPT !.units = units, !.at = 1, !.attempt = 1, !.pc = p]
<1>4. units \in Seq(KindNames) /\ Len(units) = Unit(w) + 1 /\ units[Unit(w) + 1] = kind /\ units # <<>>
      /\ \A n \in 1..Unit(w) : units[n] = con[w].units[n]
  BY <1>1, <1>3 DEF Unit
<1> HIDE DEF units
<1>5. /\ d \in Connections /\ d.pc = p /\ d.units = units /\ d.done = con[w].done
      /\ d.depth = 0 /\ ~d.aborted /\ ~d.refused /\ d.at = 1
  BY <1>1, <1>4 DEF Connections, Waiting, Caller
<1>6. Set(w, d) /\ con'[w] = d
  BY <1>1, <1>2, <1>5, SetTypes DEF units
<1> HIDE DEF d
<1>7. Unit(w)' = Unit(w) + 1 /\ Kind(w)' = kind
  BY <1>4, <1>5, <1>6 DEF Unit, Kind
<1>8. ~Holds(w) /\ ~Holds(w)' /\ MigratesInOrder(w)'
  BY <1>1, <1>5, <1>6 DEF Holds, MigratesInOrder, Inside, Caller
<1>9. Stands(w)'
  <2>1. Len(Ops(kind)) \in 2..6
    BY <1>3, UnitSteps
  <2>2. QED
    BY <1>4, <1>5, <1>6, <1>7, <2>1 DEF Stands, Frame, Caller, Waiting
<1>10. OwnsItsEffects(w)'
  <2> SUFFICES ASSUME NEW e \in Made(disk), e.by = w
               PROVE  /\ e.unit \in 1..Unit(w)' /\ e.op \in Intended(units[e.unit])
                      /\ e.unit # Unit(w)'
    BY <1>5, <1>6 DEF OwnsItsEffects, Made, StartUnit
  <2>1. e.unit \in 1..Unit(w) /\ e.op \in Intended(con[w].units[e.unit])
    BY HolderFacts DEF OwnsItsEffects
  <2>2. QED
    BY <1>1, <1>4, <1>7, <2>1
<1>11. UNCHANGED <<disk, reserved, record, view>> /\ hot' \in BOOLEAN /\ reserved # w
  BY <1>1, <1>8, HolderFacts DEF StartUnit, StoreTypes
<1>12. d.units = Append(con[w].units, kind)
  BY <1>5 DEF units
<1>13. QED
  BY <1>3, <1>5, <1>6, <1>8, <1>9, <1>10, <1>11, <1>12, LetsGo

LEMMA RestIsReady ==
  ASSUME NEW w \in Writers, con[w] \in Connections
  PROVE  Rest(con[w]) = [Rest(con[w]) EXCEPT !.pc = "ready"]
BY RestTypes DEF Connections

LEMMA GivesUpKeeps ==
  ASSUME StoreInv, NEW w \in Writers, UNCHANGED <<disk, hot, record, view>>,
         reserved' = IF reserved = w THEN None ELSE reserved, Set(w, Rest(con[w]))
  PROVE  StoreInv'
<1>1. Set(w, [Rest(con[w]) EXCEPT !.pc = "ready"]) /\ hot' \in BOOLEAN
  BY HolderFacts, RestIsReady DEF StoreTypes
<1>2. QED
  BY <1>1, RestsAgain

LEMMA BeginIsBusyKeeps ==
  ASSUME StoreInv, NEW w \in Writers, BeginIsBusy(w)
  PROVE  StoreInv'
<1>1. reserved # w /\ Active(w)
  BY HolderFacts DEF BeginIsBusy, Holds, Inside, Caller
<1>2. Whole(Kind(w)) \/ (con[w].at <= Len(Ops(Kind(w))) /\ Nested(w))
  BY <1>1, HolderFacts DEF BeginIsBusy, Stands
<1>3. Set(w, Again(w)) \/ Set(w, Rest(con[w]))
  BY DEF BeginIsBusy
<1>4. UNCHANGED <<disk, hot, record, view>> /\ reserved' = reserved
  BY DEF BeginIsBusy
<1>5. QED
  BY <1>1, <1>2, <1>3, <1>4, TriesAgain, GivesUpKeeps

LEMMA AbortKeeps ==
  ASSUME StoreInv, NEW w \in Writers, Abort(w)
  PROVE  StoreInv'
<1>1. reserved = w
  BY HolderFacts DEF Abort, Holds, Inside
<1>2. QED
  BY <1>1, GivesUpKeeps DEF Abort

LEMMA CommitIsBusyKeeps ==
  ASSUME StoreInv, NEW w \in Writers, CommitIsBusy(w)
  PROVE  StoreInv'
<1>1. reserved = w /\ con[w].pc = "commit"
  BY HolderFacts DEF CommitIsBusy, Holds, Inside
<1>2. UNCHANGED <<disk, hot, record, view>> /\ reserved' = None /\ hot' \in BOOLEAN
  BY HolderFacts DEF CommitIsBusy, StoreTypes
<1>3. CASE Set(w, Rest(con[w]))
  BY <1>1, <1>2, <1>3, GivesUpKeeps
<1>4. CASE Migrating(w) /\ Set(w, [con[w] EXCEPT !.pc = "failed"])
  BY <1>1, <1>2, <1>4, MigrateFailsKeeps DEF Migrating
<1>5. CASE ~Migrating(w) /\ Set(w, Again(w))
  <2>1. Active(w)
    BY <1>1, <1>5 DEF Active, Migrating, Inside
  <2>2. Whole(Kind(w)) \/ (con[w].at <= Len(Ops(Kind(w))) /\ Nested(w))
    BY <1>1, <2>1, HolderFacts DEF Stands
  <2>3. QED
    BY <1>1, <1>2, <1>5, <2>1, <2>2, TriesAgain
<1>6. QED
  BY <1>3, <1>4, <1>5 DEF CommitIsBusy

LEMMA DieKeeps ==
  ASSUME StoreInv, NEW w \in Writers, Die(w)
  PROVE  StoreInv'
<1>1. hot' \in BOOLEAN
  BY HolderFacts DEF Die, StoreTypes
<1>2. QED
  BY <1>1, RestsAgain DEF Die

LEMMA MigrateFailsStep ==
  ASSUME StoreInv, NEW w \in Writers, MigrateFails(w)
  PROVE  StoreInv'
<1>1. con[w].units = <<>> /\ reserved # w /\ hot' \in BOOLEAN
  BY HolderFacts DEF MigrateFails, Stands, Holds, Inside, Caller, StoreTypes
<1>2. QED
  BY <1>1, MigrateFailsKeeps DEF MigrateFails

-----------------------------------------------------------------------------
(* The steps of a writer that keeps RESERVED.                                *)
LEMMA KindsStay ==
  ASSUME StoreInv, NEW w \in Writers, NEW d \in Connections, Set(w, d),
         d.units = con[w].units, disk' = disk
  PROVE  \A e \in disk.rows : KindOf(e)' = KindOf(e)
<1>1. \A v \in Writers : con'[v].units = con[v].units
  BY SetTypes, HolderFacts
<1>2. \A v \in Writers : KeepsUnits(v)
  BY <1>1, HolderFacts, ConnectionTypes DEF KeepsUnits, Unit
<1>3. QED
  BY <1>2, KindStays, DiskEffects, HolderFacts

(* A step that leaves the work as it is and advances the unit, if at all,    *)
(* over a nested call.                                                       *)
LEMMA HoldsOnQuietly ==
  ASSUME StoreInv, NEW w \in Writers, NEW d \in Connections, Set(w, d),
         UNCHANGED <<disk, hot, reserved, record, view>>,
         d.done = con[w].done, d.units = con[w].units, con[w].units # <<>>,
         d.work = con[w].work, d.refused = con[w].refused, con[w].aborted => d.aborted,
         d.at \in {con[w].at, con[w].at + 1},
         d.at = con[w].at + 1 => con[w].at <= Len(Ops(Kind(w))) /\ Nested(w),
         d.pc = "commit_journal" => Shared = {},
         d.pc = "write" => d.tip = Last(con[w].work.chain),
         Holds(w), Holds(w)', Stands(w)',
         Did(w) \subseteq Did(w)', d.aborted \/ Did(w)' = Did(w)
  PROVE  StoreInv'
<1>1. con'[w] = d /\ Active(w) /\ con[w].at \in Nat /\ d.at \in Nat
  BY SetTypes, HolderFacts, ConnectionTypes DEF Connections
<1>2. WorkFollows(w)'
  BY <1>1, WorkStays DEF StoreInv, Writing
<1>3. FinalizesOnce(w)'
  <2>1. Op(w) \in {"stage", "audit"} => Op(w) \notin {"check", "record"}
    OBVIOUS
  <2>2. \A e \in disk.rows : KindOf(e)' = KindOf(e)
    BY KindsStay
  <2>3. QED
    BY <1>1, <2>1, <2>2, FinalizeStays, HolderFacts DEF Nested
<1>4. QED
  BY <1>1, <1>2, <1>3, HoldsOn

(* What a unit has done, for a step that moves its point and counter.        *)
LEMMA DidStays ==
  ASSUME StoreInv, NEW w \in Writers, con[w].units # <<>>,
         con'[w].units = con[w].units, con'[w].refused = con[w].refused,
         \/ con'[w].at = con[w].at /\ (DidLast(w)' <=> DidLast(w))
         \/ con'[w].at = con[w].at + 1 /\ DidLast(w) /\ ~DidLast(w)'
         \/ con'[w].at = con[w].at /\ con[w].at > Len(Ops(Kind(w)))
  PROVE  Did(w)' = Did(w)
<1>1. Kind(w)' = Kind(w) /\ con[w].at \in Nat /\ Kind(w) \in KindNames
  BY HolderFacts, ConnectionTypes DEF Kind, Unit
<1>2. \A i \in Intended(Kind(w)) : i \in Nat /\ i <= Len(Ops(Kind(w))) /\ Len(Ops(Kind(w))) \in Nat
  BY <1>1, IntendedSteps, UnitSteps
<1>3. \A i \in Intended(Kind(w)) :
        (i < con'[w].at \/ (i = con'[w].at /\ DidLast(w)')) <=> (i < con[w].at \/ (i = con[w].at /\ DidLast(w)))
  BY <1>1, <1>2
<1>4. QED
  BY <1>1, <1>3 DEF Did

LEMMA EnterKeeps ==
  ASSUME StoreInv, NEW w \in Writers, Enter(w)
  PROVE  StoreInv'
<1>1. /\ con[w] \in Connections /\ StoreTypes /\ Active(w) /\ Stands(w) /\ con[w].pc = "op"
      /\ con[w].depth = Frame(w) /\ con[w].at \in Nat /\ Nested(w) /\ con[w].units # <<>>
      /\ Kind(w) \in KindNames
  BY HolderFacts, ConnectionTypes DEF Enter, Stands, Nested, Active, Caller
<1>2. con[w].at <= Len(Ops(Kind(w))) /\ con[w].at >= 1 /\ ~con[w].refused /\ Len(Ops(Kind(w))) \in 2..6
  BY <1>1, UnitSteps DEF Enter, AtEnd, Stands
<1>3. CASE con[w].depth > 0
  <2> DEFINE d == [con[w] EXCEPT !.depth = 2, !.pc = "read"]
  <2>1. Whole(Kind(w)) /\ con[w].depth = 1 /\ Frame(w) = 1 /\ con[w].depth + 1 = 2
    BY <1>1, <1>3 DEF Frame
  <2>2. /\ d \in Connections /\ d.pc = "read" /\ d.depth = 2 /\ d.units = con[w].units
        /\ d.done = con[w].done /\ d.at = con[w].at /\ d.work = con[w].work
        /\ d.aborted = con[w].aborted /\ d.refused = con[w].refused
    BY <1>1, <2>1 DEF Connections, Inside
  <2>3. Set(w, d) /\ con'[w] = d
    BY <1>1, <1>3, <2>1, <2>2, SetTypes DEF Enter
  <2> HIDE DEF d
  <2>4. Holds(w) /\ Holds(w)' /\ Did(w)' = Did(w)
    BY <1>1, <1>3, <2>2, <2>3, DidStays DEF Holds, Inside, Caller, DidLast
  <2>5. Kind(w)' = Kind(w) /\ Nested(w)' = Nested(w) /\ Frame(w)' = Frame(w)
    BY <2>2, <2>3 DEF Kind, Unit, Nested, Op, Frame
  <2>6. Stands(w)'
    BY <1>1, <1>2, <2>1, <2>2, <2>3, <2>5 DEF Stands, Caller, Waiting
  <2>7. QED
    BY <1>1, <2>2, <2>3, <2>4, <2>6, HoldsOnQuietly DEF Enter
<1>4. CASE ~(con[w].depth > 0)
  <2> DEFINE d == [con[w] EXCEPT !.attempt = 1, !.pc = "begin"]
  <2>1. ~Whole(Kind(w)) /\ con[w].depth = 0
    BY <1>1, <1>4 DEF Frame
  <2>2. /\ d \in Connections /\ d.pc = "begin" /\ d.depth = 0 /\ d.units = con[w].units
        /\ d.done = con[w].done /\ d.at = con[w].at
        /\ d.aborted = con[w].aborted /\ d.refused = con[w].refused
    BY <1>1, <2>1 DEF Connections, Waiting
  <2>3. Set(w, d) /\ con'[w] = d
    BY <1>1, <1>4, <2>2, SetTypes DEF Enter
  <2> HIDE DEF d
  <2>4. ~Holds(w) /\ ~Holds(w)' /\ MigratesInOrder(w)'
    BY <1>1, <2>1, <2>2, <2>3 DEF Holds, MigratesInOrder, Inside, Caller
  <2>5. Kind(w)' = Kind(w) /\ Nested(w)' = Nested(w) /\ ~con[w].aborted
    BY <1>1, <2>1, <2>2, <2>3 DEF Kind, Unit, Nested, Op, Stands
  <2>6. Stands(w)'
    BY <1>1, <1>2, <2>1, <2>2, <2>3, <2>5 DEF Stands, Caller, Waiting
  <2>7. OwnsItsEffects(w)'
    BY <1>1, <2>2, <2>3, OwnStays, HolderFacts DEF Enter
  <2>8. UNCHANGED <<disk, reserved, record, view>> /\ hot' \in BOOLEAN /\ reserved # w
    BY <2>4, HolderFacts DEF Enter, StoreTypes
  <2>9. QED
    BY <2>2, <2>3, <2>4, <2>6, <2>7, <2>8, LetsGo
<1>5. QED
  BY <1>3, <1>4

LEMMA ReadKeeps ==
  ASSUME StoreInv, NEW w \in Writers, Read(w)
  PROVE  StoreInv'
<1> DEFINE d == [con[w] EXCEPT !.tip = Tip(w), !.pc = "write"]
<1>1. /\ con[w] \in Connections /\ StoreTypes /\ Active(w) /\ Stands(w) /\ con[w].pc = "read"
      /\ con[w].units # <<>> /\ con[w].at \in Nat
  BY HolderFacts, ConnectionTypes DEF Read, Stands, Active, Inside
<1>2. Tip(w) \in Tips
  <2>1. con[w].work.chain \in Seq([event : Effects, prev : Tips])
    BY <1>1, ConnectionTypes DEF Databases
  <2>2. con[w].work.chain # <<>> => con[w].work.chain[Len(con[w].work.chain)] \in [event : Effects, prev : Tips]
    BY <2>1, LastInSequence
  <2>3. QED
    BY <2>2 DEF Tip, Last, Tips
<1>3. /\ d \in Connections /\ d.pc = "write" /\ d.depth = con[w].depth /\ d.units = con[w].units
      /\ d.done = con[w].done /\ d.at = con[w].at /\ d.work = con[w].work /\ d.tip = Tip(w)
      /\ d.aborted = con[w].aborted /\ d.refused = con[w].refused
  BY <1>1, <1>2 DEF Connections, Inside
<1>4. Set(w, d) /\ con'[w] = d
  BY <1>1, <1>3, SetTypes DEF Read
<1> HIDE DEF d
<1>5. Holds(w) /\ Holds(w)' /\ Did(w)' = Did(w)
  BY <1>1, <1>3, <1>4, DidStays DEF Holds, Inside, Caller, DidLast
<1>6. Kind(w)' = Kind(w) /\ Nested(w)' = Nested(w) /\ Frame(w)' = Frame(w)
  BY <1>3, <1>4 DEF Kind, Unit, Nested, Op, Frame
<1>7. Stands(w)'
  BY <1>1, <1>3, <1>4, <1>6 DEF Stands, Active, Inside, Caller, Waiting
<1>8. QED
  BY <1>1, <1>3, <1>4, <1>5, <1>7, HoldsOnQuietly DEF Read, Tip

LEMMA LeaveKeeps ==
  ASSUME StoreInv, NEW w \in Writers, Leave(w)
  PROVE  StoreInv'
<1>1. /\ con[w] \in Connections /\ StoreTypes /\ Active(w) /\ Stands(w) /\ con[w].pc = "leave"
      /\ con[w].units # <<>> /\ con[w].at \in Nat /\ Holds(w) /\ Kind(w) \in KindNames
  BY HolderFacts, ConnectionTypes DEF Leave, Stands, Active, Holds, Inside
<1>2. /\ con[w].depth = Frame(w) + 1 /\ con[w].at <= Len(Ops(Kind(w))) /\ con[w].at >= 1 /\ Nested(w)
      /\ ~con[w].refused /\ Len(Ops(Kind(w))) \in 2..6
  BY <1>1, UnitSteps DEF Stands
<1>3. CASE Whole(Kind(w))
  <2> DEFINE d == [con[w] EXCEPT !.depth = 1, !.at = @ + 1, !.pc = "op"]
  <2>1. con[w].depth = 2 /\ con[w].depth - 1 = 1 /\ Frame(w) = 1 /\ con[w].at + 1 \in Nat
    BY <1>1, <1>2, <1>3 DEF Frame
  <2>2. Set(w, d)
    BY <2>1 DEF Leave
  <2>3. PICK a \in Nat : a = con[w].at + 1 /\ d = [con[w] EXCEPT !.depth = 1, !.at = a, !.pc = "op"]
    BY <2>1, Zenon
  <2> HIDE DEF d
  <2>4. /\ d \in Connections /\ d.pc = "op" /\ d.depth = 1 /\ d.units = con[w].units
        /\ d.done = con[w].done /\ d.at = a /\ d.work = con[w].work
        /\ d.aborted = con[w].aborted /\ d.refused = con[w].refused
    BY <1>1, <2>3 DEF Connections, Caller
  <2>5. con'[w] = d
    BY <1>1, <2>2, <2>4, SetTypes
  <2>6. Holds(w)' /\ Did(w)' = Did(w)
    <3>1. DidLast(w) /\ ~DidLast(w)' /\ con'[w].at = con[w].at + 1
      BY <1>1, <2>3, <2>4, <2>5 DEF DidLast
    <3>2. Holds(w)'
      BY <2>4, <2>5 DEF Holds, Caller
    <3>3. QED
      BY <1>1, <2>4, <2>5, <3>1, <3>2, DidStays
  <2>7. Kind(w)' = Kind(w) /\ Frame(w)' = Frame(w)
    BY <2>4, <2>5 DEF Kind, Unit, Frame
  <2>8. Stands(w)'
    BY <1>1, <1>2, <1>3, <2>1, <2>3, <2>4, <2>5, <2>7 DEF Stands, Caller, Waiting
  <2>9. QED
    BY <1>1, <1>2, <2>2, <2>3, <2>4, <2>5, <2>6, <2>8, HoldsOnQuietly DEF Leave
<1>4. CASE ~Whole(Kind(w))
  <2> DEFINE d == [con[w] EXCEPT !.pc = "commit"]
  <2>1. con[w].depth = 1 /\ ~con[w].aborted
    BY <1>1, <1>2, <1>4 DEF Frame, Stands
  <2>2. /\ d \in Connections /\ d.pc = "commit" /\ d.depth = 1 /\ d.units = con[w].units
        /\ d.done = con[w].done /\ d.at = con[w].at /\ d.work = con[w].work
        /\ d.aborted = con[w].aborted /\ d.refused = con[w].refused
    BY <1>1, <2>1 DEF Connections, Inside
  <2>3. Set(w, d) /\ con'[w] = d
    BY <1>1, <2>1, <2>2, SetTypes DEF Leave
  <2> HIDE DEF d
  <2>4. Holds(w)' /\ Did(w)' = Did(w)
    BY <1>1, <2>2, <2>3, DidStays DEF Holds, Inside, DidLast
  <2>5. Kind(w)' = Kind(w) /\ Nested(w)' = Nested(w)
    BY <2>2, <2>3 DEF Kind, Unit, Nested, Op
  <2>6. Stands(w)'
    BY <1>1, <1>2, <1>4, <2>1, <2>2, <2>3, <2>5 DEF Stands, Caller, Waiting
  <2>7. QED
    BY <1>1, <2>2, <2>3, <2>4, <2>6, HoldsOnQuietly DEF Leave
<1>5. QED
  BY <1>3, <1>4

LEMMA EndUnitKeeps ==
  ASSUME StoreInv, NEW w \in Writers, EndUnit(w)
  PROVE  StoreInv'
<1>1. /\ con[w] \in Connections /\ StoreTypes /\ Active(w) /\ Stands(w) /\ con[w].pc = "op"
      /\ con[w].units # <<>> /\ con[w].at \in Nat /\ Kind(w) \in KindNames
  BY HolderFacts, ConnectionTypes DEF EndUnit, Stands, Active, Caller
<1>2. con[w].depth = Frame(w) /\ con[w].at = Len(Ops(Kind(w))) + 1 /\ Len(Ops(Kind(w))) \in 2..6
  BY <1>1, UnitSteps DEF Stands, EndUnit, AtEnd
<1>3. CASE Whole(Kind(w))
  <2> DEFINE d == [con[w] EXCEPT !.pc = "commit"]
  <2>1. con[w].depth = 1
    BY <1>2, <1>3 DEF Frame
  <2>2. /\ d \in Connections /\ d.pc = "commit" /\ d.depth = 1 /\ d.units = con[w].units
        /\ d.done = con[w].done /\ d.at = con[w].at /\ d.work = con[w].work
        /\ d.aborted = con[w].aborted /\ d.refused = con[w].refused
    BY <1>1, <2>1 DEF Connections, Inside
  <2>3. Set(w, d) /\ con'[w] = d
    BY <1>1, <1>3, <2>2, SetTypes DEF EndUnit
  <2> HIDE DEF d
  <2>4. Holds(w) /\ Holds(w)' /\ Did(w)' = Did(w)
    BY <1>1, <1>2, <2>1, <2>2, <2>3, DidStays DEF Holds, Inside, Caller
  <2>5. Kind(w)' = Kind(w)
    BY <2>2, <2>3 DEF Kind, Unit
  <2>6. Stands(w)'
    BY <1>1, <1>2, <1>3, <2>1, <2>2, <2>3, <2>5 DEF Stands, Caller, Waiting
  <2>7. QED
    BY <1>1, <2>2, <2>3, <2>4, <2>6, HoldsOnQuietly DEF EndUnit
<1>4. CASE ~Whole(Kind(w))
  <2>1. ~Holds(w)
    BY <1>1, <1>2, <1>4 DEF Holds, Frame, Inside
  <2>2. QED
    BY <1>4, <2>1, GivesUpKeeps, HolderFacts DEF EndUnit
<1>5. QED
  BY <1>3, <1>4

LEMMA ThrowsKeeps ==
  ASSUME StoreInv, NEW w \in Writers, Throws(w)
  PROVE  StoreInv'
<1>1. /\ con[w] \in Connections /\ StoreTypes /\ Active(w) /\ Stands(w)
      /\ con[w].pc \in {"read", "write", "op"} /\ con[w].units # <<>>
      /\ con[w].at \in Nat /\ con[w].depth \in Nat /\ Kind(w) \in KindNames
  BY HolderFacts, ConnectionTypes DEF Throws, Stands, Active, Caller, Inside
<1>2. /\ con[w].at <= Len(Ops(Kind(w))) /\ con[w].at >= 1 /\ ~con[w].refused
      /\ Len(Ops(Kind(w))) \in 2..6
  BY <1>1, UnitSteps DEF Stands, Throws, AtEnd
<1>3. CASE con[w].depth = 0
  <2>1. ~Holds(w)
    BY <1>1, <1>3 DEF Holds, Frame, Inside, Stands
  <2>2. QED
    BY <1>3, <2>1, GivesUpKeeps, HolderFacts DEF Throws
<1>4. CASE con[w].depth # 0
  <2> DEFINE d == [con[w] EXCEPT !.pc = "thrown"]
  <2>1. /\ d \in Connections /\ d.pc = "thrown" /\ d.depth = con[w].depth /\ d.units = con[w].units
        /\ d.done = con[w].done /\ d.at = con[w].at /\ d.work = con[w].work
        /\ d.aborted = con[w].aborted /\ d.refused = con[w].refused
    BY <1>1 DEF Connections, Caller
  <2>2. Set(w, d) /\ con'[w] = d
    BY <1>1, <1>4, <2>1, SetTypes DEF Throws
  <2> HIDE DEF d
  <2>3. Holds(w) /\ Holds(w)' /\ Did(w)' = Did(w)
    BY <1>1, <1>4, <2>1, <2>2, DidStays DEF Holds, Inside, Caller, DidLast
  <2>4. Kind(w)' = Kind(w) /\ Nested(w)' = Nested(w) /\ Frame(w)' = Frame(w)
    BY <2>1, <2>2 DEF Kind, Unit, Nested, Op, Frame
  <2>5. /\ con[w].depth \in {1, Frame(w) + 1}
        /\ con[w].depth = Frame(w) + 1 => Nested(w)
    BY <1>1, <1>4 DEF Stands, Frame
  <2>6. Stands(w)'
    BY <1>1, <1>2, <2>1, <2>2, <2>4, <2>5 DEF Stands, Caller, Waiting
  <2>7. QED
    BY <1>1, <2>1, <2>2, <2>3, <2>6, HoldsOnQuietly DEF Throws
<1>5. QED
  BY <1>3, <1>4

LEMMA UnwindKeeps ==
  ASSUME StoreInv, NEW w \in Writers, Unwind(w)
  PROVE  StoreInv'
<1>1. /\ con[w] \in Connections /\ StoreTypes /\ Active(w) /\ Stands(w) /\ con[w].pc = "thrown"
      /\ con[w].units # <<>> /\ con[w].at \in Nat /\ con[w].depth \in Nat /\ Kind(w) \in KindNames
  BY HolderFacts, ConnectionTypes DEF Unwind, Stands, Active, Caller
<1>2. /\ con[w].at >= 1 /\ ~con[w].refused /\ Len(Ops(Kind(w))) \in 2..6
      /\ con[w].depth \in {1, 2} /\ Holds(w)
  BY <1>1, UnitSteps DEF Stands, Frame, Holds, Caller
<1>3. CASE con[w].depth > 1
  <2> DEFINE d == [con[w] EXCEPT !.depth = 1, !.aborted = TRUE, !.pc = "caught"]
  <2>1. /\ con[w].depth = 2 /\ con[w].depth - 1 = 1 /\ Whole(Kind(w))
        /\ con[w].at <= Len(Ops(Kind(w))) /\ Nested(w)
    BY <1>1, <1>2, <1>3 DEF Stands, Frame
  <2>2. /\ d \in Connections /\ d.pc = "caught" /\ d.depth = 1 /\ d.units = con[w].units
        /\ d.done = con[w].done /\ d.at = con[w].at /\ d.work = con[w].work
        /\ d.aborted /\ d.refused = con[w].refused
    BY <1>1 DEF Connections, Caller
  <2>3. Set(w, d) /\ con'[w] = d
    BY <1>1, <1>3, <2>1, <2>2, SetTypes DEF Unwind
  <2> HIDE DEF d
  <2>4. Holds(w)' /\ Did(w)' = Did(w)
    BY <1>1, <2>2, <2>3, DidStays DEF Holds, Caller, DidLast
  <2>5. Kind(w)' = Kind(w) /\ Nested(w)' = Nested(w)
    BY <2>2, <2>3 DEF Kind, Unit, Nested, Op
  <2>6. Stands(w)'
    BY <1>1, <1>2, <2>1, <2>2, <2>3, <2>5 DEF Stands, Caller, Waiting
  <2>7. QED
    BY <1>1, <1>2, <1>3, <2>2, <2>3, <2>4, <2>6, HoldsOnQuietly DEF Unwind
<1>4. CASE ~(con[w].depth > 1)
  <2>1. /\ Set(w, Again(w)) \/ Set(w, Rest(con[w]))
        /\ UNCHANGED <<disk, hot, record, view>> /\ reserved' = None /\ reserved = w
    BY <1>2, <1>4, HolderFacts DEF Unwind
  <2>2. Whole(Kind(w)) \/ (con[w].at <= Len(Ops(Kind(w))) /\ Nested(w))
    BY <1>1, <1>2, <1>4 DEF Stands, Frame
  <2>3. QED
    BY <1>1, <2>1, <2>2, TriesAgain, GivesUpKeeps
<1>5. QED
  BY <1>3, <1>4

(* A swallowed error lets the unit go on past the step that failed; the unit *)
(* is flagged.                                                               *)
LEMMA CaughtKeeps ==
  ASSUME StoreInv, NEW w \in Writers, Caught(w)
  PROVE  StoreInv'
<1>1. /\ con[w] \in Connections /\ StoreTypes /\ Active(w) /\ Stands(w) /\ con[w].pc = "caught"
      /\ con[w].units # <<>> /\ con[w].at \in Nat /\ Kind(w) \in KindNames
  BY HolderFacts, ConnectionTypes DEF Caught, Stands, Active, Caller
<1>2. /\ con[w].at <= Len(Ops(Kind(w))) /\ con[w].at >= 1 /\ ~con[w].refused /\ Nested(w)
      /\ Len(Ops(Kind(w))) \in 2..6 /\ Whole(Kind(w)) /\ con[w].depth = 1 /\ con[w].aborted
  BY <1>1, UnitSteps DEF Stands
<1>3. Holds(w) /\ con[w].at + 1 \in Nat /\ Frame(w) = 1
  BY <1>1, <1>2 DEF Holds, Caller, Frame
<1>4. CASE Set(w, [con[w] EXCEPT !.pc = "thrown"])
  <2> DEFINE d == [con[w] EXCEPT !.pc = "thrown"]
  <2>1. /\ d \in Connections /\ d.pc = "thrown" /\ d.depth = 1 /\ d.units = con[w].units
        /\ d.done = con[w].done /\ d.at = con[w].at /\ d.work = con[w].work
        /\ d.aborted /\ d.refused = con[w].refused
    BY <1>1, <1>2 DEF Connections, Caller
  <2>2. Set(w, d) /\ con'[w] = d
    BY <1>1, <1>4, <2>1, SetTypes
  <2> HIDE DEF d
  <2>3. Holds(w)' /\ Did(w)' = Did(w)
    BY <1>1, <2>1, <2>2, DidStays DEF Holds, Caller, DidLast
  <2>4. Kind(w)' = Kind(w) /\ Nested(w)' = Nested(w) /\ Frame(w)' = Frame(w)
    BY <2>1, <2>2 DEF Kind, Unit, Nested, Op, Frame
  <2>5. Stands(w)'
    BY <1>1, <1>2, <1>3, <2>1, <2>2, <2>4 DEF Stands, Caller, Waiting
  <2>6. QED
    BY <1>1, <1>3, <2>1, <2>2, <2>3, <2>5, HoldsOnQuietly DEF Caught
<1>5. CASE Set(w, [con[w] EXCEPT !.pc = "op", !.at = @ + 1])
  <2> DEFINE d == [con[w] EXCEPT !.pc = "op", !.at = @ + 1]
  <2>1. PICK a \in Nat : a = con[w].at + 1 /\ d = [con[w] EXCEPT !.pc = "op", !.at = a]
    BY <1>3, Zenon
  <2>2. Set(w, d)
    BY <1>5
  <2> HIDE DEF d
  <2>3. /\ d \in Connections /\ d.pc = "op" /\ d.depth = 1 /\ d.units = con[w].units
        /\ d.done = con[w].done /\ d.at = a /\ d.work = con[w].work
        /\ d.aborted /\ d.refused = con[w].refused
    BY <1>1, <1>2, <2>1 DEF Connections, Caller
  <2>4. con'[w] = d
    BY <1>1, <2>2, <2>3, SetTypes
  <2>5. Kind(w)' = Kind(w) /\ Frame(w)' = Frame(w) /\ Holds(w)'
    BY <2>3, <2>4 DEF Kind, Unit, Frame, Holds, Caller
  <2>6. Did(w) \subseteq Did(w)'
    <3>1. \A i \in Intended(Kind(w)) : i \in Nat
      BY <1>1, IntendedSteps, UnitSteps
    <3>2. con'[w].at = con[w].at + 1 /\ con'[w].refused = con[w].refused
      BY <2>1, <2>3, <2>4
    <3>3. \A i \in Nat : i < con[w].at \/ i = con[w].at => i < con'[w].at
      BY <1>1, <3>2
    <3>4. QED
      BY <1>2, <2>5, <3>1, <3>2, <3>3 DEF Did
  <2>7. Stands(w)'
    BY <1>1, <1>2, <1>3, <2>1, <2>3, <2>4, <2>5 DEF Stands, Caller, Waiting
  <2>8. QED
    BY <1>1, <1>2, <1>3, <2>1, <2>2, <2>3, <2>4, <2>5, <2>6, <2>7, HoldsOnQuietly DEF Caught
<1>6. QED
  BY <1>4, <1>5 DEF Caught

LEMMA CommitKeeps ==
  ASSUME StoreInv, NEW w \in Writers, Commit(w)
  PROVE  StoreInv'
<1> DEFINE d == [con[w] EXCEPT !.pc = "commit_journal"]
<1>1. /\ con[w] \in Connections /\ StoreTypes /\ Stands(w) /\ con[w].pc = "commit" /\ ~con[w].aborted
      /\ Holds(w) /\ reserved = w /\ WorkFollows(w) /\ Writing(w)
  BY HolderFacts DEF Commit, Holds, Inside, StoreInv, Writing
<1>2. /\ d \in Connections /\ d.pc = "commit_journal" /\ d.units = con[w].units
      /\ d.done = con[w].done /\ d.at = con[w].at /\ d.work = con[w].work /\ d.depth = con[w].depth
      /\ d.aborted = con[w].aborted /\ d.refused = con[w].refused /\ d.schema = con[w].schema
  BY <1>1 DEF Connections, Inside
<1>3. Set(w, d) /\ con'[w] = d
  BY <1>1, <1>2, SetTypes DEF Commit
<1> HIDE DEF d
<1>4. Holds(w)'
  BY <1>2, <1>3 DEF Holds, Inside
<1>5. Stands(w)'
  <2>1. Kind(w)' = Kind(w) /\ Nested(w)' = Nested(w) /\ (Active(w)' <=> Active(w))
    BY <1>1, <1>2, <1>3 DEF Kind, Unit, Nested, Op, Active, Inside
  <2>2. QED
    BY <1>1, <1>2, <1>3, <2>1 DEF Stands, Caller, Waiting
<1>6. CASE con[w].units # <<>>
  <2>1. Active(w) /\ con[w].at \in Nat
    BY <1>1, <1>6, HolderFacts, ConnectionTypes
  <2>2. Did(w)' = Did(w)
    BY <1>1, <1>2, <1>3, <1>6, DidStays DEF DidLast
  <2>3. QED
    BY <1>1, <1>2, <1>3, <1>4, <1>5, <1>6, <2>1, <2>2, HoldsOnQuietly DEF Commit
<1>7. CASE con[w].units = <<>>
  <2>1. WorkFollows(w)'
    BY <1>1, <1>2, <1>3, <1>4, <1>7 DEF WorkFollows, Commit
  <2>2. OwnsItsEffects(w)'
    <3>1. ~Active(w)' /\ con'[w].at \in Nat
      BY <1>1, <1>2, <1>3, <1>7, ConnectionTypes DEF Active
    <3>2. QED
      BY <1>1, <1>2, <1>3, <3>1, OwnStays DEF Writing, Commit
  <2>3. Writing(w)'
    <3>1. FinalizesOnce(w)' /\ MigratesInOrder(w)'
      BY <1>2, <1>3, <1>7 DEF FinalizesOnce, MigratesInOrder
    <3>2. reserved' = w
      BY <1>1 DEF Commit
    <3>3. QED
      BY <1>4, <1>5, <2>1, <2>2, <3>1, <3>2 DEF Writing
  <2>4. QED
    BY <1>1, <1>2, <1>3, <2>3, KeepsDisk DEF Commit, StoreTypes
<1>8. QED
  BY <1>6, <1>7

-----------------------------------------------------------------------------
(* The steps of a finalizing unit that FinalizesOnce is about.               *)
LEMMA FinalizingStep ==
  ASSUME StoreInv, NEW w \in Writers, con[w].pc = "op", ~AtEnd(w), NEW n \in {1, 3},
         Op(w) = IF n = 1 THEN "check" ELSE "record"
  PROVE  /\ StoreTypes /\ con[w] \in Connections /\ Stands(w) /\ Active(w) /\ Holds(w)
         /\ Kind(w) = "finalize" /\ Whole(Kind(w)) /\ con[w].units # <<>>
         /\ con[w].at = n /\ con[w].depth = 1 /\ ~con[w].refused /\ Len(Ops(Kind(w))) = 6
         /\ \A i \in Intended(Kind(w)) : i \in 1..6 /\ i # 1 /\ i # 3
<1>1. /\ StoreTypes /\ con[w] \in Connections /\ Stands(w) /\ Active(w) /\ con[w].units # <<>>
      /\ Kind(w) \in KindNames /\ con[w].at \in Nat /\ con[w].at >= 1
  <2>1. StoreTypes /\ con[w] \in Connections /\ Stands(w) /\ con[w].units # <<>>
    BY HolderFacts DEF Caller
  <2>2. Active(w)
    BY <2>1 DEF Active, Caller
  <2>3. Kind(w) \in KindNames /\ con[w].at \in Nat
    BY <2>1, ConnectionTypes
  <2>4. QED
    BY <2>1, <2>2, <2>3 DEF Stands
<1>2. con[w].at \in 1..Len(Ops(Kind(w))) /\ Len(Ops(Kind(w))) \in 2..6
  BY <1>1, UnitSteps DEF AtEnd
<1>3. Kind(w) = "finalize"
  BY <1>1, <1>2, UnitSteps DEF Op
<1>4. con[w].at = n /\ Len(Ops(Kind(w))) = 6
  BY <1>2, <1>3, UnitSteps DEF Op
<1>5. Whole(Kind(w)) /\ con[w].depth = 1 /\ ~con[w].refused /\ Holds(w)
  <2>1. Whole(Kind(w)) /\ Frame(w) = 1
    BY <1>3 DEF Whole, Frame
  <2>2. con[w].depth = 1 /\ ~con[w].refused
    BY <1>1, <1>4, <2>1 DEF Stands
  <2>3. QED
    BY <2>1, <2>2 DEF Holds, Caller
<1>6. \A i \in Intended(Kind(w)) : i \in 1..6 /\ Ops(Kind(w))[i] \notin {"check", "record"}
  BY <1>1, <1>4, IntendedSteps
<1>7. \A i \in Intended(Kind(w)) : i # 1 /\ i # 3
  BY <1>3, <1>6, UnitSteps
<1>8. QED
  BY <1>1, <1>3, <1>4, <1>5, <1>6, <1>7

LEMMA AtOp ==
  ASSUME NEW w \in Writers, con'[w].pc = "op", con'[w].units # <<>>, Kind(w)' = Kind(w),
         Whole(Kind(w)), Len(Ops(Kind(w))) = 6, con'[w].depth = 1, con'[w].at \in 1..7,
         con'[w].refused => con'[w].at = 7 /\ Kind(w) = "finalize"
  PROVE  Stands(w)'
BY DEF Stands, Caller, Waiting, Frame

LEMMA CheckKeeps ==
  ASSUME StoreInv, NEW w \in Writers, Check(w)
  PROVE  StoreInv'
<1>1. /\ StoreTypes /\ con[w] \in Connections /\ Stands(w) /\ Active(w) /\ Holds(w)
      /\ Kind(w) = "finalize" /\ Whole(Kind(w)) /\ con[w].units # <<>>
      /\ con[w].at = 1 /\ con[w].depth = 1 /\ ~con[w].refused /\ Len(Ops(Kind(w))) = 6
      /\ \A i \in Intended(Kind(w)) : i \in 1..6 /\ i # 1 /\ i # 3
  BY FinalizingStep DEF Check
<1>2. con[w].pc = "op" /\ UNCHANGED <<disk, hot, reserved, record, view>>
  BY DEF Check
<1>3. WorkFollows(w) /\ disk.rows \subseteq con[w].work.rows
  BY <1>1 DEF StoreInv, Writing, WorkFollows
<1>4. ASSUME NEW d \in Connections, NEW a \in {2, 7}, NEW refused \in BOOLEAN, a = 7 <=> refused,
             Set(w, d), d.pc = "op", d.depth = 1, d.units = con[w].units, d.done = con[w].done,
             d.at = a, d.work = con[w].work, d.aborted = con[w].aborted, d.refused = refused,
             ~refused => ~HasDelivery(con[w].work)
      PROVE  StoreInv'
  <2>1. /\ d \in Connections /\ d.pc = "op" /\ d.depth = 1 /\ d.units = con[w].units
        /\ d.done = con[w].done /\ d.at = a /\ d.work = con[w].work
        /\ d.aborted = con[w].aborted /\ d.refused = refused
    BY <1>4
  <2>2. Set(w, d) /\ con'[w] = d
    BY <1>1, <1>4, SetTypes
  <2>3. Kind(w)' = Kind(w) /\ Frame(w)' = Frame(w) /\ Holds(w)' /\ Unit(w)' = Unit(w) /\ Frame(w) = 1
    BY <1>1, <2>1, <2>2 DEF Kind, Unit, Frame, Holds, Caller
  <2>4. Did(w) = {} /\ Did(w)' = {}
    <3>1. ~DidLast(w) /\ ~DidLast(w)' /\ con'[w].at = a /\ con'[w].refused = refused
      BY <1>2, <2>1, <2>2 DEF DidLast
    <3>2. \A i \in Intended(Kind(w)) : ~(i < con[w].at) /\ (a = 2 => ~(i < a))
      BY <1>1
    <3>3. Did(w) = {}
      BY <1>1, <3>1, <3>2 DEF Did
    <3>4. CASE refused
      BY <3>1, <3>3, <3>4 DEF Did
    <3>5. CASE ~refused
      BY <1>4, <2>3, <3>1, <3>2, <3>3, <3>5 DEF Did
    <3>6. QED
      BY <3>3, <3>4, <3>5
  <2>5. WorkFollows(w)'
    BY <1>1, <1>2, <1>3, <2>1, <2>2, <2>4, WorkStays
  <2>6. FinalizesOnce(w)'
    <3>1. ~refused => NoDelivery
      BY <1>3, <1>4 DEF HasDelivery, NoDelivery
    <3>2. NoDelivery => NoDelivery'
      BY <1>2, <2>1, <2>2, KindsStay DEF NoDelivery
    <3>3. refused \/ ~(con'[w].at > 3)
      BY <1>4, <2>1, <2>2
    <3>4. QED
      BY <2>1, <2>2, <3>1, <3>2, <3>3 DEF FinalizesOnce
  <2>7. Stands(w)'
    <3>1. d.at \in 1..7 /\ (d.refused => d.at = 7)
      BY <1>4
    <3>2. QED
      BY AtOp, <1>1, <2>1, <2>2, <2>3, <3>1
  <2>8. QED
    BY <1>1, <1>2, <2>1, <2>2, <2>3, <2>5, <2>6, <2>7, HoldsOn
<1>5. CASE HasDelivery(con[w].work)
  <2> DEFINE d == [con[w] EXCEPT !.at = Len(Ops(Kind(w))) + 1, !.refused = TRUE]
  <2>1. Set(w, d)
    BY <1>5 DEF Check
  <2>2. PICK a \in {7} : a = Len(Ops(Kind(w))) + 1 /\ d = [con[w] EXCEPT !.at = a, !.refused = TRUE]
    <3>1. \A l : l = 6 => l + 1 \in {7}
      OBVIOUS
    <3>2. Len(Ops(Kind(w))) + 1 \in {7}
      BY <1>1, <3>1, Zenon
    <3>3. QED
      BY <3>2, Zenon
  <2>3. a \in Nat /\ a = 7
    BY <2>2
  <2> HIDE DEF d
  <2>4. /\ d \in Connections /\ d.pc = "op" /\ d.depth = 1 /\ d.units = con[w].units
        /\ d.done = con[w].done /\ d.at = a /\ d.work = con[w].work
        /\ d.aborted = con[w].aborted /\ d.refused
    BY <1>1, <1>2, <2>2, <2>3 DEF Connections
  <2>5. QED
    BY <1>4, <2>1, <2>3, <2>4
<1>6. CASE ~HasDelivery(con[w].work)
  <2> DEFINE d == [con[w] EXCEPT !.at = 2]
  <2>1. Set(w, d)
    <3>1. \A l : l = 1 => l + 1 = 2
      OBVIOUS
    <3>2. con[w].at + 1 = 2
      BY <1>1, <3>1, Zenon
    <3>3. QED
      BY <1>6, <3>2, Zenon DEF Check
  <2>2. /\ d \in Connections /\ d.pc = "op" /\ d.depth = 1 /\ d.units = con[w].units
        /\ d.done = con[w].done /\ d.at = 2 /\ d.work = con[w].work
        /\ d.aborted = con[w].aborted /\ ~d.refused /\ d.refused \in BOOLEAN
    BY <1>1, <1>2 DEF Connections
  <2> HIDE DEF d
  <2>3. d.refused = FALSE
    BY <2>2
  <2>4. QED
    BY <1>4, <1>6, <2>1, <2>2, <2>3
<1>7. QED
  BY <1>5, <1>6

LEMMA WriteRecordKeeps ==
  ASSUME StoreInv, NEW w \in Writers, WriteRecord(w)
  PROVE  StoreInv'
<1>1. /\ StoreTypes /\ con[w] \in Connections /\ Stands(w) /\ Active(w) /\ Holds(w)
      /\ Kind(w) = "finalize" /\ Whole(Kind(w)) /\ con[w].units # <<>>
      /\ con[w].at = 3 /\ con[w].depth = 1 /\ ~con[w].refused /\ Len(Ops(Kind(w))) = 6
      /\ \A i \in Intended(Kind(w)) : i \in 1..6 /\ i # 1 /\ i # 3
  BY FinalizingStep DEF WriteRecord
<1>2. /\ con[w].pc = "op" /\ UNCHANGED <<disk, hot, reserved, view>> /\ record' = <<w, Unit(w)>>
      /\ NoDelivery /\ WorkFollows(w)
  BY <1>1 DEF WriteRecord, StoreInv, Writing, FinalizesOnce
<1> DEFINE d == [con[w] EXCEPT !.at = 4]
<1>3. /\ d \in Connections /\ d.pc = "op" /\ d.depth = 1 /\ d.units = con[w].units
      /\ d.done = con[w].done /\ d.at = 4 /\ d.work = con[w].work
      /\ d.aborted = con[w].aborted /\ ~d.refused
  BY <1>1, <1>2 DEF Connections
<1>4. Set(w, d) /\ con'[w] = d
  BY <1>1, <1>3, SetTypes DEF WriteRecord
<1> HIDE DEF d
<1>5. Kind(w)' = Kind(w) /\ Frame(w)' = Frame(w) /\ Holds(w)' /\ Unit(w)' = Unit(w) /\ Frame(w) = 1
  BY <1>1, <1>3, <1>4 DEF Kind, Unit, Frame, Holds, Caller
<1>6. Did(w)' = Did(w)
  <2>1. ~DidLast(w) /\ ~DidLast(w)' /\ con'[w].at = 4 /\ ~con'[w].refused
    BY <1>2, <1>3, <1>4 DEF DidLast
  <2>2. \A i \in Intended(Kind(w)) : i < 4 <=> i < 3
    BY <1>1
  <2>3. QED
    BY <1>1, <1>5, <2>1, <2>2 DEF Did
<1>7. WorkFollows(w)'
  BY <1>1, <1>2, <1>3, <1>4, <1>6, WorkStays
<1>8. FinalizesOnce(w)'
  <2>1. NoDelivery'
    BY <1>2, <1>3, <1>4, KindsStay DEF NoDelivery
  <2>2. QED
    BY <1>2, <1>5, <2>1 DEF FinalizesOnce
<1>9. Stands(w)'
  BY AtOp, <1>1, <1>3, <1>4, <1>5
<1>10. QED
  BY <1>1, <1>2, <1>3, <1>4, <1>5, <1>7, <1>8, <1>9, HoldsOn

-----------------------------------------------------------------------------
(* The steps that write.                                                     *)
LEMMA WorkGrows ==
  ASSUME StoreInv, NEW w \in Writers, disk' = disk, con[w].units # <<>>, Holds(w),
         con'[w].units = con[w].units, con'[w].aborted = con[w].aborted, con'[w].pc # "write",
         con'[w].work.tables = con[w].work.tables, con'[w].work.version = con[w].work.version,
         con[w].work.rows \subseteq con'[w].work.rows,
         con'[w].work.rows \subseteq con[w].work.rows \cup {Effect(w)},
         Events(con[w].work.chain) \subseteq Events(con'[w].work.chain),
         Events(con'[w].work.chain) \subseteq Events(con[w].work.chain) \cup {Effect(w)},
         Effect(w) \in Made(con'[w].work),
         Linked(con'[w].work.chain), Single(con'[w].work.chain),
         Did(w)' = Did(w) \cup {con[w].at}
  PROVE  WorkFollows(w)'
<1> DEFINE work == con'[w].work
           New(db) == (db.rows \ disk.rows) \cup (Events(db.chain) \ Events(disk.chain))
<1>1. Unit(w)' = Unit(w) /\ Kind(w)' = Kind(w)
  BY DEF Unit, Kind
<1>2. /\ con[w].work.tables = disk.tables /\ con[w].work.version = disk.version
      /\ disk.rows \subseteq con[w].work.rows /\ Events(disk.chain) \subseteq Events(con[w].work.chain)
      /\ \A e \in New(con[w].work) : e.by = w /\ e.unit = Unit(w) /\ e.op \in Did(w)
      /\ Whole(Kind(w)) /\ ~con[w].aborted =>
           \A i \in Did(w) : [by |-> w, unit |-> Unit(w), op |-> i] \in Made(con[w].work)
  BY DEF StoreInv, Writing, WorkFollows
<1>3. \A e \in New(work) : e.by = w /\ e.unit = Unit(w) /\ e.op \in Did(w)'
  <2>1. Effect(w).by = w /\ Effect(w).unit = Unit(w) /\ Effect(w).op = con[w].at
    BY DEF Effect
  <2>2. New(work) \subseteq New(con[w].work) \cup {Effect(w)}
    OBVIOUS
  <2> HIDE DEF New
  <2>3. QED
    BY <1>2, <2>1, <2>2
<1>4. Whole(Kind(w)) /\ ~con[w].aborted =>
        \A i \in Did(w)' : [by |-> w, unit |-> Unit(w), op |-> i] \in Made(work)
  <2>1. Made(con[w].work) \subseteq Made(work)
    BY DEF Made
  <2>2. QED
    BY <1>2, <2>1 DEF Effect
<1>5. disk.rows \subseteq work.rows /\ Events(disk.chain) \subseteq Events(work.chain)
  BY <1>2
<1>6. QED
  BY <1>1, <1>2, <1>3, <1>4, <1>5 DEF WorkFollows

(* The effect a step will have is nobody's yet.                              *)
LEMMA EffectIsNew ==
  ASSUME StoreInv, NEW w \in Writers, Active(w), Holds(w), ~DidLast(w)
  PROVE  Effect(w) \in Effects /\ Effect(w) \notin Made(con[w].work)
<1>1. con[w].units # <<>> /\ Unit(w) \in Nat /\ con[w].at \in Nat /\ Kind(w) \in KindNames
  BY HolderFacts, ConnectionTypes DEF Active
<1>2. Effect(w).by = w /\ Effect(w).unit = Unit(w) /\ Effect(w).op = con[w].at /\ Effect(w) \in Effects
  BY <1>1 DEF Effect, Effects
<1>3. Effect(w) \notin Made(disk)
  BY <1>1, <1>2, HolderFacts DEF OwnsItsEffects
<1>4. \A e \in Made(con[w].work) \ Made(disk) : e.op \in Did(w)
  BY <1>1 DEF StoreInv, Writing, WorkFollows, Made
<1>5. con[w].at \notin Did(w)
  BY <1>1 DEF Did
<1>6. QED
  BY <1>2, <1>3, <1>4, <1>5

LEMMA InsertKeeps ==
  ASSUME StoreInv, NEW w \in Writers, Insert(w)
  PROVE  StoreInv'
<1>1. /\ con[w] \in Connections /\ StoreTypes /\ Active(w) /\ Stands(w) /\ con[w].pc = "write"
      /\ con[w].units # <<>> /\ con[w].at \in Nat /\ Holds(w) /\ Kind(w) \in KindNames
      /\ con[w].work \in Databases /\ ~DidLast(w)
  BY HolderFacts, ConnectionTypes DEF Insert, Stands, Active, Holds, Inside, DidLast
<1>2. /\ con[w].depth = Frame(w) + 1 /\ con[w].at <= Len(Ops(Kind(w))) /\ con[w].at >= 1 /\ Nested(w)
      /\ ~con[w].refused /\ Len(Ops(Kind(w))) \in 2..6
  BY <1>1, UnitSteps DEF Stands
<1>3. Effect(w) \in Effects /\ Effect(w) \notin Made(con[w].work)
  BY <1>1, EffectIsNew
<1>4. /\ con[w].work.rows \subseteq Effects
      /\ con[w].work.chain \in Seq([event : Effects, prev : Tips])
      /\ con[w].tip = Last(con[w].work.chain) /\ con[w].tip \in Tips
      /\ Linked(con[w].work.chain) /\ Single(con[w].work.chain)
  BY <1>1 DEF StoreInv, Writing, WorkFollows, Databases, Connections
<1> DEFINE link == [event |-> Effect(w), prev |-> con[w].tip]
           work == IF Op(w) = "audit"
                     THEN [con[w].work EXCEPT !.chain = Append(@, link)]
                     ELSE [con[w].work EXCEPT !.rows = @ \cup {Effect(w)}]
           d == [con[w] EXCEPT !.pc = "leave", !.tip = None, !.work = work]
<1>5. /\ work \in Databases /\ work.tables = con[w].work.tables /\ work.version = con[w].work.version
      /\ Linked(work.chain) /\ Single(work.chain)
      /\ con[w].work.rows \subseteq work.rows /\ Events(con[w].work.chain) \subseteq Events(work.chain)
      /\ work.rows \subseteq con[w].work.rows \cup {Effect(w)}
      /\ Events(work.chain) \subseteq Events(con[w].work.chain) \cup {Effect(w)}
      /\ Effect(w) \in Made(work)
  <2>1. CASE Op(w) = "audit"
    <3> DEFINE chain == Append(con[w].work.chain, link)
    <3>1. work = [con[w].work EXCEPT !.chain = chain]
      BY <2>1
    <3>2. chain \in Seq([event : Effects, prev : Tips])
      BY <1>3, <1>4
    <3>3. Effect(w) \notin Events(con[w].work.chain)
      BY <1>3 DEF Made
    <3>4. Linked(chain) /\ Single(chain) /\ Events(chain) = Events(con[w].work.chain) \cup {Effect(w)}
      BY <1>3, <1>4, <3>3, AppendLinks
    <3> HIDE DEF chain, work
    <3>5. /\ work \in Databases /\ work.chain = chain /\ work.rows = con[w].work.rows
          /\ work.tables = con[w].work.tables /\ work.version = con[w].work.version
      BY <1>1, <3>1, <3>2 DEF Databases
    <3>6. QED
      BY <3>4, <3>5 DEF Made
  <2>2. CASE Op(w) # "audit"
    <3> DEFINE rows == con[w].work.rows \cup {Effect(w)}
    <3>1. work = [con[w].work EXCEPT !.rows = rows] /\ rows \subseteq Effects
      BY <1>3, <1>4, <2>2
    <3> HIDE DEF rows, work
    <3>2. /\ work \in Databases /\ work.chain = con[w].work.chain /\ work.rows = rows
          /\ work.tables = con[w].work.tables /\ work.version = con[w].work.version
      BY <1>1, <3>1 DEF Databases
    <3>3. QED
      BY <1>4, <3>2 DEF Made, rows
  <2>3. QED
    BY <2>1, <2>2
<1>6. Set(w, d) /\ UNCHANGED <<disk, hot, reserved, record, view>>
  BY DEF Insert
<1> HIDE DEF work, d
<1>7. /\ d \in Connections /\ d.pc = "leave" /\ d.units = con[w].units /\ d.depth = con[w].depth
      /\ d.done = con[w].done /\ d.at = con[w].at /\ d.work = work
      /\ d.aborted = con[w].aborted /\ d.refused = con[w].refused
  BY <1>1, <1>5 DEF Connections, Inside, Tips, d
<1>8. con'[w] = d
  BY <1>1, <1>6, <1>7, SetTypes
<1>9. Kind(w)' = Kind(w) /\ Nested(w)' = Nested(w) /\ Frame(w)' = Frame(w) /\ Holds(w)'
  BY <1>7, <1>8 DEF Kind, Unit, Nested, Op, Frame, Holds, Inside
<1>10. Did(w)' = Did(w) \cup {con[w].at}
  <2>1. con[w].at \in Intended(Kind(w))
    BY <1>1, <1>2, IntendedSteps DEF Nested, Op
  <2>2. DidLast(w)' /\ con'[w].at = con[w].at /\ ~con'[w].refused
    BY <1>2, <1>7, <1>8 DEF DidLast
  <2>3. QED
    BY <1>1, <1>2, <1>9, <2>1, <2>2 DEF Did
<1>11. WorkFollows(w)'
  BY <1>1, <1>5, <1>6, <1>7, <1>8, <1>10, WorkGrows
<1>12. FinalizesOnce(w)'
  BY <1>1, <1>6, <1>7, <1>8, FinalizeStays, KindsStay
<1>13. Stands(w)'
  BY <1>1, <1>2, <1>7, <1>8, <1>9 DEF Stands, Caller, Waiting
<1>14. QED
  BY <1>1, <1>6, <1>7, <1>9, <1>11, <1>12, <1>13, HoldsOn

(* A step that changes the committed database.                               *)
LEMMA ElsewhereHad ==
  ASSUME NEW w \in Writers, NEW db, Made(disk) \subseteq Made(db),
         \A e \in Made(db) \ Made(disk) : e.by = w /\ e.unit = Unit(w),
         NEW v, NEW n, v # w \/ n # Unit(w)
  PROVE  Had(v, n, db.rows, db.chain) = Had(v, n, disk.rows, disk.chain)
<1>1. {x \in Made(db) : x.by = v /\ x.unit = n} = {x \in Made(disk) : x.by = v /\ x.unit = n}
  OBVIOUS
<1>2. QED
  BY <1>1 DEF Had, Made, Events

LEMMA ChangesDisk ==
  ASSUME StoreInv, NEW w \in Writers, NEW d \in Connections, Set(w, d), d.units = con[w].units,
         disk' \in Databases, hot' \in BOOLEAN, UNCHANGED <<record, view>>,
         reserved' = None, reserved \in {None, w}, Shared = {},
         Made(disk) \subseteq Made(disk'),
         \A e \in Made(disk') \ Made(disk) : e.by = w /\ e.unit = Unit(w),
         disk'.tables = 1..disk'.version, disk'.version <= Supported, disk.version <= disk'.version,
         Linked(disk'.chain), Single(disk'.chain),
         \A e \in disk'.rows : KindOf(e) = "finalize" => record = <<e.by, e.unit>>,
         \A n \in 1..Unit(w) : Whole(con[w].units[n]) =>
           Had(w, n, disk'.rows, disk'.chain) \in {{}, Intended(con[w].units[n])},
         \A n \in d.done : /\ n \in 1..Unit(w) /\ Whole(con[w].units[n])
                           /\ Had(w, n, disk'.rows, disk'.chain) = Intended(con[w].units[n]),
         \A e \in Made(disk') : e.by = w => e.unit \in 1..Unit(w),
         ~Holds(w)', Stands(w)', OwnsItsEffects(w)', MigratesInOrder(w)', StoreAssumption
  PROVE  StoreInv'
<1> USE DEF StoreInv
<1>1. /\ con' \in [Writers -> Connections] /\ con'[w] = d
      /\ \A v \in Writers \ {w} : con'[v] = con[v]
  BY SetTypes
<1>2. StoreTypes'
  BY <1>1 DEF StoreTypes
<1>3. disk.version \in Nat /\ disk'.version \in Nat /\ disk \in Databases
  BY DEF StoreTypes, Databases
<1>4. \A v \in Writers \ {w} : reserved # v /\ reserved' # v /\ ~Holds(v)
  BY StoreAssumption DEF Writing
<1>5. \A v \in Writers : Writing(v)'
  <2>1. Writing(w)'
    BY StoreAssumption DEF Writing, WorkFollows, FinalizesOnce
  <2>2. ASSUME NEW v \in Writers \ {w} PROVE Writing(v)'
    <3>1. con[v].schema \in Nat /\ Writing(v)
      BY ConnectionTypes
    <3>2. \A e \in Made(disk') : e.by = v => e \in Made(disk)
      BY <2>2
    <3>3. QED
      BY <1>1, <1>3, <1>4, <3>1, <3>2, ElsewhereChanged
  <2>3. QED
    BY <2>1, <2>2
<1>6. \A v \in Writers : Unit(v)' = Unit(v) /\ con'[v].units = con[v].units
  BY <1>1 DEF Unit
<1>7. \A e \in disk'.rows : KindOf(e)' = KindOf(e)
  <2>1. disk'.rows \subseteq Effects
    BY DEF Databases
  <2>2. \A e \in disk'.rows : e.by \in Writers
    BY <2>1 DEF Effects
  <2>3. QED
    BY <1>6, <2>2 DEF KindOf
<1>8. DeliveryKeepsItsRecord'
  BY <1>7 DEF DeliveryKeepsItsRecord
<1>9. UnitsWhole'
  <2>1. ASSUME NEW v \in Writers, v # w
        PROVE  /\ \A n \in 1..Unit(v) : Whole(con[v].units[n]) =>
                    Had(v, n, disk'.rows, disk'.chain) \in {{}, Intended(con[v].units[n])}
               /\ \A n \in con[v].done :
                    /\ n \in 1..Unit(v) /\ Whole(con[v].units[n])
                    /\ Had(v, n, disk'.rows, disk'.chain) = Intended(con[v].units[n])
    <3>1. \A n : Had(v, n, disk'.rows, disk'.chain) = Had(v, n, disk.rows, disk.chain)
      BY <2>1, ElsewhereHad
    <3>2. QED
      BY <3>1 DEF DiskIsSound, UnitsWhole
  <2>2. ASSUME NEW v \in Writers
        PROVE  /\ \A n \in 1..Unit(v)' : Whole(con'[v].units[n]) =>
                    Had(v, n, disk'.rows, disk'.chain) \in {{}, Intended(con'[v].units[n])}
               /\ \A n \in con'[v].done :
                    /\ n \in 1..Unit(v)' /\ Whole(con'[v].units[n])
                    /\ Had(v, n, disk'.rows, disk'.chain) = Intended(con'[v].units[n])
    <3>1. CASE v = w
      <4>1. Unit(w)' = Unit(w) /\ con'[w].units = con[w].units /\ con'[w].done = d.done
        BY <1>1, <1>6
      <4>2. QED
        BY <3>1, <4>1
    <3>2. CASE v # w
      BY <1>1, <1>6, <2>1, <3>2
    <3>3. QED
      BY <3>1, <3>2
  <2>3. QED
    BY <2>2 DEF UnitsWhole
<1>10. DiskIsSound'
  BY <1>8, <1>9 DEF DiskIsSound
<1>11. Shared' = {}
  BY DEF Shared
<1>12. \A r \in Readers : Viewing(r)'
  <2> SUFFICES ASSUME NEW r \in Readers PROVE Viewing(r)'
    OBVIOUS
  <2>1. r \notin Shared' /\ view'[r].pc # "chain_read"
    BY <1>11 DEF Shared
  <2>2. view[r].pc # "out" => disk'.version = Supported
    <3>1. view[r].pc # "out" => disk.version = Supported
      BY DEF Viewing
    <3>2. Supported \in Nat
      BY DEF StoreAssumption
    <3>3. QED
      BY <1>3, <3>1, <3>2
  <2>3. QED
    BY <2>1, <2>2 DEF Viewing
<1>13. QED
  BY <1>2, <1>5, <1>10, <1>11, <1>12

LEMMA StatementKeeps ==
  ASSUME StoreInv, NEW w \in Writers, StoreAssumption, Statement(w)
  PROVE  StoreInv'
<1>1. /\ con[w] \in Connections /\ StoreTypes /\ Active(w) /\ Stands(w) /\ con[w].pc = "op"
      /\ con[w].units # <<>> /\ con[w].at \in Nat /\ Kind(w) \in KindNames /\ Unit(w) \in Nat
      /\ con[w].work \in Databases /\ ~DidLast(w) /\ Op(w) = "row"
  BY HolderFacts, ConnectionTypes DEF Statement, Stands, Active, Caller, DidLast
<1>2. /\ con[w].depth = Frame(w) /\ con[w].at <= Len(Ops(Kind(w))) /\ con[w].at >= 1
      /\ ~con[w].refused /\ Len(Ops(Kind(w))) \in 2..6 /\ con[w].at + 1 \in Nat
  BY <1>1, UnitSteps DEF Stands, Statement, AtEnd
<1>3. con[w].at \in Intended(Kind(w)) /\ (Kind(w) = "finalize" => con[w].at # 1 /\ con[w].at # 3)
  <2>1. con[w].at \in 1..Len(Ops(Kind(w))) /\ Ops(Kind(w))[con[w].at] = "row"
    BY <1>1, <1>2 DEF Op
  <2>2. con[w].at \in Intended(Kind(w))
    BY <1>1, <2>1, IntendedSteps
  <2>3. ASSUME Kind(w) = "finalize" PROVE con[w].at # 1 /\ con[w].at # 3
    BY <2>1, <2>3, UnitSteps
  <2>4. QED
    BY <2>2, <2>3
<1>4. Effect(w) \in Effects
  BY <1>1 DEF Effect, Effects
<1>5. CASE con[w].depth > 0
  <2>1. Holds(w) /\ Whole(Kind(w)) /\ con[w].depth = 1 /\ Frame(w) = 1
    BY <1>1, <1>2, <1>5 DEF Holds, Frame, Caller
  <2> DEFINE rows == con[w].work.rows \cup {Effect(w)}
             work == [con[w].work EXCEPT !.rows = rows]
             d == [con[w] EXCEPT !.at = @ + 1, !.work = work]
  <2>2. Set(w, d) /\ UNCHANGED <<disk, hot, reserved, record, view>>
    BY <1>5 DEF Statement
  <2>3. rows \subseteq Effects
    BY <1>1, <1>4 DEF Databases
  <2> HIDE DEF rows
  <2>4. /\ work \in Databases /\ work.rows = rows /\ work.chain = con[w].work.chain
        /\ work.tables = con[w].work.tables /\ work.version = con[w].work.version
    BY <1>1, <2>3 DEF Databases
  <2> HIDE DEF work
  <2>5. PICK a \in Nat : a = con[w].at + 1 /\ d = [con[w] EXCEPT !.at = a, !.work = work]
    BY <1>2, Zenon
  <2> HIDE DEF d
  <2>6. /\ d \in Connections /\ d.pc = "op" /\ d.units = con[w].units /\ d.depth = 1
        /\ d.done = con[w].done /\ d.at = a /\ d.work = work
        /\ d.aborted = con[w].aborted /\ d.refused = con[w].refused
    BY <1>1, <2>1, <2>4, <2>5 DEF Connections
  <2>7. con'[w] = d
    BY <1>1, <2>2, <2>6, SetTypes
  <2>8. Kind(w)' = Kind(w) /\ Frame(w)' = Frame(w) /\ Holds(w)' /\ ~DidLast(w)'
    BY <2>6, <2>7 DEF Kind, Unit, Frame, Holds, Caller, DidLast
  <2>9. Did(w)' = Did(w) \cup {con[w].at}
    <3>1. \A i \in Intended(Kind(w)) : i \in Nat
      BY <1>1, IntendedSteps, UnitSteps
    <3>2. \A i \in Nat : i < a <=> i < con[w].at \/ i = con[w].at
      BY <1>1, <2>5
    <3>3. con'[w].at = a /\ ~con'[w].refused
      BY <1>2, <2>6, <2>7
    <3>4. QED
      BY <1>1, <1>2, <1>3, <2>8, <3>1, <3>2, <3>3 DEF Did
  <2>10. WorkFollows(w)'
    <3>1. Linked(con[w].work.chain) /\ Single(con[w].work.chain)
      BY <1>1, <2>1 DEF StoreInv, Writing, WorkFollows
    <3>2. Effect(w) \in Made(con'[w].work) /\ con[w].work.rows \subseteq con'[w].work.rows
      BY <2>4, <2>6, <2>7 DEF Made, rows
    <3>3. con'[w].work.rows \subseteq con[w].work.rows \cup {Effect(w)}
      BY <2>4, <2>6, <2>7 DEF rows
    <3>4. QED
      BY <1>1, <2>1, <2>2, <2>4, <2>6, <2>7, <2>9, <3>1, <3>2, <3>3, WorkGrows
  <2>11. FinalizesOnce(w)'
    BY <1>1, <1>2, <2>1, <2>2, <2>5, <2>6, <2>7, FinalizeStays, KindsStay
  <2>12. Stands(w)'
    BY <1>1, <1>2, <2>1, <2>5, <2>6, <2>7, <2>8 DEF Stands, Caller, Waiting
  <2>13. QED
    BY <1>1, <2>1, <2>2, <2>5, <2>6, <2>8, <2>10, <2>11, <2>12, HoldsOn
<1>6. CASE ~(con[w].depth > 0)
  <2>1. ~Whole(Kind(w)) /\ con[w].depth = 0 /\ Frame(w) = 0 /\ Kind(w) # "finalize"
    BY <1>2, <1>6 DEF Frame, Whole
  <2> DEFINE rows == disk.rows \cup {Effect(w)}
             d == [con[w] EXCEPT !.at = @ + 1]
  <2>2. /\ Set(w, d) /\ UNCHANGED <<reserved, record, view>> /\ hot' = FALSE
        /\ reserved = None /\ Shared = {} /\ disk' = [disk EXCEPT !.rows = rows]
    BY <1>6 DEF Statement
  <2>3. disk \in Databases /\ rows \subseteq Effects
    BY <1>1, <1>4 DEF StoreTypes, Databases
  <2> HIDE DEF rows
  <2>4. /\ disk' \in Databases /\ disk'.rows = rows /\ disk'.chain = disk.chain
        /\ disk'.tables = disk.tables /\ disk'.version = disk.version /\ disk.version \in Nat
    BY <2>2, <2>3 DEF Databases
  <2>5. Made(disk') = Made(disk) \cup {Effect(w)}
    BY <2>4 DEF Made, rows
  <2>6. PICK a \in Nat : a = con[w].at + 1 /\ d = [con[w] EXCEPT !.at = a]
    BY <1>2, Zenon
  <2> HIDE DEF d
  <2>7. /\ d \in Connections /\ d.pc = "op" /\ d.units = con[w].units /\ d.depth = 0
        /\ d.done = con[w].done /\ d.at = a
        /\ d.aborted = con[w].aborted /\ d.refused = con[w].refused
    BY <1>1, <2>1, <2>6 DEF Connections
  <2>8. con'[w] = d
    BY <1>1, <2>2, <2>7, SetTypes
  <2>9. /\ Kind(w)' = Kind(w) /\ Frame(w)' = Frame(w) /\ Unit(w)' = Unit(w) /\ ~Holds(w)'
        /\ MigratesInOrder(w)' /\ ~con[w].aborted
    BY <1>1, <2>1, <2>7, <2>8 DEF Kind, Unit, Frame, Holds, Caller, Inside, MigratesInOrder, Stands
  <2>10. Effect(w).by = w /\ Effect(w).unit = Unit(w) /\ Effect(w).op = con[w].at /\ Unit(w) \in 1..Unit(w)
    BY <1>1, ConnectionTypes DEF Effect
  <2>11. \A e \in Made(disk) : e.by = w =>
           /\ e.unit \in 1..Unit(w) /\ e.op \in Intended(con[w].units[e.unit])
           /\ e.unit = Unit(w) => e.op < con[w].at
    BY <1>1, HolderFacts DEF OwnsItsEffects
  <2>12. OwnsItsEffects(w)'
    <3>1. \A e \in Made(disk') : e.op \in Nat
      BY <1>4, <1>1, <2>5, DiskEffects DEF Effects
    <3>2. \A e \in Made(disk') : e.by = w /\ e.unit = Unit(w) => e.op < a
      BY <1>1, <2>5, <2>6, <2>10, <2>11, <3>1
    <3>3. \A e \in Made(disk') : e.by = w =>
            e.unit \in 1..Unit(w) /\ e.op \in Intended(con[w].units[e.unit])
      BY <1>3, <2>5, <2>10, <2>11 DEF Kind
    <3>4. QED
      BY <2>1, <2>7, <2>8, <2>9, <3>2, <3>3 DEF OwnsItsEffects
  <2>13. Stands(w)'
    BY <1>1, <1>2, <2>1, <2>6, <2>7, <2>8, <2>9 DEF Stands, Caller, Waiting
  <2>14. \A n : n # Unit(w) => Had(w, n, disk'.rows, disk'.chain) = Had(w, n, disk.rows, disk.chain)
    BY <2>5, <2>10, ElsewhereHad
  <2>15. \A n \in 1..Unit(w) : Whole(con[w].units[n]) => n # Unit(w)
    BY <2>1 DEF Kind
  <2>16. /\ \A n \in 1..Unit(w) : Whole(con[w].units[n]) =>
              Had(w, n, disk.rows, disk.chain) \in {{}, Intended(con[w].units[n])}
         /\ \A n \in con[w].done :
              /\ n \in 1..Unit(w) /\ Whole(con[w].units[n])
              /\ Had(w, n, disk.rows, disk.chain) = Intended(con[w].units[n])
    BY DEF StoreInv, DiskIsSound, UnitsWhole
  <2>17. \A e \in disk'.rows : KindOf(e) = "finalize" => record = <<e.by, e.unit>>
    <3>1. KindOf(Effect(w)) # "finalize"
      BY <2>1, <2>10 DEF KindOf, Kind
    <3>2. \A e \in disk.rows : KindOf(e) = "finalize" => record = <<e.by, e.unit>>
      BY DEF StoreInv, DiskIsSound, DeliveryKeepsItsRecord
    <3>3. QED
      BY <2>4, <3>1, <3>2 DEF rows
  <2>18. /\ disk'.tables = 1..disk'.version /\ disk'.version <= Supported /\ disk.version <= disk'.version
         /\ Linked(disk'.chain) /\ Single(disk'.chain)
    BY <2>4 DEF StoreInv, DiskIsSound
  <2>19. \A e \in Made(disk') : e.by = w => e.unit \in 1..Unit(w)
    BY <2>5, <2>10, <2>11
  <2>20. /\ \A n \in 1..Unit(w) : Whole(con[w].units[n]) =>
              Had(w, n, disk'.rows, disk'.chain) \in {{}, Intended(con[w].units[n])}
         /\ \A n \in d.done :
              /\ n \in 1..Unit(w) /\ Whole(con[w].units[n])
              /\ Had(w, n, disk'.rows, disk'.chain) = Intended(con[w].units[n])
    BY <2>7, <2>14, <2>15, <2>16
  <2>21. Made(disk) \subseteq Made(disk') /\ \A e \in Made(disk') \ Made(disk) : e.by = w /\ e.unit = Unit(w)
    BY <2>5, <2>10
  <2>22. reserved' = None /\ reserved \in {None, w} /\ hot' \in BOOLEAN
    BY <2>2
  <2>23. QED
    BY <2>2, <2>4, <2>7, <2>9, <2>12, <2>13, <2>17, <2>18, <2>19, <2>20, <2>21, <2>22, ChangesDisk
<1>7. QED
  BY <1>5, <1>6

LEMMA BeginKeeps ==
  ASSUME StoreInv, NEW w \in Writers, StoreAssumption, Begin(w)
  PROVE  StoreInv'
<1> DEFINE p == IF Whole(Kind(w)) THEN "op" ELSE "read"
           d == [con[w] EXCEPT !.work = disk, !.depth = 1, !.pc = p]
<1>1. /\ con[w] \in Connections /\ StoreTypes /\ Active(w) /\ Stands(w) /\ con[w].pc = "begin"
      /\ con[w].units # <<>> /\ con[w].at \in Nat /\ Kind(w) \in KindNames
      /\ disk \in Databases /\ Writing(w)
  BY HolderFacts, ConnectionTypes DEF Begin, Stands, Active, StoreInv, StoreTypes
<1>2. /\ d \in Connections /\ d.pc = p /\ d.units = con[w].units /\ d.depth = 1
      /\ d.done = con[w].done /\ d.at = con[w].at /\ d.work = disk
      /\ d.aborted = con[w].aborted /\ d.refused = con[w].refused
  BY <1>1 DEF Connections, Inside, Caller
<1>3. Set(w, d) /\ con'[w] = d /\ UNCHANGED <<disk, record, view>> /\ hot' \in BOOLEAN
      /\ reserved' = w /\ reserved = None
  BY <1>1, <1>2, SetTypes DEF Begin
<1>4. /\ ~con[w].aborted /\ ~con[w].refused /\ Len(Ops(Kind(w))) \in 2..6
      /\ IF Whole(Kind(w)) THEN con[w].at = 1
                           ELSE con[w].at >= 1 /\ con[w].at <= Len(Ops(Kind(w))) /\ Nested(w)
  BY <1>1, UnitSteps DEF Stands, Waiting
<1> HIDE DEF d
<1>5. Kind(w)' = Kind(w) /\ Nested(w)' = Nested(w) /\ Frame(w)' = Frame(w) /\ Holds(w)' /\ ~DidLast(w)'
  BY <1>2, <1>3 DEF Kind, Unit, Nested, Op, Frame, Holds, Inside, Caller, DidLast
<1>6. Stands(w)'
  BY <1>1, <1>2, <1>3, <1>4, <1>5 DEF Stands, Frame, Caller, Waiting
<1>7. OwnsItsEffects(w)'
  BY <1>1, <1>2, <1>3, OwnStays DEF Writing
<1>8. WorkFollows(w)'
  <2>1. Linked(disk.chain) /\ Single(disk.chain)
    BY DEF StoreInv, DiskIsSound
  <2>2. Whole(Kind(w)) => Did(w)' = {}
    <3>1. \A i \in Intended(Kind(w)) : i \in Nat /\ i >= 1
      BY <1>1, IntendedSteps, UnitSteps
    <3>2. QED
      BY <1>2, <1>3, <1>4, <1>5, <3>1 DEF Did
  <2>3. con'[w].pc # "write"
    BY <1>2, <1>3
  <2>4. QED
    BY <1>1, <1>2, <1>3, <1>5, <2>1, <2>2, <2>3 DEF WorkFollows
<1>9. FinalizesOnce(w)' /\ MigratesInOrder(w)'
  <2>1. Kind(w) = "finalize" => con'[w].at = 1
    BY <1>2, <1>3, <1>4 DEF Whole
  <2>2. QED
    BY <1>2, <1>3, <1>5, <2>1 DEF FinalizesOnce, MigratesInOrder
<1>10. Writing(w)'
  BY <1>3, <1>5, <1>6, <1>7, <1>8, <1>9 DEF Writing
<1>11. d.pc # "commit_journal" /\ \A v \in Writers \ {w} : reserved' = v <=> reserved = v
  BY <1>2, <1>3 DEF StoreAssumption
<1>12. QED
  BY <1>2, <1>3, <1>10, <1>11, KeepsDisk

LEMMA MigrateKeeps ==
  ASSUME StoreInv, NEW w \in Writers, StoreAssumption, Migrate(w)
  PROVE  StoreInv'
<1> DEFINE i == con[w].schema + 1
           work == [disk EXCEPT !.tables = @ \cup {i}, !.version = i]
           d == [con[w] EXCEPT !.pc = "commit", !.work = work]
<1>1. /\ con[w] \in Connections /\ StoreTypes /\ Stands(w) /\ con[w].pc = "migrate" /\ Writing(w)
      /\ con[w].at \in Nat /\ con[w].schema \in Nat /\ disk \in Databases
      /\ disk.version \in Nat /\ disk.tables \subseteq Nat
  BY HolderFacts, ConnectionTypes DEF Migrate, StoreInv, StoreTypes, Databases
<1>2. /\ con[w].units = <<>> /\ con[w].depth = 0 /\ ~con[w].aborted /\ ~con[w].refused
      /\ con[w].schema < Supported /\ con[w].schema <= disk.version
  BY <1>1 DEF Stands, Writing, MigratesInOrder
<1>3. UNCHANGED <<disk, record, view>> /\ hot' \in BOOLEAN /\ reserved = None
  BY DEF Migrate
<1>4. CASE i \in disk.tables
  <2>1. Set(w, [con[w] EXCEPT !.pc = "failed"]) /\ reserved' = reserved
    BY <1>4 DEF Migrate
  <2>2. reserved # w
    BY <1>3 DEF StoreAssumption
  <2>3. QED
    BY <1>2, <1>3, <2>1, <2>2, MigrateFailsKeeps
<1>5. CASE i \notin disk.tables
  <2>1. Set(w, d) /\ reserved' = w
    BY <1>5 DEF Migrate
  <2>2. con[w].schema = disk.version /\ i \in Nat
    BY <1>1, <1>2, <1>5 DEF StoreInv, DiskIsSound
  <2> HIDE DEF i
  <2>3. /\ work \in Databases /\ work.rows = disk.rows /\ work.chain = disk.chain
        /\ work.version = i /\ work.tables = disk.tables \cup {i}
    BY <1>1, <2>2 DEF Databases
  <2> HIDE DEF work
  <2>4. /\ d \in Connections /\ d.pc = "commit" /\ d.units = con[w].units /\ d.depth = 0
        /\ d.done = con[w].done /\ d.at = con[w].at /\ d.work = work /\ d.schema = con[w].schema
        /\ ~d.aborted /\ ~d.refused
    BY <1>1, <1>2, <2>3 DEF Connections, Inside
  <2>5. con'[w] = d
    BY <1>1, <2>1, <2>4, SetTypes
  <2> HIDE DEF d
  <2>6. Holds(w)' /\ ~Active(w)'
    BY <1>2, <2>4, <2>5 DEF Holds, Active, Inside
  <2>7. Stands(w)'
    BY <1>2, <2>4, <2>5, <2>6 DEF Stands, Caller, Waiting
  <2>8. OwnsItsEffects(w)'
    BY <1>1, <1>3, <2>4, <2>5, <2>6, OwnStays DEF Writing
  <2>9. WorkFollows(w)'
    BY <1>2, <1>3, <2>2, <2>3, <2>4, <2>5 DEF WorkFollows, i
  <2>10. FinalizesOnce(w)' /\ MigratesInOrder(w)'
    BY <1>2, <2>4, <2>5 DEF FinalizesOnce, MigratesInOrder
  <2>11. Writing(w)'
    BY <2>1, <2>6, <2>7, <2>8, <2>9, <2>10 DEF Writing
  <2>12. d.pc # "commit_journal" /\ \A v \in Writers \ {w} : reserved' = v <=> reserved = v
    BY <1>3, <2>1, <2>4 DEF StoreAssumption
  <2>13. QED
    BY <1>3, <2>1, <2>4, <2>11, <2>12, KeepsDisk
<1>6. QED
  BY <1>4, <1>5

(* What a commit adds to the database.                                       *)
LEMMA CommitAdds ==
  ASSUME StoreInv, NEW w \in Writers, con[w].pc = "commit_journal", con[w].units # <<>>
  PROVE  /\ Made(disk) \subseteq Made(con[w].work) /\ disk.rows \subseteq con[w].work.rows
         /\ \A e \in (con[w].work.rows \ disk.rows) \cup (Made(con[w].work) \ Made(disk)) :
              e.by = w /\ e.unit = Unit(w) /\ e.op \in Did(w)
         /\ Linked(con[w].work.chain) /\ Single(con[w].work.chain)
         /\ con[w].work.tables = disk.tables /\ con[w].work.version = disk.version
<1>1. Holds(w)
  BY DEF Holds, Inside
<1>2. /\ disk.rows \subseteq con[w].work.rows /\ Events(disk.chain) \subseteq Events(con[w].work.chain)
      /\ \A e \in (con[w].work.rows \ disk.rows) \cup (Events(con[w].work.chain) \ Events(disk.chain)) :
           e.by = w /\ e.unit = Unit(w) /\ e.op \in Did(w)
      /\ Linked(con[w].work.chain) /\ Single(con[w].work.chain)
      /\ con[w].work.tables = disk.tables /\ con[w].work.version = disk.version
  BY <1>1 DEF StoreInv, Writing, WorkFollows
<1>3. QED
  BY <1>2 DEF Made

(* A wrapped unit commits all of its effects, or, when it found a delivery   *)
(* already there, none.                                                      *)
LEMMA CommitIsWhole ==
  ASSUME StoreInv, NEW w \in Writers, con[w].pc = "commit_journal", con[w].units # <<>>, Whole(Kind(w))
  PROVE  Had(w, Unit(w), con[w].work.rows, con[w].work.chain) =
           IF con[w].refused THEN {} ELSE Intended(Kind(w))
<1>1. /\ StoreTypes /\ Active(w) /\ Stands(w) /\ Holds(w) /\ ~con[w].aborted /\ con[w].at \in Nat
      /\ Kind(w) \in KindNames
  BY HolderFacts, ConnectionTypes DEF Active, Holds, Inside, Stands
<1>2. con[w].at = Len(Ops(Kind(w))) + 1 /\ Len(Ops(Kind(w))) \in 2..6
  BY <1>1, UnitSteps DEF Stands
<1>3. Did(w) = IF con[w].refused THEN {} ELSE Intended(Kind(w))
  <2>1. \A i \in Intended(Kind(w)) : i \in 1..Len(Ops(Kind(w)))
    BY <1>1, IntendedSteps
  <2>2. \A i \in Intended(Kind(w)) : i < con[w].at
    BY <1>2, <2>1
  <2>3. QED
    BY <2>2 DEF Did
<1>4. \A e \in Made(disk) : ~(e.by = w /\ e.unit = Unit(w))
  BY <1>1, HolderFacts DEF OwnsItsEffects
<1>5. \A i \in Did(w) : [by |-> w, unit |-> Unit(w), op |-> i] \in Made(con[w].work)
  BY <1>1 DEF StoreInv, Writing, WorkFollows
<1>6. \A e \in Made(con[w].work) : e.by = w /\ e.unit = Unit(w) => e.op \in Did(w)
  BY <1>4, CommitAdds
<1>7. Had(w, Unit(w), con[w].work.rows, con[w].work.chain) =
        {e.op : e \in {x \in Made(con[w].work) : x.by = w /\ x.unit = Unit(w)}}
  BY DEF Had, Made, Events
<1>8. {e.op : e \in {x \in Made(con[w].work) : x.by = w /\ x.unit = Unit(w)}} = Did(w)
  <2>1. \A i \in Did(w) : LET e == [by |-> w, unit |-> Unit(w), op |-> i]
                          IN e \in Made(con[w].work) /\ e.by = w /\ e.unit = Unit(w) /\ e.op = i
    BY <1>5
  <2>2. QED
    BY <1>6, <2>1
<1>9. QED
  BY <1>3, <1>7, <1>8

LEMMA CommittedKeeps ==
  ASSUME StoreInv, NEW w \in Writers, StoreAssumption, Committed(w)
  PROVE  StoreInv'
<1>1. /\ con[w] \in Connections /\ StoreTypes /\ Stands(w) /\ con[w].pc = "commit_journal" /\ Holds(w)
      /\ ~con[w].aborted /\ con[w].at \in Nat /\ con[w].schema \in Nat /\ con[w].work \in Databases
      /\ disk \in Databases /\ disk.version \in Nat /\ reserved = w /\ Unit(w) \in Nat
  BY HolderFacts, ConnectionTypes DEF Committed, Holds, Inside, Stands, StoreTypes, Databases
<1>2. /\ disk' = con[w].work /\ reserved' = None /\ UNCHANGED <<hot, record, view>> /\ hot' \in BOOLEAN
  BY <1>1 DEF Committed, StoreTypes
<1>3. Shared = {}
  BY <1>1 DEF StoreInv, Exclusive
<1>4. /\ \A n \in 1..Unit(w) : Whole(con[w].units[n]) =>
           Had(w, n, disk.rows, disk.chain) \in {{}, Intended(con[w].units[n])}
      /\ \A n \in con[w].done :
           /\ n \in 1..Unit(w) /\ Whole(con[w].units[n])
           /\ Had(w, n, disk.rows, disk.chain) = Intended(con[w].units[n])
      /\ \A e \in disk.rows : KindOf(e) = "finalize" => record = <<e.by, e.unit>>
      /\ disk.tables = 1..disk.version /\ disk.version <= Supported
      /\ Linked(disk.chain) /\ Single(disk.chain)
  BY DEF StoreInv, DiskIsSound, UnitsWhole, DeliveryKeepsItsRecord
<1>5. CASE con[w].units = <<>>
  <2> DEFINE p == IF con[w].schema + 1 < Supported THEN "migrate" ELSE "ready"
             d == [con[w] EXCEPT !.schema = @ + 1, !.work = Empty(0), !.pc = p]
  <2>1. Set(w, d)
    BY <1>5 DEF Committed, Migrating
  <2>2. Empty(0) \in Databases
    BY DEF Empty, Databases
  <2>3. PICK i \in Nat : i = con[w].schema + 1 /\ d = [con[w] EXCEPT !.schema = i, !.work = Empty(0), !.pc = p]
    <3>1. con[w].schema + 1 \in Nat
      BY <1>1
    <3>2. QED
      BY <3>1, Zenon
  <2>4. p \in {"migrate", "ready"}
    OBVIOUS
  <2> HIDE DEF d
  <2>5. /\ d \in Connections /\ d.pc = p /\ d.units = con[w].units /\ d.depth = con[w].depth
        /\ d.done = con[w].done /\ d.at = con[w].at /\ d.schema = i
        /\ d.aborted = con[w].aborted /\ d.refused = con[w].refused
    BY <1>1, <2>2, <2>3, <2>4 DEF Connections, Waiting
  <2>6. con'[w] = d
    BY <1>1, <2>1, <2>5, SetTypes
  <2>7. /\ disk'.rows = disk.rows /\ disk'.chain = disk.chain
        /\ disk'.version = i /\ disk'.tables = disk.tables \cup {i}
        /\ con[w].schema = disk.version /\ con[w].schema < Supported
    BY <1>1, <1>2, <1>5, <2>3 DEF StoreInv, Writing, WorkFollows
  <2>8. Made(disk') = Made(disk)
    BY <2>7 DEF Made
  <2>9. disk'.tables = 1..disk'.version /\ disk'.version <= Supported /\ disk.version <= disk'.version
    BY <1>1, <1>4, <2>3, <2>7 DEF StoreAssumption
  <2>10. ~Holds(w)' /\ ~Active(w)'
    BY <1>5, <2>4, <2>5, <2>6 DEF Holds, Active, Inside, Caller
  <2>11. Stands(w)'
    BY <1>1, <1>5, <2>4, <2>5, <2>6, <2>10 DEF Stands, Caller, Waiting
  <2>12. MigratesInOrder(w)'
    <3>1. p = "migrate" => i < Supported
      BY <2>3
    <3>2. QED
      BY <2>3, <2>5, <2>6, <2>7, <3>1 DEF MigratesInOrder
  <2>13. \A e \in Made(disk) : e.by = w =>
           e.unit \in 1..Unit(w) /\ e.op \in Intended(con[w].units[e.unit])
    BY HolderFacts DEF OwnsItsEffects
  <2>14. OwnsItsEffects(w)'
    <3>1. Unit(w)' = Unit(w)
      BY <2>5, <2>6 DEF Unit
    <3>2. QED
      BY <2>5, <2>6, <2>8, <2>10, <2>13, <3>1 DEF OwnsItsEffects
  <2>15. QED
    BY <1>1, <1>2, <1>3, <1>4, <2>1, <2>5, <2>7, <2>8, <2>9, <2>10, <2>11, <2>12, <2>13, <2>14,
       ChangesDisk
<1>6. CASE con[w].units # <<>>
  <2> DEFINE p == IF Whole(Kind(w)) THEN "ready" ELSE "op"
             done == IF Whole(Kind(w)) /\ ~con[w].refused THEN con[w].done \cup {Unit(w)} ELSE con[w].done
             a == IF Whole(Kind(w)) THEN con[w].at ELSE con[w].at + 1
  <2>1. /\ Kind(w) \in KindNames /\ Len(Ops(Kind(w))) \in 2..6 /\ Unit(w) \in 1..Unit(w) /\ Active(w)
        /\ con[w].at >= 1 /\ con[w].at <= Len(Ops(Kind(w))) + 1
        /\ ~Whole(Kind(w)) => con[w].at <= Len(Ops(Kind(w))) /\ ~con[w].refused
        /\ con[w].refused => Kind(w) = "finalize"
    <3>1. Kind(w) \in KindNames /\ Unit(w) \in 1..Unit(w) /\ Len(Ops(Kind(w))) \in 2..6
      BY <1>1, <1>6, ConnectionTypes, UnitSteps
    <3>2. Active(w)
      BY <1>1, <1>6 DEF Active, Inside
    <3>3. QED
      BY <1>1, <3>1, <3>2 DEF Stands
  <2>2. \E d \in Connections :
          /\ Set(w, d) /\ d.pc = p /\ d.units = con[w].units /\ d.depth = 0 /\ d.at = a
          /\ d.done = done /\ ~d.aborted /\ ~d.refused
    <3>1. /\ Rest(con[w]) \in Connections /\ Rest(con[w]).pc = "ready" /\ Rest(con[w]).units = con[w].units
          /\ Rest(con[w]).done = con[w].done /\ Rest(con[w]).at = con[w].at /\ Rest(con[w]).depth = 0
          /\ ~Rest(con[w]).aborted /\ ~Rest(con[w]).refused
      BY <1>1, RestTypes
    <3> DEFINE c == Rest(con[w])
    <3>2. CASE Whole(Kind(w))
      <4> DEFINE d == [c EXCEPT !.done = done]
      <4>1. done \subseteq Nat /\ p = "ready" /\ a = con[w].at
        BY <1>1, <3>2, ConnectionTypes
      <4>2. Set(w, d)
        <5>1. Set(w, [c EXCEPT !.done = IF con[w].refused THEN @ ELSE @ \cup {Unit(w)}])
          BY <1>6, <3>2, Zenon DEF Committed, Migrating
        <5>2. (IF con[w].refused THEN c.done ELSE c.done \cup {Unit(w)}) = done
          BY <3>1, <3>2
        <5>3. QED
          BY <5>1, <5>2, Zenon
      <4> HIDE DEF c, done
      <4>3. /\ d \in Connections /\ d.pc = c.pc /\ d.units = c.units /\ d.depth = c.depth
            /\ d.at = c.at /\ d.done = done /\ d.aborted = c.aborted /\ d.refused = c.refused
        BY <3>1, <4>1 DEF Connections, c
      <4> HIDE DEF d
      <4>4. QED
        BY <3>1, <4>1, <4>2, <4>3 DEF c
    <3>3. CASE ~Whole(Kind(w))
      <4> DEFINE d == [c EXCEPT !.pc = "op", !.at = a]
      <4>1. done = con[w].done /\ p = "op" /\ a = con[w].at + 1 /\ a \in Nat
        BY <1>1, <3>3
      <4>2. Set(w, d)
        <5>1. Set(w, [c EXCEPT !.pc = "op", !.at = @ + 1])
          BY <1>6, <3>3, Zenon DEF Committed, Migrating
        <5>2. c.at + 1 = a
          BY <3>1, <4>1
        <5>3. QED
          BY <5>1, <5>2, Zenon
      <4> HIDE DEF c, a
      <4>3. /\ d \in Connections /\ d.pc = "op" /\ d.units = c.units /\ d.depth = c.depth
            /\ d.at = a /\ d.done = c.done /\ d.aborted = c.aborted /\ d.refused = c.refused
        BY <3>1, <4>1 DEF Connections, Caller, c
      <4> HIDE DEF d
      <4>4. QED
        BY <3>1, <4>1, <4>2, <4>3 DEF c
    <3>4. QED
      BY <3>2, <3>3
  <2>3. PICK d \in Connections :
          /\ Set(w, d) /\ d.pc = p /\ d.units = con[w].units /\ d.depth = 0 /\ d.at = a
          /\ d.done = done /\ ~d.aborted /\ ~d.refused
    BY <2>2
  <2>4. con'[w] = d
    BY <1>1, <2>3, SetTypes
  <2>5. /\ Made(disk) \subseteq Made(disk') /\ disk.rows \subseteq disk'.rows
        /\ \A e \in (disk'.rows \ disk.rows) \cup (Made(disk') \ Made(disk)) :
             e.by = w /\ e.unit = Unit(w) /\ e.op \in Did(w)
        /\ Linked(disk'.chain) /\ Single(disk'.chain)
        /\ disk'.tables = disk.tables /\ disk'.version = disk.version
    BY <1>1, <1>2, <1>6, CommitAdds
  <2>6. Unit(w)' = Unit(w) /\ Kind(w)' = Kind(w) /\ Frame(w)' = Frame(w)
    BY <2>3, <2>4 DEF Unit, Kind, Frame
  <2>7. ~Holds(w)' /\ MigratesInOrder(w)' /\ (Active(w)' => ~Whole(Kind(w)))
    BY <2>3, <2>4 DEF Holds, Active, MigratesInOrder, Inside, Caller
  <2>8. Stands(w)'
    <3>1. CASE Whole(Kind(w))
      <4>1. con'[w].pc = "ready" /\ con'[w].depth = 0 /\ ~con'[w].aborted /\ ~con'[w].refused
        BY <2>3, <2>4, <3>1
      <4>2. QED
        BY <4>1 DEF Stands, Active, Inside, Caller
    <3>2. CASE ~Whole(Kind(w))
      <4>1. /\ con'[w].pc = "op" /\ con'[w].depth = 0 /\ ~con'[w].aborted /\ ~con'[w].refused
            /\ con'[w].at = con[w].at + 1 /\ con'[w].units # <<>>
        BY <1>6, <2>3, <2>4, <3>2
      <4>2. con'[w].at \in 1..(Len(Ops(Kind(w))) + 1)
        BY <1>1, <2>1, <3>2, <4>1
      <4>3. QED
        BY <2>6, <3>2, <4>1, <4>2 DEF Stands, Frame, Caller, Waiting
    <3>3. QED
      BY <3>1, <3>2
  <2>9. \A i \in Did(w) : i \in Intended(Kind(w)) /\ i <= con[w].at /\ i \in Nat
    <3>1. \A i \in Intended(Kind(w)) : i \in Nat
      BY <2>1, IntendedSteps, UnitSteps
    <3>2. QED
      BY <1>1, <3>1 DEF Did
  <2>10. \A e \in Made(disk) : e.by = w =>
           /\ e.unit \in 1..Unit(w) /\ e.op \in Intended(con[w].units[e.unit])
           /\ e.unit = Unit(w) => ~Whole(Kind(w)) /\ e.op < con[w].at
    BY <2>1, HolderFacts DEF OwnsItsEffects
  <2>11. \A e \in Made(disk') : e.by = w =>
           /\ e.unit \in 1..Unit(w) /\ e.op \in Intended(con[w].units[e.unit])
           /\ ~Whole(Kind(w)) /\ e.unit = Unit(w) => e.op < a
    <3> SUFFICES ASSUME NEW e \in Made(disk'), e.by = w
                 PROVE  /\ e.unit \in 1..Unit(w) /\ e.op \in Intended(con[w].units[e.unit])
                        /\ ~Whole(Kind(w)) /\ e.unit = Unit(w) => e.op < a
      OBVIOUS
    <3>1. CASE e \in Made(disk)
      <4>1. e.op \in Nat
        BY <1>1, <3>1, DiskEffects DEF Effects
      <4>2. QED
        BY <1>1, <2>10, <3>1, <4>1
    <3>2. CASE e \notin Made(disk)
      <4>1. e.unit = Unit(w) /\ e.op \in Did(w)
        BY <2>5, <3>2
      <4>2. QED
        BY <1>1, <2>1, <2>9, <4>1 DEF Kind
    <3>3. QED
      BY <3>1, <3>2
  <2>12. OwnsItsEffects(w)'
    BY <2>3, <2>4, <2>6, <2>7, <2>11 DEF OwnsItsEffects
  <2>13. \A n : n # Unit(w) => Had(w, n, disk'.rows, disk'.chain) = Had(w, n, disk.rows, disk.chain)
    BY <2>5, ElsewhereHad
  <2>14. Whole(Kind(w)) => Had(w, Unit(w), disk'.rows, disk'.chain) =
                             IF con[w].refused THEN {} ELSE Intended(Kind(w))
    BY <1>1, <1>2, <1>6, CommitIsWhole
  <2>15. \A n \in 1..Unit(w) : Whole(con[w].units[n]) =>
           Had(w, n, disk'.rows, disk'.chain) \in {{}, Intended(con[w].units[n])}
    BY <1>4, <2>13, <2>14 DEF Kind
  <2>16. Unit(w) \notin con[w].done
    <3>1. SUFFICES ASSUME Unit(w) \in con[w].done PROVE FALSE
      OBVIOUS
    <3>2. Whole(Kind(w)) /\ Had(w, Unit(w), disk.rows, disk.chain) = Intended(Kind(w))
      BY <1>4, <3>1 DEF Kind
    <3>3. \A e \in Made(disk) : ~(e.by = w /\ e.unit = Unit(w))
      BY <2>10, <3>2
    <3>4. Had(w, Unit(w), disk.rows, disk.chain) = {}
      BY <3>3 DEF Had, Made, Events
    <3>5. QED
      BY <2>1, <3>2, <3>4, IntendedSteps
  <2>17. \A n \in d.done : /\ n \in 1..Unit(w) /\ Whole(con[w].units[n])
                           /\ Had(w, n, disk'.rows, disk'.chain) = Intended(con[w].units[n])
    BY <1>4, <2>1, <2>3, <2>13, <2>14, <2>16 DEF Kind
  <2>18. \A e \in disk'.rows : KindOf(e) = "finalize" => record = <<e.by, e.unit>>
    <3> SUFFICES ASSUME NEW e \in disk'.rows, KindOf(e) = "finalize", e \notin disk.rows
                 PROVE  record = <<e.by, e.unit>>
      BY <1>4
    <3>1. e.by = w /\ e.unit = Unit(w) /\ e.op \in Did(w)
      BY <2>5
    <3>2. Kind(w) = "finalize" /\ ~con[w].refused
      BY <3>1 DEF KindOf, Kind, Did
    <3>3. con[w].at > 3
      <4>1. con[w].at = 7
        <5>1. Whole(Kind(w)) /\ Len(Ops(Kind(w))) = 6
          BY <3>2, UnitSteps DEF Whole
        <5>2. con[w].at = Len(Ops(Kind(w))) + 1
          BY <1>1, <2>1, <5>1 DEF Stands
        <5>3. QED
          BY <5>1, <5>2
      <4>2. QED
        BY <4>1
    <3>4. QED
      BY <1>1, <1>6, <3>1, <3>2, <3>3 DEF StoreInv, Writing, FinalizesOnce
  <2>19. /\ disk' \in Databases /\ disk'.tables = 1..disk'.version /\ disk'.version <= Supported
         /\ disk.version <= disk'.version
    BY <1>1, <1>2, <1>4, <2>5
  <2>20. QED
    BY <1>1, <1>2, <1>3, <2>3, <2>5, <2>7, <2>8, <2>11, <2>12, <2>15, <2>17, <2>18, <2>19, ChangesDisk
<1>7. QED
  BY <1>5, <1>6

-----------------------------------------------------------------------------
(* The readers.                                                              *)
LEMMA ReaderKeeps ==
  ASSUME StoreInv, NEW r \in Readers, ReaderStep(r)
  PROVE  StoreInv'
<1>1. UNCHANGED <<disk, hot, reserved, record, con>>
  BY DEF ReaderStep, OpenReader, ReadRows, ReadChain, CloseReader
<1>2. view \in [Readers -> Views] /\ disk \in Databases
  BY DEF StoreInv, StoreTypes
<1>3. PICK v \in Views : /\ view' = [view EXCEPT ![r] = v]
                         /\ v.pc # "out" => disk.version = Supported
                         /\ v.pc \in {"rows_read", "chain_read"} => v.rows = disk.rows /\ ~Exclusive
                         /\ v.pc = "chain_read" => v.chain = disk.chain
  <2>1. Out \in Views /\ Out.pc = "out" /\ view[r] \in Views
    <3>1. <<>> \in Seq([event : Effects, prev : Tips])
      OBVIOUS
    <3>2. QED
      BY <1>2, <3>1 DEF Out, Views
  <2>2. disk.rows \subseteq Effects /\ disk.chain \in Seq([event : Effects, prev : Tips])
    BY <1>2 DEF Databases
  <2>3. Viewing(r)
    BY DEF StoreInv
  <2>4. CASE OpenReader(r)
    <3> DEFINE v == [Out EXCEPT !.pc = "open"]
    <3>1. v \in Views /\ v.pc = "open"
      BY <2>1 DEF Views
    <3>2. QED
      BY <2>4, <3>1 DEF OpenReader, Show
  <2>5. CASE ReadRows(r)
    <3> DEFINE v == [view[r] EXCEPT !.pc = "rows_read", !.rows = disk.rows]
    <3>1. v \in Views /\ v.pc = "rows_read" /\ v.rows = disk.rows
      BY <2>1, <2>2 DEF Views
    <3>2. disk.version = Supported /\ ~Exclusive /\ view' = [view EXCEPT ![r] = v]
      BY <2>3, <2>5 DEF ReadRows, Viewing, Show
    <3>3. QED
      BY <3>1, <3>2
  <2>6. CASE ReadChain(r)
    <3> DEFINE v == [view[r] EXCEPT !.pc = "chain_read", !.chain = disk.chain]
    <3>1. v \in Views /\ v.pc = "chain_read" /\ v.rows = view[r].rows /\ v.chain = disk.chain
      BY <2>1, <2>2 DEF Views
    <3>2. /\ disk.version = Supported /\ ~Exclusive /\ view' = [view EXCEPT ![r] = v]
          /\ view[r].rows = disk.rows
      BY <2>3, <2>6 DEF ReadChain, Viewing, Show, Shared
    <3>3. QED
      BY <3>1, <3>2
  <2>7. CASE CloseReader(r)
    BY <2>1, <2>7 DEF CloseReader, Show
  <2>8. QED
    BY <2>4, <2>5, <2>6, <2>7 DEF ReaderStep
<1>4. view' \in [Readers -> Views] /\ view'[r] = v /\ \A q \in Readers \ {r} : view'[q] = view[q]
  BY <1>2, <1>3
<1>5. StoreTypes'
  BY <1>1, <1>4 DEF StoreInv, StoreTypes
<1>6. \A w \in Writers : Writing(w)'
  <2> SUFFICES ASSUME NEW w \in Writers PROVE Writing(w)'
    OBVIOUS
  <2>1. NoDelivery => NoDelivery'
    BY <1>1 DEF NoDelivery, KindOf
  <2>2. QED
    BY <1>1, <2>1, Elsewhere DEF StoreInv
<1>7. DiskIsSound'
  BY <1>1 DEF StoreInv, DiskIsSound, UnitsWhole, DeliveryKeepsItsRecord, KindOf, Unit
<1>8. \A q \in Readers : Viewing(q)'
  BY <1>1, <1>3, <1>4 DEF StoreInv, Viewing, Shared
<1>9. Exclusive' => Shared' = {}
  <2>1. Exclusive' <=> Exclusive
    BY <1>1 DEF Exclusive
  <2>2. Exclusive => view'[r].pc \notin {"rows_read", "chain_read"}
    BY <1>3, <1>4
  <2>3. QED
    BY <1>4, <2>1, <2>2 DEF StoreInv, Shared
<1>10. QED
  BY <1>5, <1>6, <1>7, <1>8, <1>9 DEF StoreInv

-----------------------------------------------------------------------------
(* The invariant, and what it gives.                                         *)
LEMMA StoreStarts ==
  ASSUME StoreAssumption, Init
  PROVE  StoreInv
<1>1. PICK v \in Versions : disk = Empty(v)
  BY DEF Init
<1>2. v \in Nat /\ v <= Supported /\ Supported \in Nat
  BY <1>1 DEF StoreAssumption
<1>3. disk \in Databases /\ disk.rows = {} /\ disk.chain = <<>> /\ disk.tables = 1..v /\ disk.version = v
  BY <1>1, <1>2 DEF Empty, Databases
<1>4. Empty(0) \in Databases
  BY DEF Empty, Databases
<1> DEFINE c == [pc |-> "closed", units |-> <<>>, done |-> {}, at |-> 0, depth |-> 0,
                 aborted |-> FALSE, refused |-> FALSE, attempt |-> 1, schema |-> 0, tip |-> None,
                 work |-> Empty(0)]
<1>5. c \in Connections
  BY <1>4 DEF Connections, Waiting, Tips
<1>6. \A w \in Writers : /\ con[w] \in Connections /\ con[w].pc = "closed" /\ con[w].units = <<>>
                         /\ con[w].depth = 0 /\ ~con[w].aborted /\ ~con[w].refused /\ con[w].done = {}
  BY <1>5 DEF Init
<1>7. \A r \in Readers : view[r] \in Views /\ view[r].pc = "out"
  BY DEF Init, Views
<1>8. StoreTypes
  BY <1>3, <1>5, <1>7 DEF Init, StoreTypes, Views
<1>9. Made(disk) = {} /\ Linked(disk.chain) /\ Single(disk.chain)
  BY <1>3 DEF Made, Events, Linked, Single
<1>10. DiskIsSound
  <2>1. \A w \in Writers : Unit(w) = 0
    <3>1. \A s : s = <<>> => Len(s) = 0
      OBVIOUS
    <3>2. QED
      BY <1>6, <3>1, Zenon DEF Unit
  <2>2. UnitsWhole
    <3>1. \A w \in Writers : 1..Unit(w) = {}
      <4>1. 1..0 = {}
        OBVIOUS
      <4>2. QED
        BY <2>1, <4>1, Zenon
    <3>2. \A w \in Writers : con[w].done = {}
      BY <1>6
    <3>3. QED
      BY <3>1, <3>2, Zenon DEF UnitsWhole
  <2>3. DeliveryKeepsItsRecord
    BY <1>3 DEF DeliveryKeepsItsRecord
  <2>4. QED
    BY <1>2, <1>3, <1>9, <2>2, <2>3 DEF DiskIsSound
<1>11. \A w \in Writers : Writing(w)
  <2> SUFFICES ASSUME NEW w \in Writers PROVE Writing(w)
    OBVIOUS
  <2>1. ~Holds(w) /\ ~Active(w) /\ reserved # w
    BY <1>6 DEF Holds, Active, Inside, Caller, Init, StoreAssumption
  <2>2. Stands(w)
    BY <1>6, <2>1 DEF Stands, Caller, Waiting
  <2>3. QED
    BY <1>6, <1>9, <2>1, <2>2
       DEF Writing, OwnsItsEffects, WorkFollows, FinalizesOnce, MigratesInOrder
<1>12. (\A r \in Readers : Viewing(r)) /\ Shared = {}
  BY <1>7 DEF Viewing, Shared
<1>13. QED
  BY <1>8, <1>10, <1>11, <1>12 DEF StoreInv

LEMMA StoreStays ==
  ASSUME StoreAssumption, StoreInv, [Next]_vars
  PROVE  StoreInv'
<1>1. CASE UNCHANGED vars
  <2>1. \A w \in Writers : Writing(w)'
    <3> SUFFICES ASSUME NEW w \in Writers PROVE Writing(w)'
      OBVIOUS
    <3>1. NoDelivery => NoDelivery'
      BY <1>1 DEF vars, NoDelivery, KindOf
    <3>2. QED
      BY <1>1, <3>1, Elsewhere DEF vars, StoreInv
  <2>2. StoreTypes' /\ DiskIsSound'
    BY <1>1 DEF vars, StoreInv, StoreTypes, DiskIsSound, UnitsWhole, DeliveryKeepsItsRecord, KindOf, Unit
  <2>3. (\A r \in Readers : Viewing(r)') /\ (Exclusive' => Shared' = {})
    BY <1>1 DEF vars, StoreInv, Viewing, Shared, Exclusive
  <2>4. QED
    BY <2>1, <2>2, <2>3 DEF StoreInv
<1>2. ASSUME NEW w \in Writers, WriterStep(w)
      PROVE  StoreInv'
  BY <1>2, OpenKeeps, MigrateKeeps, MigrateFailsStep, StartUnitKeeps, BeginKeeps, BeginIsBusyKeeps,
     CheckKeeps, WriteRecordKeeps, StatementKeeps, EnterKeeps, ReadKeeps, InsertKeeps, LeaveKeeps,
     EndUnitKeeps, ThrowsKeeps, UnwindKeeps, CaughtKeeps, AbortKeeps, CommitKeeps, CommitIsBusyKeeps,
     CommittedKeeps DEF WriterStep
<1>3. QED
  BY <1>1, <1>2, DieKeeps, ReaderKeeps DEF Next

THEOREM StoreInvHolds == Spec => []StoreInv
<1>1. Init => StoreInv
  BY StoreStarts, StoreAssumption
<1>2. StoreInv /\ [Next]_vars => StoreInv'
  BY StoreStays, StoreAssumption
<1>3. QED
  BY <1>1, <1>2, PTL DEF Spec

(* Whoever appends and however often a unit is tried again, every event of   *)
(* the committed chain is hashed over the one before it and is in it once.   *)
(* Neither the number of writers nor the repository lock matters: Begin      *)
(* takes RESERVED before the unit reads the last event.                      *)
THEOREM ChainHolds == Spec => []ChainIsUnbroken
<1>1. StoreInv => ChainIsUnbroken
  <2> SUFFICES ASSUME StoreInv PROVE ChainIsUnbroken
    OBVIOUS
  <2>1. Linked(disk.chain) /\ Single(disk.chain) /\ disk.chain \in Seq([event : Effects, prev : Tips])
    BY DEF StoreInv, StoreTypes, DiskIsSound, Databases
  <2>2. \A i \in 1..Len(disk.chain) : disk.chain[i].prev = Last(SubSeq(disk.chain, 1, i - 1))
    BY <2>1, LinkedIsUnbroken
  <2>3. QED
    BY <2>1, <2>2 DEF ChainIsUnbroken, Single
<1>2. QED
  BY <1>1, StoreInvHolds, PTL

(* A unit that its caller wraps in one transaction is in the database wholly *)
(* or not at all, and wholly once transaction has returned: through nested   *)
(* failures that somebody swallows, contention, retries and kills.           *)
THEOREM UnitsHold == Spec => []UnitsAreAtomic
<1>1. StoreInv => UnitsAreAtomic
  BY DEF StoreInv, DiskIsSound, UnitsWhole, UnitsAreAtomic, AllOrNothing
<1>2. QED
  BY <1>1, StoreInvHolds, PTL

(* What one readSnapshot reads in several queries is one committed state at  *)
(* the schema of the checkout: no commit falls between its reads, and no     *)
(* migration can follow, whatever stale version another process has read.    *)
THEOREM SnapshotsHold == Spec => []SnapshotsAreWhole
<1>1. StoreInv => SnapshotsAreWhole
  <2> SUFFICES ASSUME StoreInv, NEW r \in Readers, view[r].pc = "chain_read"
               PROVE  /\ AllOrNothing(view[r].rows, view[r].chain)
                      /\ disk.version = Supported /\ disk.tables = 1..Supported
    BY DEF SnapshotsAreWhole
  <2>1. view[r].rows = disk.rows /\ view[r].chain = disk.chain /\ disk.version = Supported
    BY DEF StoreInv, Viewing, Shared
  <2>2. QED
    BY <2>1 DEF StoreInv, DiskIsSound, UnitsWhole, AllOrNothing
<1>2. QED
  BY <1>1, StoreInvHolds, PTL

(* Once a delivery stage is committed, result.json is the file its own unit  *)
(* wrote, though the file is written inside a transaction that may be rolled *)
(* back, tried again or raced by another process that delivers the same run. *)
THEOREM RecordHolds == Spec => []DeliveryKeepsItsRecord
<1>1. StoreInv => DeliveryKeepsItsRecord
  BY DEF StoreInv, DiskIsSound
<1>2. QED
  BY <1>1, StoreInvHolds, PTL
=============================================================================
