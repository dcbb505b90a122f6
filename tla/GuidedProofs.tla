---------------------------- MODULE GuidedProofs ----------------------------
(* Proofs about GuidedCommand. One argument carries them: a run is written    *)
(* only by the invocation that holds the lock, so what an invocation has read *)
(* under the lock stays true until it lets go of it. The invariant says, for  *)
(* every place an invocation can be in, what it may still believe of its run. *)
EXTENDS GuidedCommand, FiniteSetTheorems, SequenceTheorems, TLAPS

(* Where an invocation holds the lock, and where it has no run yet. *)
Holding == {"intake", "create", "created", "freeze", "frozen", "freeze_failed", "answer", "rejecting",
            "submit", "approving", "deciding", "reobserve", "recheck", "loop", "group",
            "running", "observe_after", "after"}
Unchosen == {"idle", "ended", "create_lock", "create", "intake"}

GroupNames == {"spec", "decision", "plan", "implementation", "verification", "code_review",
               "delivery_check"}
Shown == [version : Nat, groups : Seq(GroupNames)]
Jobs == [run : {0} \cup RunIds, seen : Row, before : SUBSET Row, preview : SUBSET Shown,
         rest : Seq(GroupNames), outcome : {"none"} \cup Continued, payload : Times,
         sig : Times, todo : SUBSET Questions, handed : SUBSET {"decide", "approval"},
         then : {"end", "snapshot", "advance"}]
Slot == [there : BOOLEAN, payload : Times, sig : Times]

(* What is left of the groups that were shown, and the run's version since.   *)
Left(q, rest) ==
  /\ Len(rest) <= Len(q.groups)
  /\ rest = SubSeq(q.groups, Len(q.groups) - Len(rest) + 1, Len(q.groups))

Ahead(d, rows, k) ==
  \E q \in d.preview :
    /\ Left(q, d.rest)
    /\ rows[d.run].version = q.version + 2 * (Len(q.groups) - Len(d.rest)) + k

(* The group that is at work is the one its boundary led to. *)
AtGroup(d) ==
  /\ d.rest # <<>> /\ Head(d.rest) = Action(d.seen)
  /\ Action(d.seen) \in GroupNames
  /\ d.seen.frozen /\ Intact(d.seen)

OwnAt(p, d, rows) ==
  /\ p \notin Unchosen => d.run \in RunIds
  /\ d.seen.frozen => d.run \in RunIds /\ rows[d.run].frozen
  /\ p \in {"idle", "create_lock", "create", "intake"} => ~d.seen.frozen
  /\ p \in {"consent", "lock", "reobserve", "recheck"} => \A q \in d.preview : d.rest = q.groups
  /\ p \in {"recheck", "loop", "group", "after"} => d.seen = rows[d.run]
  /\ p \in {"group", "running"} => AtGroup(d)
  /\ p = "running" => rows[d.run].stages = d.seen.stages
  /\ p \in {"observe_after", "after"} => d.rest # <<>>
  /\ p \in {"loop", "group"} => Ahead(d, rows, 0)
  /\ p = "running" => Ahead(d, rows, 1)
  /\ p \in {"observe_after", "after"} => Ahead(d, rows, 2)
  /\ p \in {"created", "freeze"} => rows[d.run].status # "absent"
  /\ p = "write" => d.payload # 0

(* The places about which nothing but the choice of the run is claimed. *)
Claiming == {"idle", "create_lock", "create", "intake", "consent", "lock", "reobserve", "recheck", "loop",
             "group", "running", "observe_after", "after", "created", "freeze", "write"}

SoundRow(row) == IF row.frozen THEN row.status # "absent" ELSE row.stages = 0 /\ row.intact

Exclusive ==
  /\ lock \subseteq Invocations
  /\ \A i \in Invocations : i \in lock <=> pc[i] \in Holding
  /\ \A i, j \in lock : i = j

Core ==
  /\ runs \in [RunIds -> Row]
  /\ \A r \in RunIds : SoundRow(runs[r])
  /\ DOMAIN pc = Invocations
  /\ job \in [Invocations -> Jobs]
  /\ Exclusive
  /\ \A i \in Invocations : OwnAt(pc[i], job[i], runs)

-----------------------------------------------------------------------------
(* What an invocation without the lock believes survives the others' writes. *)
LEMMA OwnStands ==
  ASSUME NEW p, NEW d, NEW rows, NEW rows2, p \notin Holding, OwnAt(p, d, rows),
         \A r \in RunIds : rows[r].frozen => rows2[r].frozen
  PROVE  OwnAt(p, d, rows2)
  BY DEF OwnAt, Holding

LEMMA PlainOwn ==
  ASSUME NEW p, NEW d, NEW rows, p \notin Claiming, d.run \in RunIds,
         d.seen.frozen => rows[d.run].frozen
  PROVE  OwnAt(p, d, rows)
  BY DEF OwnAt, Claiming

LEMMA EndOwn ==
  ASSUME NEW d, NEW rows, ~d.seen.frozen
  PROVE  OwnAt("ended", d, rows)
  BY DEF OwnAt, Unchosen

LEMMA AbsentTyped == Absent \in Row /\ ~Absent.frozen /\ Absent.stages = 0 /\ Absent.intact
  BY ClockBounds, MaxRunsNat DEF Absent, Row, Times

LEMMA IdleTyped == Idle \in Jobs /\ Idle.seen = Absent
  BY AbsentTyped, ClockBounds DEF Idle, Jobs, Times

(* A step that writes no run. *)
LEMMA QuietStep ==
  ASSUME Core, NEW i \in Invocations, NEW to, NEW d \in Jobs,
         pc' = [pc EXCEPT ![i] = to], job' = [job EXCEPT ![i] = d], runs' = runs,
         OwnAt(to, d, runs),
         \/ lock' = lock /\ (pc[i] \in Holding <=> to \in Holding)
         \/ lock' = lock \ {i} /\ to \notin Holding
         \/ lock = {} /\ lock' = {i} /\ to \in Holding
  PROVE  Core'
  <1>1. runs' \in [RunIds -> Row] /\ \A r \in RunIds : SoundRow(runs'[r])
    BY DEF Core
  <1>2. DOMAIN pc' = Invocations /\ job' \in [Invocations -> Jobs]
    BY DEF Core
  <1>3. \A j \in Invocations : /\ j = i => pc'[j] = to /\ job'[j] = d
                               /\ j # i => pc'[j] = pc[j] /\ job'[j] = job[j]
    BY DEF Core
  <1>4. \A j \in Invocations : OwnAt(pc'[j], job'[j], runs')
    BY <1>3 DEF Core
  <1>5. Exclusive'
    BY <1>3 DEF Core, Exclusive
  <1> QED BY <1>1, <1>2, <1>4, <1>5 DEF Core

(* A step of the lock's holder that writes a run. *)
LEMMA WriteStep ==
  ASSUME Core, NEW i \in Invocations, NEW to, NEW d \in Jobs,
         NEW r \in RunIds, NEW row \in Row,
         pc' = [pc EXCEPT ![i] = to], job' = [job EXCEPT ![i] = d],
         runs' = [runs EXCEPT ![r] = row], pc[i] \in Holding,
         SoundRow(row), runs[r].frozen => row.frozen,
         OwnAt(to, d, runs'),
         \/ lock' = lock /\ to \in Holding
         \/ lock' = lock \ {i} /\ to \notin Holding
  PROVE  Core'
  <1>1. runs' \in [RunIds -> Row] /\ \A q \in RunIds : SoundRow(runs'[q])
    BY DEF Core
  <1>2. DOMAIN pc' = Invocations /\ job' \in [Invocations -> Jobs]
    BY DEF Core
  <1>3. \A j \in Invocations : /\ j = i => pc'[j] = to /\ job'[j] = d
                               /\ j # i => pc'[j] = pc[j] /\ job'[j] = job[j]
    BY DEF Core
  <1>4. \A q \in RunIds : runs[q].frozen => runs'[q].frozen
    BY DEF Core
  <1>5. \A j \in Invocations \ {i} : pc[j] \notin Holding
    BY DEF Core, Exclusive
  <1>6. \A j \in Invocations \ {i} : OwnAt(pc[j], job[j], runs')
    BY <1>4, <1>5, OwnStands DEF Core
  <1>7. \A j \in Invocations : OwnAt(pc'[j], job'[j], runs')
    BY <1>3, <1>6
  <1>8. Exclusive'
    BY <1>3 DEF Core, Exclusive
  <1> QED BY <1>1, <1>2, <1>7, <1>8 DEF Core

LEMMA WriteRow ==
  ASSUME NEW r \in RunIds, NEW row \in Row, Write(r, row)
  PROVE  \E n \in Row :
           /\ runs' = [runs EXCEPT ![r] = n]
           /\ n.version = row.version + 1 /\ n.status = row.status /\ n.frozen = row.frozen
           /\ n.stages = row.stages /\ n.intact = row.intact
  <1> DEFINE n == [row EXCEPT !.version = row.version + 1]
  <1>1. runs' = [runs EXCEPT ![r] = n]
    BY DEF Write
  <1>2. n \in Row
    BY DEF Row
  <1>3. /\ n.version = row.version + 1 /\ n.status = row.status /\ n.frozen = row.frozen
        /\ n.stages = row.stages /\ n.intact = row.intact
    BY DEF Row
  <1> QED BY <1>1, <1>2, <1>3, Zenon

(* Where a command that ends leaves its invocation. *)
LEMMA ReturnOwn ==
  ASSUME Core, NEW i \in Invocations, NEW outcome, Return(i, outcome),
         outcome \in Continued => job[i].run \in RunIds
  PROVE  \E to : \E d \in Jobs :
           /\ pc' = [pc EXCEPT ![i] = to] /\ job' = [job EXCEPT ![i] = d]
           /\ to \notin Holding
           /\ \A rows : OwnAt(to, d, rows)
  <1>0. job[i] \in Jobs
    BY DEF Core
  <1>1. CASE i \in Sessions /\ outcome \in Continued
    <2> DEFINE d == [Idle EXCEPT !.run = job[i].run, !.outcome = outcome,
                                 !.handed = job[i].handed, !.then = job[i].then]
    <2>1. pc' = [pc EXCEPT ![i] = "returned"] /\ job' = [job EXCEPT ![i] = d]
      BY <1>1 DEF Return, Goto
    <2>2. d \in Jobs
      BY <1>0, <1>1, IdleTyped DEF Jobs
    <2>3. d.run \in RunIds /\ ~d.seen.frozen
      BY <1>1, IdleTyped, AbsentTyped DEF Jobs
    <2> HIDE DEF d
    <2>4. \A rows : OwnAt("returned", d, rows)
      BY <2>3, PlainOwn DEF Claiming
    <2>5. "returned" \notin Holding
      BY DEF Holding
    <2> QED BY <2>1, <2>2, <2>4, <2>5, Zenon
  <1>2. CASE ~(i \in Sessions /\ outcome \in Continued)
    <2>1. pc' = [pc EXCEPT ![i] = "ended"] /\ job' = [job EXCEPT ![i] = Idle]
      BY <1>2 DEF Return, Goto
    <2>2. \A rows : OwnAt("ended", Idle, rows)
      BY EndOwn, IdleTyped, AbsentTyped
    <2>3. "ended" \notin Holding
      BY DEF Holding
    <2> QED BY <2>1, <2>2, <2>3, IdleTyped, Zenon
  <1> QED BY <1>1, <1>2

LEMMA ReturnQuiet ==
  ASSUME Core, NEW i \in Invocations, NEW outcome, Return(i, outcome), runs' = runs,
         outcome \in Continued => job[i].run \in RunIds
  PROVE  Core'
  <1>0. PICK to : \E d \in Jobs :
          /\ pc' = [pc EXCEPT ![i] = to] /\ job' = [job EXCEPT ![i] = d]
          /\ to \notin Holding
          /\ \A rows : OwnAt(to, d, rows)
    BY ReturnOwn, Zenon
  <1>1. PICK d \in Jobs :
          /\ pc' = [pc EXCEPT ![i] = to] /\ job' = [job EXCEPT ![i] = d]
          /\ to \notin Holding
          /\ \A rows : OwnAt(to, d, rows)
    BY <1>0
  <1>2. lock' = lock \ {i}
    BY DEF Return
  <1> QED BY <1>1, <1>2, QuietStep

LEMMA ReturnWrites ==
  ASSUME Core, NEW i \in Invocations, NEW outcome, Return(i, outcome), pc[i] \in Holding,
         outcome \in Continued => job[i].run \in RunIds,
         NEW r \in RunIds, NEW row \in Row, Write(r, row), SoundRow(row),
         runs[r].frozen => row.frozen
  PROVE  Core'
  <1>0. PICK to : \E d \in Jobs :
          /\ pc' = [pc EXCEPT ![i] = to] /\ job' = [job EXCEPT ![i] = d]
          /\ to \notin Holding
          /\ \A rows : OwnAt(to, d, rows)
    BY ReturnOwn, Zenon
  <1>1. PICK d \in Jobs :
          /\ pc' = [pc EXCEPT ![i] = to] /\ job' = [job EXCEPT ![i] = d]
          /\ to \notin Holding
          /\ \A rows : OwnAt(to, d, rows)
    BY <1>0
  <1>2. lock' = lock \ {i}
    BY DEF Return
  <1>3. PICK n \in Row :
           /\ runs' = [runs EXCEPT ![r] = n]
           /\ n.version = row.version + 1 /\ n.status = row.status /\ n.frozen = row.frozen
           /\ n.stages = row.stages /\ n.intact = row.intact
    BY WriteRow, Zenon
  <1>4. SoundRow(n) /\ (runs[r].frozen => n.frozen)
    BY <1>3 DEF SoundRow
  <1>5. OwnAt(to, d, runs')
    BY <1>1
  <1> QED BY <1>1, <1>2, <1>3, <1>4, <1>5, WriteStep

(* A move within the places about which nothing is claimed. *)
LEMMA PlainMove ==
  ASSUME Core, NEW i \in Invocations, NEW to, Goto(i, to), to \notin Claiming,
         NEW d \in Jobs, job' = [job EXCEPT ![i] = d], UNCHANGED <<runs, lock>>,
         d.run \in RunIds, d.seen.frozen => runs[d.run].frozen,
         pc[i] \in Holding <=> to \in Holding
  PROVE  Core'
  <1>1. OwnAt(to, d, runs)
    BY PlainOwn
  <1> QED BY <1>1, QuietStep DEF Goto

LEMMA PlainStay ==
  ASSUME Core, NEW i \in Invocations, NEW to, Goto(i, to), to \notin Claiming,
         UNCHANGED <<job, runs, lock>>, pc[i] \notin Unchosen,
         pc[i] \in Holding <=> to \in Holding
  PROVE  Core'
  <1>1. job[i] \in Jobs /\ job' = [job EXCEPT ![i] = job[i]]
    BY DEF Core
  <1>2. job[i].run \in RunIds /\ (job[i].seen.frozen => runs[job[i].run].frozen)
    BY DEF Core, OwnAt
  <1> QED BY <1>1, <1>2, PlainMove

(* acquireLock, from and to places about which nothing is claimed. *)
LEMMA TakeStep ==
  ASSUME Core, NEW i \in Invocations, NEW from, NEW to, TakeLock(i, from, to),
         to \in Holding,
         OwnAt(from, job[i], runs) => OwnAt(to, job[i], runs)
  PROVE  Core'
  <1>0. runs' = runs /\ pc[i] = from /\ job[i] \in Jobs
    BY DEF TakeLock, Core
  <1>1. CASE lock = {}
    <2>1. lock' = {i} /\ pc' = [pc EXCEPT ![i] = to] /\ job' = job
      BY <1>1 DEF TakeLock, Goto
    <2>2. job' = [job EXCEPT ![i] = job[i]]
      BY <2>1 DEF Core
    <2>3. OwnAt(to, job[i], runs)
      BY <1>0 DEF Core
    <2> QED BY <1>0, <1>1, <2>1, <2>2, <2>3, QuietStep
  <1>2. CASE lock # {}
    <2>1. Return(i, "writer_contention")
      BY <1>2 DEF TakeLock
    <2> QED BY <1>0, <2>1, ReturnQuiet DEF Continued
  <1> QED BY <1>1, <1>2

LEMMA Mine ==
  ASSUME Core, NEW i \in Invocations
  PROVE  /\ job[i] \in Jobs /\ OwnAt(pc[i], job[i], runs)
         /\ pc[i] \notin Unchosen =>
              /\ job[i].run \in RunIds
              /\ runs[job[i].run] \in Row /\ SoundRow(runs[job[i].run])
         /\ job[i].seen.frozen => runs[job[i].run].frozen
  BY DEF Core, OwnAt

-----------------------------------------------------------------------------
(* AdvanceRun. *)
LEMMA NotStopped ==
  ASSUME NEW i, Stopped(i) = "none"
  PROVE  /\ Eligible(i)
         /\ Action(job[i].seen) \notin {"approval", "decide"}
  <1>1. Eligible(i) /\ Action(job[i].seen) # "approval" /\ Action(job[i].seen) # "decide"
    BY Zenon DEF Stopped
  <1> QED BY <1>1

LEMMA ActionNamed ==
  ASSUME NEW row \in Row, Action(row) \notin {"none", "approval", "decide"}
  PROVE  /\ Intact(row) /\ Action(row) \in GroupNames
         /\ row.stages \in {0, 2, 4, 6, 7, 8, 9}
         /\ Action(row) = GroupAt[row.stages]
  <1>1. /\ Intact(row) /\ row.stages # 10 /\ row.stages # 3
        /\ Action(row) = GroupAt[row.stages]
    BY Zenon DEF Action
  <1>2. row.stages \in {0, 2, 4, 6, 7, 8, 9}
    BY <1>1 DEF Intact
  <1>3. GroupAt[row.stages] \in GroupNames
    BY <1>2 DEF GroupAt, GroupNames
  <1> QED BY <1>1, <1>2, <1>3

LEMMA AddedFits ==
  ASSUME NEW row \in Row, Action(row) \in GroupNames, NEW n \in Added(Action(row))
  PROVE  n \in Nat /\ row.stages + n \in 0 .. 10
  <1>1. row.stages \in {0, 2, 4, 6, 7, 8, 9} /\ Action(row) = GroupAt[row.stages]
    BY ActionNamed DEF GroupNames
  <1>2. CASE row.stages = 0
    <2>1. Action(row) = "spec"
      BY <1>1, <1>2 DEF GroupAt
    <2>2. n \in {2, 3}
      BY <2>1, Zenon DEF Added
    <2> QED BY <1>2, <2>2
  <1>3. CASE row.stages = 4
    <2>1. Action(row) = "plan"
      BY <1>1, <1>3 DEF GroupAt
    <2>2. n \in {2}
      BY <2>1, Zenon DEF Added
    <2> QED BY <1>3, <2>2
  <1>4. CASE row.stages \in {2, 6, 7, 8, 9}
    <2>1. Action(row) # "spec" /\ Action(row) # "plan"
      <3>1. GroupAt[2] = "decision"
        BY DEF GroupAt
      <3>2. GroupAt[6] = "implementation" /\ GroupAt[7] = "verification"
        BY DEF GroupAt
      <3>3. GroupAt[8] = "code_review" /\ GroupAt[9] = "delivery_check"
        BY DEF GroupAt
      <3> QED BY <1>1, <1>4, <3>1, <3>2, <3>3
    <2>2. n \in {1}
      BY <2>1, Zenon DEF Added
    <2> QED BY <1>4, <2>2
  <1> QED BY <1>1, <1>2, <1>3, <1>4

LEMMA RemainingNamed ==
  ASSUME NEW a \in GroupNames
  PROVE  RemainingGroups(a) \in Seq(GroupNames)
  <1>1. CASE a \in {"spec", "decision"}
    BY <1>1 DEF RemainingGroups, GroupNames
  <1>2. CASE a \notin {"spec", "decision"}
    <2> DEFINE at == CHOOSE k \in DOMAIN Groups : Groups[k] = a
    <2>1. Groups \in Seq(GroupNames) /\ Len(Groups) = 7 /\ DOMAIN Groups = 1 .. 7
      BY DEF Groups, GroupNames
    <2>2. \E k \in DOMAIN Groups : Groups[k] = a
      BY <2>1 DEF Groups, GroupNames
    <2>3. at \in 1 .. 7
      BY <2>1, <2>2
    <2>4. RemainingGroups(a) = SubSeq(Groups, at, 7)
      BY <1>2, <2>1, Zenon DEF RemainingGroups
    <2> HIDE DEF at
    <2>5. \A k \in at .. 7 : Groups[k] \in GroupNames
      <3>1. \A k \in 1 .. 7 : Groups[k] \in GroupNames
        BY DEF Groups, GroupNames
      <3> QED BY <2>3, <3>1
    <2>6. SubSeq(Groups, at, 7) \in Seq(GroupNames)
      BY <2>1, <2>3, <2>5, SubSeqProperties
    <2> QED BY <2>4, <2>6
  <1> QED BY <1>1, <1>2

LEMMA ObservePlain ==
  ASSUME Core, NEW i \in Invocations, NEW from, NEW to, ObserveRows(i, from, to),
         from \notin Unchosen \cup Holding, to \notin Claiming \cup Holding
  PROVE  Core'
  <1> DEFINE d == [job[i] EXCEPT !.seen = runs[job[i].run]]
  <1>1. pc[i] = from /\ runs' = runs /\ lock' = lock /\ Goto(i, to) /\ job' = [job EXCEPT ![i] = d]
    BY DEF ObserveRows, rowVars, Goto
  <1>2. job[i] \in Jobs /\ job[i].run \in RunIds /\ runs[job[i].run] \in Row
    BY <1>1, Mine
  <1>3. d \in Jobs /\ d.run = job[i].run /\ d.seen = runs[job[i].run]
    BY <1>2 DEF Jobs
  <1> HIDE DEF d
  <1> QED BY <1>1, <1>2, <1>3, PlainMove

LEMMA Reobserve ==
  ASSUME Core, NEW i \in Invocations, ObserveRows(i, "reobserve", "recheck")
  PROVE  Core'
  <1> DEFINE d == [job[i] EXCEPT !.seen = runs[job[i].run]]
  <1>1. /\ pc[i] = "reobserve" /\ runs' = runs /\ lock' = lock
        /\ pc' = [pc EXCEPT ![i] = "recheck"] /\ job' = [job EXCEPT ![i] = d]
    BY DEF ObserveRows, rowVars
  <1>2. job[i] \in Jobs /\ job[i].run \in RunIds /\ runs[job[i].run] \in Row
    BY <1>1, Mine DEF Unchosen
  <1>3. /\ d \in Jobs /\ d.run = job[i].run /\ d.seen = runs[job[i].run]
        /\ d.rest = job[i].rest /\ d.preview = job[i].preview
    BY <1>2 DEF Jobs
  <1>4. \A q \in job[i].preview : job[i].rest = q.groups
    BY <1>1, Mine DEF OwnAt
  <1> HIDE DEF d
  <1>5. OwnAt("recheck", d, runs)
    BY <1>2, <1>3, <1>4 DEF OwnAt
  <1> QED BY <1>1, <1>3, <1>5, QuietStep DEF Holding

LEMMA PreviewStep ==
  ASSUME Core, NEW i \in Invocations, Preview(i)
  PROVE  Core'
  <1>1. pc[i] = "preview" /\ runs' = runs
    BY DEF Preview
  <1>2. job[i] \in Jobs /\ job[i].run \in RunIds
    BY <1>1, Mine DEF Unchosen
  <1>3. CASE Stopped(i) # "none"
    <2>1. Return(i, Stopped(i))
      BY <1>3 DEF Preview
    <2> QED BY <1>1, <1>2, <2>1, ReturnQuiet
  <1>4. CASE Stopped(i) = "none"
    <2> DEFINE rem == RemainingGroups(Action(job[i].seen))
               shown == [version |-> job[i].seen.version, groups |-> rem]
               d == [job[i] EXCEPT !.rest = rem, !.preview = {shown}]
    <2>1. Action(job[i].seen) \in GroupNames
      <3>1. Action(job[i].seen) \notin {"none", "approval", "decide"}
        BY <1>4, NotStopped DEF Eligible
      <3> QED BY <1>2, <3>1, ActionNamed DEF Jobs
    <2>2. rem \in Seq(GroupNames)
      BY <2>1, RemainingNamed
    <2>3. shown \in Shown
      BY <1>2, <2>2 DEF Shown, Jobs, Row
    <2>4. /\ d \in Jobs /\ d.run = job[i].run /\ d.seen = job[i].seen
          /\ d.rest = rem /\ d.preview = {shown}
      BY <1>2, <2>2, <2>3 DEF Jobs
    <2>5. lock' = lock /\ pc' = [pc EXCEPT ![i] = "consent"] /\ job' = [job EXCEPT ![i] = d]
      BY <1>2, <1>4 DEF Preview, Goto, Core
    <2>6. \A q \in {shown} : q.groups = rem
      OBVIOUS
    <2>7. d.seen.frozen => runs[d.run].frozen
      BY <2>4, Mine
    <2> HIDE DEF d, rem, shown
    <2>8. OwnAt("consent", d, runs)
      BY <1>2, <2>4, <2>6, <2>7 DEF OwnAt
    <2> QED BY <1>1, <2>4, <2>5, <2>8, QuietStep DEF Holding
  <1> QED BY <1>3, <1>4

LEMMA ConsentStep ==
  ASSUME Core, NEW i \in Invocations, Consent(i)
  PROVE  Core'
  <1>1. pc[i] = "consent" /\ runs' = runs
    BY DEF Consent
  <1>2. job[i] \in Jobs /\ job' = job => job' = [job EXCEPT ![i] = job[i]]
    BY DEF Core
  <1>3. CASE Return(i, "consent_required")
    BY <1>1, <1>3, ReturnQuiet DEF Continued
  <1>4. CASE Goto(i, "lock") /\ UNCHANGED <<lock, job>>
    <2>1. OwnAt("lock", job[i], runs)
      BY <1>1, Mine DEF OwnAt, Unchosen
    <2> QED BY <1>1, <1>2, <1>4, <2>1, Mine, QuietStep DEF Goto, Holding
  <1> QED BY <1>3, <1>4 DEF Consent

LEMMA Untouched ==
  ASSUME Core, NEW i \in Invocations, job' = job
  PROVE  job' = [job EXCEPT ![i] = job[i]]
  BY DEF Core

LEMMA RecheckStep ==
  ASSUME Core, NEW i \in Invocations, Recheck(i)
  PROVE  Core'
  <1>1. pc[i] = "recheck" /\ runs' = runs
    BY DEF Recheck
  <1>2. CASE ~SamePreview(i)
    <2>1. Return(i, "observation_changed")
      BY <1>2 DEF Recheck
    <2> QED BY <1>1, <2>1, ReturnQuiet DEF Continued
  <1>3. CASE SamePreview(i)
    <2>1. pc' = [pc EXCEPT ![i] = "loop"] /\ job' = job /\ lock' = lock
      BY <1>3 DEF Recheck, Goto
    <2>2. job[i] \in Jobs /\ job[i].run \in RunIds /\ OwnAt("recheck", job[i], runs)
      BY <1>1, Mine DEF Unchosen
    <2>3. PICK q \in job[i].preview : q.version = job[i].seen.version
      BY <1>3 DEF SamePreview
    <2>4. q \in Shown /\ q.groups \in Seq(GroupNames) /\ q.version \in Nat
      BY <2>2 DEF Jobs, Shown
    <2>5. job[i].rest = q.groups /\ job[i].seen = runs[job[i].run]
      BY <2>2 DEF OwnAt
    <2>6. Left(q, job[i].rest)
      BY <2>4, <2>5, SubSeqFull, LenProperties DEF Left
    <2>7. runs[job[i].run].version = q.version + 2 * (Len(q.groups) - Len(job[i].rest)) + 0
      BY <2>3, <2>4, <2>5, LenProperties
    <2>8. Ahead(job[i], runs, 0)
      BY <2>6, <2>7 DEF Ahead
    <2>9. OwnAt("loop", job[i], runs)
      BY <2>2, <2>8 DEF OwnAt
    <2> QED BY <1>1, <2>1, <2>2, <2>9, Untouched, QuietStep DEF Holding
  <1> QED BY <1>2, <1>3

LEMMA NextGroupStep ==
  ASSUME Core, NEW i \in Invocations, NextGroup(i)
  PROVE  Core'
  <1>1. pc[i] = "loop" /\ runs' = runs
    BY DEF NextGroup
  <1>2. job[i] \in Jobs /\ job[i].run \in RunIds /\ OwnAt("loop", job[i], runs)
    BY <1>1, Mine DEF Unchosen
  <1>3. CASE Stopped(i) # "none"
    <2>1. Return(i, Stopped(i))
      BY <1>3, Zenon DEF NextGroup
    <2> QED BY <1>1, <1>2, <2>1, ReturnQuiet
  <1>4. CASE Stopped(i) = "none" /\ (job[i].rest = <<>> \/ Action(job[i].seen) # Head(job[i].rest))
    <2>1. Return(i, "observation_changed")
      BY <1>4, Zenon DEF NextGroup
    <2> QED BY <1>1, <2>1, ReturnQuiet DEF Continued
  <1>5. CASE Stopped(i) = "none" /\ job[i].rest # <<>> /\ Action(job[i].seen) = Head(job[i].rest)
    <2>1. Goto(i, "group") /\ UNCHANGED <<lock, job>>
      BY <1>5, Zenon DEF NextGroup
    <2>2. Eligible(i) /\ Action(job[i].seen) \notin {"none", "approval", "decide"}
      BY <1>5, NotStopped DEF Eligible
    <2>3. job[i].seen.frozen
      BY <2>2 DEF Eligible, Evidence
    <2>4. Intact(job[i].seen) /\ Action(job[i].seen) \in GroupNames
      BY <1>2, <2>2, ActionNamed DEF Jobs
    <2>5. AtGroup(job[i])
      BY <1>5, <2>3, <2>4 DEF AtGroup
    <2>6. OwnAt("group", job[i], runs)
      BY <1>2, <2>5 DEF OwnAt
    <2> QED BY <1>1, <1>2, <2>1, <2>6, Untouched, QuietStep DEF Goto, Holding
  <1> QED BY <1>3, <1>4, <1>5

LEMMA AheadMoves ==
  ASSUME NEW d \in Jobs, NEW rows, NEW rows2, NEW k \in Nat, Ahead(d, rows, k),
         rows2[d.run].version = rows[d.run].version + 1
  PROVE  Ahead(d, rows2, k + 1)
  <1>1. PICK q \in d.preview :
          /\ Left(q, d.rest)
          /\ rows[d.run].version = q.version + 2 * (Len(q.groups) - Len(d.rest)) + k
    BY DEF Ahead
  <1>2. q.version \in Nat /\ Len(q.groups) \in Nat /\ Len(d.rest) \in Nat
    BY LenProperties DEF Jobs, Shown
  <1>3. rows2[d.run].version = q.version + 2 * (Len(q.groups) - Len(d.rest)) + (k + 1)
    <2>1. PICK v \in Nat, b \in Nat, c \in Nat : v = q.version /\ b = Len(q.groups) /\ c = Len(d.rest)
      BY <1>2, Zenon
    <2>2. rows[d.run].version = v + 2 * (b - c) + k
      BY <1>1, <2>1, Zenon
    <2>3. rows2[d.run].version = v + 2 * (b - c) + (k + 1)
      BY <2>2
    <2> QED BY <2>1, <2>3, Zenon
  <1> QED BY <1>1, <1>3 DEF Ahead

LEMMA StartGroupStep ==
  ASSUME Core, NEW i \in Invocations, StartGroup(i)
  PROVE  Core'
  <1> DEFINE r == job[i].run
             row == [runs[r] EXCEPT !.intact = FALSE]
  <1>1. pc[i] = "group"
    BY DEF StartGroup
  <1>2. /\ job[i] \in Jobs /\ r \in RunIds /\ runs[r] \in Row /\ SoundRow(runs[r])
        /\ OwnAt("group", job[i], runs)
    BY <1>1, Mine DEF Unchosen
  <1>3. CASE Return(i, "failed") /\ UNCHANGED runs
    BY <1>3, ReturnQuiet DEF Continued
  <1>4. CASE Write(r, row) /\ Goto(i, "running") /\ UNCHANGED <<job, lock>>
    <2>1. /\ row \in Row /\ row.version = runs[r].version /\ row.status = runs[r].status
          /\ row.frozen = runs[r].frozen /\ row.stages = runs[r].stages
      BY <1>2 DEF Row
    <2>2. job[i].seen = runs[r] /\ AtGroup(job[i]) /\ Ahead(job[i], runs, 0)
      BY <1>2 DEF OwnAt
    <2> HIDE DEF row
    <2>3. PICK n \in Row :
            /\ runs' = [runs EXCEPT ![r] = n]
            /\ n.version = row.version + 1 /\ n.status = row.status /\ n.frozen = row.frozen
            /\ n.stages = row.stages /\ n.intact = row.intact
      BY <1>2, <1>4, <2>1, WriteRow, Zenon
    <2>4. runs'[r] = n
      BY <1>2, <2>3 DEF Core
    <2>5. SoundRow(n) /\ n.frozen
      BY <1>2, <2>1, <2>2, <2>3 DEF SoundRow, AtGroup
    <2>6. Ahead(job[i], runs', 1)
      <3>1. runs'[r].version = runs[r].version + 1
        BY <2>1, <2>3, <2>4
      <3>2. Ahead(job[i], runs', 0 + 1)
        BY <1>2, <2>2, <3>1, AheadMoves
      <3> QED BY <3>2
    <2>7. OwnAt("running", job[i], runs')
      BY <1>2, <2>1, <2>2, <2>3, <2>4, <2>5, <2>6 DEF OwnAt
    <2> QED BY <1>1, <1>2, <1>4, <2>3, <2>5, <2>7, Untouched, WriteStep DEF Goto, Holding
  <1> QED BY <1>3, <1>4 DEF StartGroup

LEMMA FinishGroupStep ==
  ASSUME Core, NEW i \in Invocations, FinishGroup(i)
  PROVE  Core'
  <1> DEFINE r == job[i].run
             group == Head(job[i].rest)
  <1>1. pc[i] = "running" /\ Goto(i, "observe_after") /\ UNCHANGED <<lock, job>>
    BY DEF FinishGroup
  <1>2. /\ job[i] \in Jobs /\ r \in RunIds /\ runs[r] \in Row /\ SoundRow(runs[r])
        /\ OwnAt("running", job[i], runs)
    BY <1>1, Mine DEF Unchosen
  <1>3. AtGroup(job[i]) /\ Ahead(job[i], runs, 1) /\ runs[r].stages = job[i].seen.stages
    BY <1>2 DEF OwnAt
  <1>4. runs[r].frozen
    BY <1>2, <1>3 DEF OwnAt, AtGroup
  <1>5. PICK n \in Added(group), q \in SUBSET Questions :
          Write(r, [runs[r] EXCEPT !.stages = @ + n, !.intact = TRUE, !.open = q,
                          !.status = IF group = "delivery_check" THEN "completed" ELSE @])
    BY DEF FinishGroup
  <1>6. group = Action(job[i].seen) /\ Action(job[i].seen) \in GroupNames /\ job[i].seen \in Row
    BY <1>2, <1>3 DEF AtGroup, Jobs
  <1>7. runs[r].stages + n \in 0 .. 10
    BY <1>3, <1>5, <1>6, AddedFits
  <1> DEFINE row == [runs[r] EXCEPT !.stages = @ + n, !.intact = TRUE, !.open = q,
                          !.status = IF group = "delivery_check" THEN "completed" ELSE @]
  <1>8. /\ row \in Row /\ row.version = runs[r].version /\ row.frozen
        /\ row.status # "absent"
    <2> HIDE DEF group
    <2> QED BY <1>2, <1>4, <1>5, <1>7 DEF Row, SoundRow
  <1>9. Write(r, row)
    BY <1>5
  <1> HIDE DEF row
  <1>10. PICK m \in Row :
          /\ runs' = [runs EXCEPT ![r] = m]
          /\ m.version = row.version + 1 /\ m.status = row.status /\ m.frozen = row.frozen
          /\ m.stages = row.stages /\ m.intact = row.intact
    BY <1>2, <1>8, <1>9, WriteRow, Zenon
  <1>11. runs'[r] = m
    BY <1>2, <1>10 DEF Core
  <1>12. SoundRow(m) /\ m.frozen
    BY <1>8, <1>10 DEF SoundRow
  <1>13. Ahead(job[i], runs', 2)
    <2>1. runs'[r].version = runs[r].version + 1
      BY <1>8, <1>10, <1>11
    <2>2. Ahead(job[i], runs', 1 + 1)
      BY <1>2, <1>3, <2>1, AheadMoves
    <2> QED BY <2>2
  <1>14. OwnAt("observe_after", job[i], runs')
    BY <1>2, <1>3, <1>11, <1>12, <1>13 DEF OwnAt, AtGroup
  <1> QED BY <1>1, <1>2, <1>10, <1>12, <1>14, Untouched, WriteStep DEF Goto, Holding

LEMMA FailGroupStep ==
  ASSUME Core, NEW i \in Invocations, FailGroup(i)
  PROVE  Core'
  <1> DEFINE r == job[i].run
             row == [runs[r] EXCEPT !.status = "blocked"]
  <1>1. pc[i] = "running" /\ Return(i, "failed")
    BY DEF FailGroup
  <1>2. r \in RunIds /\ runs[r] \in Row /\ SoundRow(runs[r])
    BY <1>1, Mine DEF Unchosen
  <1>3. CASE UNCHANGED runs
    BY <1>1, <1>3, ReturnQuiet DEF Continued
  <1>4. CASE Write(r, row)
    <2>1. row \in Row /\ SoundRow(row) /\ row.frozen = runs[r].frozen
      BY <1>2 DEF Row, SoundRow
    <2> HIDE DEF row
    <2> QED BY <1>1, <1>2, <1>4, <2>1, ReturnWrites DEF Continued, Holding
  <1> QED BY <1>3, <1>4 DEF FailGroup

LEMMA ObserveAfterStep ==
  ASSUME Core, NEW i \in Invocations, ObserveAfter(i)
  PROVE  Core'
  <1> DEFINE d == [job[i] EXCEPT !.before = {job[i].seen}, !.seen = runs[job[i].run]]
  <1>1. pc[i] = "observe_after"
    BY DEF ObserveAfter
  <1>2. /\ job[i] \in Jobs /\ job[i].run \in RunIds /\ runs[job[i].run] \in Row
        /\ OwnAt("observe_after", job[i], runs)
    BY <1>1, Mine DEF Unchosen
  <1>3. /\ runs' = runs /\ lock' = lock
        /\ pc' = [pc EXCEPT ![i] = "after"] /\ job' = [job EXCEPT ![i] = d]
    BY DEF ObserveAfter, rowVars, Goto, Core
  <1>4. /\ d \in Jobs /\ d.run = job[i].run /\ d.seen = runs[job[i].run]
        /\ d.rest = job[i].rest /\ d.preview = job[i].preview
    BY <1>2 DEF Jobs
  <1> HIDE DEF d
  <1>5. d.rest # <<>> /\ Ahead(job[i], runs, 2)
    BY <1>2, <1>4 DEF OwnAt
  <1>6. Ahead(d, runs, 2)
    BY <1>4, <1>5 DEF Ahead
  <1>7. OwnAt("after", d, runs)
    BY <1>2, <1>4, <1>5, <1>6 DEF OwnAt
  <1> QED BY <1>1, <1>3, <1>4, <1>7, QuietStep DEF Holding

LEMMA LeftTail ==
  ASSUME NEW q \in Shown, NEW rest \in Seq(GroupNames), rest # <<>>, Left(q, rest)
  PROVE  Left(q, Tail(rest)) /\ Len(Tail(rest)) = Len(rest) - 1
  <1> DEFINE g == q.groups
             k == Len(g) - Len(rest)
  <1>1. g \in Seq(GroupNames) /\ Len(g) \in Nat /\ Len(rest) \in Nat \ {0} /\ Len(rest) <= Len(g)
    BY EmptySeq, LenProperties DEF Shown, Left
  <1>2. Tail(rest) \in Seq(GroupNames) /\ Len(Tail(rest)) = Len(rest) - 1
    BY HeadTailProperties
  <1>3. rest = SubSeq(g, k + 1, Len(g))
    BY DEF Left
  <1>4. Tail(rest) = SubSeq(g, k + 2, Len(g))
    <2>1. k + 1 \in 1 .. Len(g) /\ k + 1 \in Int /\ k + 1 <= Len(g)
      BY <1>1
    <2>2. Tail(SubSeq(g, k + 1, Len(g))) = SubSeq(g, (k + 1) + 1, Len(g))
      BY <1>1, <2>1, HeadTailOfSubSeq
    <2>3. (k + 1) + 1 = k + 2
      <3>1. PICK b \in Nat, c \in Nat : b = Len(g) /\ c = Len(rest)
        BY <1>1, Zenon
      <3>2. ((b - c) + 1) + 1 = (b - c) + 2
        OBVIOUS
      <3> QED BY <3>1, <3>2, Zenon
    <2> QED BY <1>3, <2>2, <2>3, Zenon
  <1>5. Len(g) - Len(Tail(rest)) + 1 = k + 2
    BY <1>1, <1>2
  <1>6. Len(Tail(rest)) <= Len(g)
    BY <1>1, <1>2
  <1> QED BY <1>2, <1>4, <1>5, <1>6 DEF Left

LEMMA AheadTail ==
  ASSUME NEW d \in Jobs, NEW e \in Jobs, NEW rows, Ahead(d, rows, 2), d.rest # <<>>,
         e.rest = Tail(d.rest), e.preview = d.preview, e.run = d.run
  PROVE  Ahead(e, rows, 0)
  <1>1. PICK q \in d.preview :
          /\ Left(q, d.rest)
          /\ rows[d.run].version = q.version + 2 * (Len(q.groups) - Len(d.rest)) + 2
    BY DEF Ahead
  <1>2. q \in Shown /\ d.rest \in Seq(GroupNames)
    BY DEF Jobs
  <1>3. Left(q, e.rest) /\ Len(e.rest) = Len(d.rest) - 1
    BY <1>1, <1>2, LeftTail
  <1>4. rows[e.run].version = q.version + 2 * (Len(q.groups) - Len(e.rest)) + 0
    <2>1. PICK v \in Nat, b \in Nat, c \in Nat : v = q.version /\ b = Len(q.groups) /\ c = Len(d.rest)
      BY <1>2, LenProperties DEF Shown
    <2>2. rows[d.run].version = v + 2 * (b - c) + 2 /\ Len(e.rest) = c - 1
      BY <1>1, <1>3, <2>1, Zenon
    <2>3. v + 2 * (b - c) + 2 = v + 2 * (b - (c - 1)) + 0
      OBVIOUS
    <2> QED BY <2>1, <2>2, <2>3, Zenon
  <1> QED BY <1>1, <1>3, <1>4 DEF Ahead

LEMMA AfterGroupStep ==
  ASSUME Core, NEW i \in Invocations, AfterGroup(i)
  PROVE  Core'
  <1> DEFINE d == [job[i] EXCEPT !.rest = Tail(job[i].rest), !.before = {}]
  <1>1. pc[i] = "after" /\ runs' = runs
    BY DEF AfterGroup
  <1>2. job[i] \in Jobs /\ job[i].run \in RunIds /\ OwnAt("after", job[i], runs)
    BY <1>1, Mine DEF Unchosen
  <1>3. CASE ~ExpectedBoundary(i)
    <2>1. Return(i, "failed")
      BY <1>3 DEF AfterGroup
    <2> QED BY <1>1, <2>1, ReturnQuiet DEF Continued
  <1>4. CASE ExpectedBoundary(i)
    <2>1. lock' = lock /\ pc' = [pc EXCEPT ![i] = "loop"] /\ job' = [job EXCEPT ![i] = d]
      BY <1>2, <1>4 DEF AfterGroup, Goto, Core
    <2>2. /\ job[i].rest # <<>> /\ Ahead(job[i], runs, 2)
          /\ job[i].seen = runs[job[i].run]
      BY <1>2 DEF OwnAt
    <2>3. Tail(job[i].rest) \in Seq(GroupNames)
      BY <1>2, <2>2, HeadTailProperties DEF Jobs
    <2>4. /\ d \in Jobs /\ d.run = job[i].run /\ d.seen = job[i].seen
          /\ d.rest = Tail(job[i].rest) /\ d.preview = job[i].preview
      BY <1>2, <2>3 DEF Jobs
    <2> HIDE DEF d
    <2>5. Ahead(d, runs, 0)
      BY <1>2, <2>2, <2>4, AheadTail
    <2>6. OwnAt("loop", d, runs)
      BY <1>2, <2>2, <2>4, <2>5 DEF OwnAt
    <2> QED BY <1>1, <2>1, <2>4, <2>6, QuietStep DEF Holding
  <1> QED BY <1>3, <1>4

(* A run that is passed on through a lock is still the one that was shown. *)
LEMMA AdvanceCore ==
  ASSUME Core, NEW i \in Invocations, AdvanceStep(i)
  PROVE  Core'
  <1>1. CASE ObserveRows(i, "advance", "preview")
    BY <1>1, ObservePlain DEF Unchosen, Claiming, Holding
  <1>2. CASE TakeLock(i, "lock", "reobserve")
    <2>1. OwnAt("lock", job[i], runs) => OwnAt("reobserve", job[i], runs)
      BY DEF OwnAt, Unchosen
    <2> QED BY <1>2, <2>1, TakeStep DEF Holding
  <1>3. CASE ObserveRows(i, "reobserve", "recheck")
    BY <1>3, Reobserve
  <1> QED BY <1>1, <1>2, <1>3, PreviewStep, ConsentStep, RecheckStep, NextGroupStep,
             StartGroupStep, FinishGroupStep, FailGroupStep, ObserveAfterStep, AfterGroupStep
          DEF AdvanceStep

-----------------------------------------------------------------------------
(* ApprovalHandoff: what it does to the runs. *)
LEMMA ThrowStep ==
  ASSUME Core, NEW i \in Invocations, Throw(i)
  PROVE  Core'
  BY ReturnQuiet DEF Throw, Continued

LEMMA StaysStep ==
  ASSUME Core, NEW i \in Invocations, NEW to, Stays(i, to), to \notin Claiming \cup Holding,
         pc[i] \notin Unchosen \cup Holding
  PROVE  Core'
  BY PlainStay DEF Stays

(* A step that notes something of the handoff in the job. *)
LEMMA NotedStep ==
  ASSUME Core, NEW i \in Invocations, NEW to, Goto(i, to), to \notin Holding,
         pc[i] \notin Unchosen \cup Holding,
         to \notin Claiming \ {"write"},
         UNCHANGED <<runs, lock>>,
         NEW d \in Jobs, job' = [job EXCEPT ![i] = d],
         d.run = job[i].run, d.seen = job[i].seen, to = "write" => d.payload # 0
  PROVE  Core'
  <1>1. d.run \in RunIds /\ (d.seen.frozen => runs[d.run].frozen)
    BY Mine
  <1>2. CASE to # "write"
    BY <1>1, <1>2, PlainMove
  <1>3. CASE to = "write"
    <2>1. OwnAt("write", d, runs)
      BY <1>1, <1>3 DEF OwnAt
    <2> QED BY <1>3, <2>1, QuietStep DEF Goto
  <1> QED BY <1>2, <1>3

HandoffTyped ==
  /\ now \in 0 .. MaxClock
  /\ dir \in [RunIds -> Slot]
  /\ rotating \in [RunIds -> [Times -> Slot]] /\ archive \in [RunIds -> [Times -> Slot]]
  /\ written \subseteq RunIds \X (Times \ {0})
  /\ signed \subseteq Times

(* approveRun touches only a run with a profile. *)
LEMMA ApproveTyped ==
  ASSUME NEW r \in RunIds, runs[r] \in Row, SoundRow(runs[r]), NEW e \in Times, NEW sig,
         ApproveRun(r, e, sig)
  PROVE  \E row \in Row : /\ Write(r, row) /\ SoundRow(row)
                          /\ row.frozen = runs[r].frozen /\ row.status = runs[r].status
  <1> DEFINE row == IF Grants(runs[r], e, sig) THEN [runs[r] EXCEPT !.stages = 4, !.approval = e]
                                               ELSE runs[r]
  <1>1. Write(r, row)
    BY DEF ApproveRun
  <1>2. CASE Grants(runs[r], e, sig)
    <2>1. row = [runs[r] EXCEPT !.stages = 4, !.approval = e]
      BY <1>2
    <2>2. row \in Row /\ row.frozen = runs[r].frozen /\ row.status = runs[r].status
      <3> DEFINE four == [runs[r] EXCEPT !.stages = 4]
      <3>1. four \in Row /\ four.frozen = runs[r].frozen /\ four.status = runs[r].status
        BY DEF Row
      <3> HIDE DEF four
      <3> DEFINE both == [four EXCEPT !.approval = e]
      <3>2. both \in Row /\ both.frozen = four.frozen /\ both.status = four.status
        BY <3>1 DEF Row
      <3>3. row = both
        BY <2>1 DEF four
      <3> HIDE DEF row, both
      <3> QED BY <3>1, <3>2, <3>3
    <2>3. runs[r].frozen /\ SoundRow(row)
      BY <1>2, <2>2 DEF SoundRow, Grants, Bindable
    <2> HIDE DEF row
    <2> QED BY <1>1, <2>2, <2>3
  <1>3. CASE ~Grants(runs[r], e, sig)
    <2>1. row = runs[r]
      BY <1>3
    <2> HIDE DEF row
    <2> QED BY <1>1, <2>1
  <1> QED BY <1>2, <1>3

LEMMA SubmitCore ==
  ASSUME Core, NEW i \in Invocations, Submit(i)
  PROVE  Core'
  <1> DEFINE r == job[i].run
  <1>1. pc[i] = "submit"
    BY DEF Submit
  <1>2. job[i] \in Jobs /\ r \in RunIds /\ runs[r] \in Row /\ SoundRow(runs[r])
    BY <1>1, Mine DEF Unchosen
  <1>3. CASE Return(i, "error") /\ UNCHANGED runs
    BY <1>3, ReturnQuiet DEF Continued
  <1>4. CASE /\ ApproveRun(r, job[i].payload, job[i].sig)
             /\ Return(i, IF Grants(runs[r], job[i].payload, job[i].sig) THEN "approved" ELSE "error")
    <2>1. PICK row \in Row : /\ Write(r, row) /\ SoundRow(row)
                             /\ row.frozen = runs[r].frozen /\ row.status = runs[r].status
      BY <1>2, <1>4, ApproveTyped DEF Jobs
    <2> QED BY <1>1, <1>2, <1>4, <2>1, ReturnWrites DEF Holding
  <1> QED BY <1>3, <1>4 DEF Submit

LEMMA HandoffCore ==
  ASSUME Core, NEW i \in Invocations, HandoffStep(i), HandoffTyped
  PROVE  Core'
  <1>0. \A to : to \notin Claiming => to \notin Claiming \ {"write"} /\ to # "write"
    BY DEF Claiming
  <1> USE DEF Unchosen, Claiming, Holding
  <1>1. CASE ReadHandoff(i)
    <2> DEFINE e == dir[job[i].run].payload
               d == [job[i] EXCEPT !.payload = e]
    <2>1. pc[i] = "handoff" /\ job[i] \in Jobs /\ job[i].run \in RunIds
      BY <1>1, Mine DEF ReadHandoff
    <2>2. e \in Times
      BY <2>1 DEF HandoffTyped, Slot
    <2>3. d \in Jobs /\ d.run = job[i].run /\ d.seen = job[i].seen
      BY <2>1, <2>2 DEF Jobs
    <2>4. CASE Stays(i, "mint")
      BY <2>1, <2>4, StaysStep
    <2>5. CASE Throw(i)
      BY <2>5, ThrowStep
    <2>6. CASE /\ job' = [job EXCEPT ![i] = d]
               /\ Goto(i, IF Expired(e) THEN "rotate_check" ELSE "wait")
               /\ UNCHANGED <<runs, lock, held>>
      <3> DEFINE to == IF Expired(e) THEN "rotate_check" ELSE "wait"
      <3>1. to \in {"rotate_check", "wait"} /\ Goto(i, to)
        BY <2>6
      <3> HIDE DEF d, to
      <3>2. to \notin Holding /\ to \notin Claiming /\ to # "write"
        BY <3>1
      <3>3. pc[i] \notin Unchosen \cup Holding
        BY <2>1
      <3> USE DEF Goto
      <3> QED BY <2>3, <2>6, <3>1, <3>2, <3>3, NotedStep
    <2> QED BY <1>1, <2>4, <2>5, <2>6 DEF ReadHandoff
  <1>2. CASE RotateCheck(i)
    BY <1>2, ThrowStep, StaysStep DEF RotateCheck
  <1>3. CASE MoveAside(i)
    BY <1>3, StaysStep DEF MoveAside
  <1>4. CASE MovedIsExpired(i)
    BY <1>4, StaysStep DEF MovedIsExpired
  <1>5. CASE ArchiveExpired(i)
    BY <1>5, StaysStep DEF ArchiveExpired
  <1>6. CASE RestoreCheck(i)
    BY <1>6, ThrowStep, StaysStep DEF RestoreCheck
  <1>7. CASE Restore(i)
    BY <1>7, ThrowStep DEF Restore
  <1>8. CASE Mint(i)
    <2> DEFINE d == [job[i] EXCEPT !.payload = now + Life]
    <2>1. pc[i] = "mint" /\ job[i] \in Jobs /\ job[i].run \in RunIds
      BY <1>8, Mine DEF Mint
    <2>2. now + Life \in Times /\ now + Life # 0
      BY ClockBounds DEF HandoffTyped, Times
    <2>3. d \in Jobs /\ d.run = job[i].run /\ d.seen = job[i].seen /\ d.payload # 0
      BY <2>1, <2>2 DEF Jobs
    <2>4. CASE Throw(i)
      BY <2>4, ThrowStep
    <2>5. CASE /\ job' = [job EXCEPT ![i] = d] /\ Goto(i, "write")
               /\ UNCHANGED <<runs, lock, held>>
      <3> HIDE DEF d
      <3> QED BY <2>1, <2>3, <2>5, NotedStep
    <2> QED BY <1>8, <2>4, <2>5 DEF Mint
  <1>9. CASE WritePayload(i)
    BY <1>9, ThrowStep, StaysStep DEF WritePayload
  <1>10. CASE AwaitSignature(i)
    <2> DEFINE sig == dir[job[i].run].sig
               d == [job[i] EXCEPT !.sig = sig]
    <2>1. pc[i] = "wait" /\ job[i] \in Jobs /\ job[i].run \in RunIds
      BY <1>10, Mine DEF AwaitSignature
    <2>2. sig \in Times
      BY <2>1 DEF HandoffTyped, Slot
    <2>3. d \in Jobs /\ d.run = job[i].run /\ d.seen = job[i].seen
      BY <2>1, <2>2 DEF Jobs
    <2>4. CASE Return(i, "paused") /\ UNCHANGED <<runs, held>>
      BY <2>4, ReturnQuiet DEF Continued
    <2>5. CASE Stays(i, "reject")
      BY <2>1, <2>5, StaysStep
    <2>6. CASE job' = [job EXCEPT ![i] = d] /\ Goto(i, "confirm") /\ UNCHANGED <<runs, lock, held>>
      <3> HIDE DEF d
      <3>1. pc[i] \notin Unchosen \cup Holding
        BY <2>1
      <3>2. "confirm" \notin Holding /\ "confirm" \notin Claiming
        OBVIOUS
      <3> QED BY <2>3, <2>6, <3>1, <3>2, NotedStep
    <2> QED BY <1>10, <2>4, <2>5, <2>6 DEF AwaitSignature
  <1>11. CASE TakeLock(i, "reject", "rejecting")
    <2>1. OwnAt("reject", job[i], runs) => OwnAt("rejecting", job[i], runs)
      BY DEF OwnAt
    <2> QED BY <1>11, <2>1, TakeStep
  <1>12. CASE RecordReject(i)
    <2>1. pc[i] = "rejecting" /\ Return(i, "paused") /\ Write(job[i].run, runs[job[i].run])
      BY <1>12 DEF RecordReject
    <2> QED BY <2>1, Mine, ReturnWrites DEF Continued
  <1>13. CASE ConfirmSubmit(i)
    BY <1>13, ThrowStep, StaysStep DEF ConfirmSubmit
  <1>14. CASE TakeLock(i, "submit_lock", "submit")
    <2>1. OwnAt("submit_lock", job[i], runs) => OwnAt("submit", job[i], runs)
      BY DEF OwnAt
    <2> QED BY <1>14, <2>1, TakeStep
  <1>15. CASE Submit(i)
    BY <1>15, SubmitCore
  <1> QED BY <1>1, <1>2, <1>3, <1>4, <1>5, <1>6, <1>7, <1>8, <1>9, <1>10, <1>11, <1>12, <1>13,
             <1>14, <1>15 DEF HandoffStep

-----------------------------------------------------------------------------
(* GuidedCommand. *)
LEMMA ResumeStep ==
  ASSUME Core, NEW i \in Invocations, NEW r \in RunIds, NEW to, Resume(i, r, to),
         pc[i] = "idle", to \notin Claiming \cup Holding
  PROVE  Core'
  <1> DEFINE d == [job[i] EXCEPT !.run = r]
  <1>1. job[i] \in Jobs /\ ~job[i].seen.frozen
    BY Mine DEF OwnAt
  <1>2. d \in Jobs /\ d.run = r /\ d.seen = job[i].seen
    BY <1>1 DEF Jobs
  <1>3. UNCHANGED <<runs, lock>> /\ Goto(i, to) /\ job' = [job EXCEPT ![i] = d]
    BY DEF Resume, Goto
  <1>4. pc[i] \notin Holding
    BY DEF Holding
  <1> HIDE DEF d
  <1> QED BY <1>1, <1>2, <1>3, <1>4, PlainMove

LEMMA StartSessionStep ==
  ASSUME Core, NEW i \in Invocations, StartSession(i)
  PROVE  Core'
  <1>1. pc[i] = "idle"
    BY DEF StartSession
  <1>2. CASE SelectRun(i)
    <2>1. "snapshot" \notin Claiming \cup Holding
      BY DEF Claiming, Holding
    <2>2. CASE Throw(i)
      BY <2>2, ThrowStep
    <2>3. CASE \E r \in RunIds : Resume(i, r, "snapshot")
      BY <1>1, <2>1, <2>3, ResumeStep
    <2> QED BY <1>2, <2>2, <2>3 DEF SelectRun, Nonterminal, Terminal, Rows
  <1>3. CASE Stays(i, "create_lock")
    <2>1. OwnAt("create_lock", job[i], runs)
      BY <1>1, Mine DEF OwnAt, Unchosen
    <2>2. job[i] \in Jobs /\ pc[i] \notin Holding /\ "create_lock" \notin Holding
      BY <1>1, Mine DEF Holding
    <2> QED BY <1>3, <2>1, <2>2, Untouched, QuietStep DEF Stays, Goto
  <1> QED BY <1>2, <1>3 DEF StartSession

LEMMA Releases ==
  ASSUME Core, NEW i \in Invocations, pc[i] \in Holding
  PROVE  lock = {i} /\ lock \ {i} = {}
  BY DEF Core, Exclusive

LEMMA NewRunStep ==
  ASSUME Core, NEW i \in Invocations, pc[i] \in {"create", "intake"}, NewRun(i)
  PROVE  Core'
  <1> PICK r \in Rows({"absent"}) :
        /\ runs' = [runs EXCEPT ![r] = [Absent EXCEPT !.status = "in_progress"]]
        /\ job' = [job EXCEPT ![i].run = r]
    BY DEF NewRun
  <1> DEFINE d == [job[i] EXCEPT !.run = r]
             row == [Absent EXCEPT !.status = "in_progress"]
  <1>1. job[i] \in Jobs /\ ~job[i].seen.frozen
    BY Mine DEF OwnAt
  <1>2. r \in RunIds /\ ~runs[r].frozen
    BY DEF Rows, Core, SoundRow
  <1>3. row \in Row /\ SoundRow(row)
    BY AbsentTyped DEF Row, SoundRow
  <1>4. /\ job' = [job EXCEPT ![i] = d] /\ runs' = [runs EXCEPT ![r] = row]
        /\ pc' = [pc EXCEPT ![i] = "created"] /\ lock' = lock
    BY DEF NewRun, Goto
  <1>5. d \in Jobs /\ d.run = r /\ d.seen = job[i].seen
    BY <1>1, <1>2 DEF Jobs
  <1> HIDE DEF d, row
  <1>6. "created" \in Holding /\ pc[i] \in Holding
    BY DEF Holding
  <1>7. runs'[r].status # "absent"
    <2>1. row.status # "absent"
      BY DEF row, Absent
    <2> QED BY <1>2, <1>4, <2>1 DEF Core
  <1>8. OwnAt("created", d, runs')
    BY <1>1, <1>2, <1>5, <1>7 DEF OwnAt
  <1> QED BY <1>2, <1>3, <1>4, <1>5, <1>6, <1>8, WriteStep

LEMMA CreateStep ==
  ASSUME Core, NEW i \in Invocations, Create(i)
  PROVE  Core'
  <1>1. pc[i] = "create" /\ "create" \in Holding
    BY DEF Create, Holding
  <1>2. job[i] \in Jobs /\ ~job[i].seen.frozen
    BY <1>1, Mine DEF OwnAt
  <1>3. ASSUME NEW r \in RunIds
        PROVE  LET d == [job[i] EXCEPT !.run = r]
               IN  d \in Jobs /\ d.run = r /\ d.seen = job[i].seen
    BY <1>2 DEF Jobs
  <1>4. CASE NewRun(i)
    BY <1>1, <1>4, NewRunStep
  <1>5. CASE Throw(i)
    BY <1>5, ThrowStep
  <1>6. ASSUME NEW r \in RunIds, job' = [job EXCEPT ![i].run = r], Goto(i, "snapshot"), lock' = {},
               UNCHANGED <<runs, held>>
        PROVE  Core'
    <2> DEFINE d == [job[i] EXCEPT !.run = r]
    <2>1. d \in Jobs /\ d.run = r /\ d.seen = job[i].seen /\ job' = [job EXCEPT ![i] = d]
      BY <1>3, <1>6
    <2> HIDE DEF d
    <2>2. "snapshot" \notin Holding /\ "snapshot" \notin Claiming
      BY DEF Holding, Claiming
    <2>3. OwnAt("snapshot", d, runs)
      BY <1>2, <2>1, <2>2, PlainOwn
    <2>4. lock' = lock \ {i} /\ pc' = [pc EXCEPT ![i] = "snapshot"] /\ runs' = runs
      BY <1>1, <1>6, Releases DEF Goto
    <2> QED BY <2>1, <2>2, <2>3, <2>4, QuietStep
  <1> QED BY <1>4, <1>5, <1>6 DEF Create

(* A write after which the intake goes on, or lets go of the lock. *)
LEMMA IntakeWrites ==
  ASSUME Core, NEW i \in Invocations, pc[i] \in Holding \ Unchosen,
         NEW to, Goto(i, to), to \notin Claiming \ {"freeze"},
         NEW row \in Row, Write(job[i].run, row), SoundRow(row),
         to = "freeze" => row.status # "absent",
         runs[job[i].run].frozen => row.frozen,
         NEW d \in Jobs, job' = [job EXCEPT ![i] = d], d.run = job[i].run, d.seen = job[i].seen,
         IF to \in Holding THEN lock' = lock ELSE lock' = {}
  PROVE  Core'
  <1>1. job[i].run \in RunIds /\ (job[i].seen.frozen => runs[job[i].run].frozen)
    BY Mine
  <1>2. PICK n \in Row :
           /\ runs' = [runs EXCEPT ![job[i].run] = n]
           /\ n.version = row.version + 1 /\ n.status = row.status /\ n.frozen = row.frozen
           /\ n.stages = row.stages /\ n.intact = row.intact
    BY <1>1, WriteRow, Zenon
  <1>3. SoundRow(n) /\ (runs[job[i].run].frozen => n.frozen) /\ runs'[job[i].run] = n
    BY <1>1, <1>2 DEF SoundRow, Core
  <1>4. OwnAt(to, d, runs')
    <2>1. CASE to # "freeze"
      BY <1>1, <1>2, <1>3, <2>1, PlainOwn
    <2>2. CASE to = "freeze"
      BY <1>1, <1>2, <1>3, <2>2 DEF OwnAt
    <2> QED BY <2>1, <2>2
  <1> QED BY <1>1, <1>2, <1>3, <1>4, Releases, WriteStep DEF Goto

LEMMA RecordCreateStep ==
  ASSUME Core, NEW i \in Invocations, RecordCreate(i)
  PROVE  Core'
  <1>1. pc[i] = "created" /\ pc[i] \in Holding \ Unchosen
    BY DEF RecordCreate, Holding, Unchosen
  <1>2. CASE Throw(i)
    BY <1>2, ThrowStep
  <1>3. CASE Write(job[i].run, runs[job[i].run]) /\ Goto(i, "freeze") /\ UNCHANGED <<lock, held, job>>
    <2>1. "freeze" \in Holding /\ runs[job[i].run].status # "absent"
      BY <1>1, Mine DEF OwnAt, Holding
    <2> QED BY <1>1, <1>3, <2>1, Mine, Untouched, IntakeWrites
  <1> QED BY <1>2, <1>3 DEF RecordCreate

LEMMA FreezeStep ==
  ASSUME Core, NEW i \in Invocations, Freeze(i)
  PROVE  Core'
  <1> DEFINE r == job[i].run
             row == [runs[r] EXCEPT !.frozen = TRUE]
  <1>1. pc[i] = "freeze" /\ pc[i] \in Holding \ Unchosen /\ UNCHANGED <<lock, held, job>>
    BY DEF Freeze, Holding, Unchosen
  <1>2. job[i] \in Jobs /\ r \in RunIds /\ runs[r] \in Row /\ SoundRow(runs[r])
    BY <1>1, Mine
  <1>3. CASE Write(r, row) /\ Goto(i, "frozen")
    <2>1. "frozen" \notin Claiming /\ "frozen" \in Holding
      BY DEF Claiming, Holding
    <2>2. row \in Row /\ row.status = runs[r].status /\ row.frozen
      BY <1>2 DEF Row
    <2>3. SoundRow(row)
      BY <1>1, <2>2, Mine DEF SoundRow, OwnAt
    <2> HIDE DEF row
    <2> QED BY <1>1, <1>2, <1>3, <2>1, <2>2, <2>3, Untouched, IntakeWrites
  <1>4. CASE Goto(i, "freeze_failed") /\ UNCHANGED runs
    <2>1. "freeze_failed" \notin Claiming /\ "freeze_failed" \in Holding
      BY DEF Claiming, Holding
    <2> QED BY <1>1, <1>4, <2>1, PlainStay
  <1> QED BY <1>1, <1>3, <1>4 DEF Freeze

LEMMA RecordFreezeStep ==
  ASSUME Core, NEW i \in Invocations, RecordFreeze(i)
  PROVE  Core'
  <1>1. pc[i] = "frozen" /\ pc[i] \in Holding \ Unchosen
    BY DEF RecordFreeze, Holding, Unchosen
  <1>2. CASE Write(job[i].run, runs[job[i].run]) /\ Goto(i, "snapshot") /\ lock' = {} /\ UNCHANGED job
    <2>1. "snapshot" \notin Claiming /\ "snapshot" \notin Holding /\ "snapshot" # "freeze"
      BY DEF Claiming, Holding
    <2> QED BY <1>1, <1>2, <2>1, Mine, Untouched, IntakeWrites
  <1>3. CASE Write(job[i].run, runs[job[i].run]) /\ Return(i, "done")
    BY <1>1, <1>3, Mine, ReturnWrites DEF Continued
  <1>4. CASE Goto(i, "freeze_failed") /\ UNCHANGED <<runs, lock, job>>
    <2>1. "freeze_failed" \notin Claiming /\ "freeze_failed" \in Holding
      BY DEF Claiming, Holding
    <2> QED BY <1>1, <1>4, <2>1, PlainStay
  <1> QED BY <1>2, <1>3, <1>4 DEF RecordFreeze

LEMMA FailFreezeStep ==
  ASSUME Core, NEW i \in Invocations, FailFreeze(i)
  PROVE  Core'
  <1> DEFINE r == job[i].run
             row == [runs[r] EXCEPT !.status = "blocked"]
  <1>1. pc[i] = "freeze_failed" /\ pc[i] \in Holding /\ Return(i, "error")
    BY DEF FailFreeze, Holding
  <1>2. r \in RunIds /\ runs[r] \in Row /\ SoundRow(runs[r])
    BY <1>1, Mine DEF Unchosen
  <1>3. CASE UNCHANGED runs
    BY <1>1, <1>3, ReturnQuiet DEF Continued
  <1>4. CASE Write(r, row)
    <2>1. row \in Row /\ SoundRow(row) /\ row.frozen = runs[r].frozen
      BY <1>2 DEF Row, SoundRow
    <2> HIDE DEF row
    <2> QED BY <1>1, <1>2, <1>4, <2>1, ReturnWrites DEF Continued
  <1> QED BY <1>3, <1>4 DEF FailFreeze

LEMMA HandOverStep ==
  ASSUME Core, NEW i \in Invocations, HandOver(i)
  PROVE  Core'
  <1>1. pc[i] = "dispatch" /\ UNCHANGED <<runs, lock>>
    BY DEF HandOver
  <1>2. job[i] \in Jobs /\ job[i].run \in RunIds
    BY <1>1, Mine DEF Unchosen
  <1>3. PICK b \in Boundary(i) :
          /\ job' = [job EXCEPT ![i] = [Idle EXCEPT !.run = job[i].run, !.then = "snapshot",
                       !.handed = IF b = "decide" THEN {b} ELSE {"decide", "approval"}]]
          /\ Goto(i, IF b = "decide" THEN "ask" ELSE "handoff")
    BY DEF HandOver
  <1> DEFINE h == IF b = "decide" THEN {b} ELSE {"decide", "approval"}
             d == [Idle EXCEPT !.run = job[i].run, !.then = "snapshot", !.handed = h]
             to == IF b = "decide" THEN "ask" ELSE "handoff"
  <1>4. h \in SUBSET {"decide", "approval"} /\ to \in {"ask", "handoff"}
    OBVIOUS
  <1>5. job' = [job EXCEPT ![i] = d] /\ Goto(i, to)
    BY <1>3
  <1> HIDE DEF h, to
  <1>6. d \in Jobs /\ d.run = job[i].run /\ d.seen = Absent
    BY <1>2, <1>4, IdleTyped DEF Jobs
  <1> HIDE DEF d
  <1>7. to \notin Claiming \cup Holding /\ pc[i] \notin Holding
    BY <1>1, <1>4 DEF Claiming, Holding
  <1> QED BY <1>1, <1>2, <1>5, <1>6, <1>7, AbsentTyped, PlainMove

LEMMA EnterGroupsStep ==
  ASSUME Core, NEW i \in Invocations, EnterGroups(i)
  PROVE  Core'
  <1> DEFINE d == [Idle EXCEPT !.run = job[i].run, !.then = "advance"]
  <1>1. /\ pc[i] = "dispatch" /\ UNCHANGED <<runs, lock>>
        /\ job' = [job EXCEPT ![i] = d] /\ Goto(i, "advance")
    BY DEF EnterGroups
  <1>2. job[i] \in Jobs /\ job[i].run \in RunIds
    BY <1>1, Mine DEF Unchosen
  <1>3. d \in Jobs /\ d.run = job[i].run /\ d.seen = Absent
    BY <1>2, IdleTyped DEF Jobs
  <1> HIDE DEF d
  <1>4. "advance" \notin Claiming \cup Holding /\ pc[i] \notin Holding
    BY <1>1 DEF Claiming, Holding
  <1> QED BY <1>1, <1>2, <1>3, <1>4, AbsentTyped, PlainMove

LEMMA AskStep ==
  ASSUME Core, NEW i \in Invocations, Ask(i)
  PROVE  Core'
  <1> DEFINE d == [job[i] EXCEPT !.todo = job[i].seen.open, !.seen = Absent]
  <1>1. pc[i] = "ask_check"
    BY DEF Ask
  <1>2. job[i] \in Jobs /\ job[i].run \in RunIds
    BY <1>1, Mine DEF Unchosen
  <1>3. CASE Throw(i)
    BY <1>3, ThrowStep
  <1>4. CASE Eligible(i)
    <2>1. UNCHANGED <<runs, lock>> /\ job' = [job EXCEPT ![i] = d] /\ Goto(i, "question")
      BY <1>2, <1>4 DEF Ask, Core
    <2>2. d \in Jobs /\ d.run = job[i].run /\ d.seen = Absent
      BY <1>2, AbsentTyped DEF Jobs, Row
    <2> HIDE DEF d
    <2>3. "question" \notin Claiming \cup Holding /\ pc[i] \notin Holding
      BY <1>1 DEF Claiming, Holding
    <2> QED BY <1>1, <1>2, <2>1, <2>2, <2>3, AbsentTyped, PlainMove
  <1> QED BY <1>3, <1>4 DEF Ask

LEMMA DecideStep ==
  ASSUME Core, NEW i \in Invocations, Decide(i)
  PROVE  Core'
  <1>1. pc[i] = "question" /\ pc[i] \notin Unchosen \cup Holding /\ job[i].run \in RunIds
    BY Mine DEF Decide, Unchosen, Holding
  <1>2. CASE Stays(i, "answer_lock")
    <2>1. "answer_lock" \notin Claiming \cup Holding
      BY DEF Claiming, Holding
    <2> QED BY <1>1, <1>2, <2>1, StaysStep
  <1>3. CASE \E out : Return(i, out) /\ UNCHANGED runs
    BY <1>1, <1>3, ReturnQuiet
  <1> QED BY <1>2, <1>3 DEF Decide

(* answerQuestion closes a question and changes nothing else. *)
LEMMA AnswerTyped ==
  ASSUME NEW r \in RunIds, runs[r] \in Row, SoundRow(runs[r]), NEW q, AnswerQuestion(r, q)
  PROVE  \E row \in Row : /\ Write(r, row) /\ SoundRow(row)
                          /\ row.frozen = runs[r].frozen /\ row.status = runs[r].status
  <1> DEFINE fewer == [runs[r] EXCEPT !.open = runs[r].open \ {q}]
  <1>1. fewer \in Row /\ SoundRow(fewer) /\ fewer.frozen = runs[r].frozen /\ fewer.status = runs[r].status
    BY DEF Row, SoundRow
  <1>2. Write(r, IF Accepts(runs[r], q) THEN fewer ELSE runs[r])
    BY DEF AnswerQuestion
  <1> HIDE DEF fewer
  <1>3. CASE Accepts(runs[r], q)
    BY <1>1, <1>2, <1>3
  <1>4. CASE ~Accepts(runs[r], q)
    BY <1>2, <1>4
  <1> QED BY <1>3, <1>4

LEMMA AnswerStep ==
  ASSUME Core, NEW i \in Invocations, Answer(i)
  PROVE  Core'
  <1> DEFINE q == Min(job[i].todo)
             r == job[i].run
             d == [job[i] EXCEPT !.todo = job[i].todo \ {q}]
  <1>1. pc[i] = "answer" /\ pc[i] \in Holding \ Unchosen /\ AnswerQuestion(r, q)
    BY DEF Answer, Holding, Unchosen
  <1>2. job[i] \in Jobs /\ r \in RunIds /\ runs[r] \in Row /\ SoundRow(runs[r])
    BY <1>1, Mine
  <1>3. PICK row \in Row : /\ Write(r, row) /\ SoundRow(row)
                          /\ row.frozen = runs[r].frozen /\ row.status = runs[r].status
    BY <1>1, <1>2, AnswerTyped
  <1>4. CASE Accepts(runs[r], q)
    <2>1. job' = [job EXCEPT ![i] = d] /\ Goto(i, "question") /\ lock' = {}
      BY <1>4 DEF Answer
    <2>2. d \in Jobs /\ d.run = job[i].run /\ d.seen = job[i].seen
      <3> HIDE DEF q
      <3> QED BY <1>2 DEF Jobs
    <2> HIDE DEF d, q
    <2>3. "question" \notin Claiming /\ "question" \notin Holding /\ "question" # "freeze"
      BY DEF Claiming, Holding
    <2> QED BY <1>1, <1>2, <1>3, <2>1, <2>2, <2>3, IntakeWrites
  <1>5. CASE ~Accepts(runs[r], q)
    <2>1. Return(i, "error")
      BY <1>5 DEF Answer
    <2> QED BY <1>1, <1>2, <1>3, <2>1, ReturnWrites DEF Continued
  <1> QED BY <1>4, <1>5

LEMMA ContinueStep ==
  ASSUME Core, NEW i \in Invocations, Continue(i)
  PROVE  Core'
  <1>1. pc[i] = "returned" /\ pc[i] \notin Unchosen \cup Holding /\ UNCHANGED <<runs, lock>>
    BY DEF Continue, Unchosen, Holding
  <1>2. job[i] \in Jobs /\ job[i].run \in RunIds /\ (job[i].seen.frozen => runs[job[i].run].frozen)
    BY <1>1, Mine
  <1>3. CASE Goto(i, job[i].then) /\ UNCHANGED job
    <2>1. job[i].then \in {"end", "snapshot", "advance"}
      BY <1>2 DEF Jobs
    <2>2. job[i].then \notin Claiming \cup Holding
      BY <2>1 DEF Claiming, Holding
    <2> QED BY <1>1, <1>3, <2>2, PlainStay
  <1>4. ASSUME NEW h \in SUBSET {"decide", "approval"}, NEW to \in {"ask", "handoff"},
               job' = [job EXCEPT ![i].handed = h], Goto(i, to)
        PROVE  Core'
    <2> DEFINE d == [job[i] EXCEPT !.handed = h]
    <2>1. job' = [job EXCEPT ![i] = d]
      BY <1>4
    <2>2. d \in Jobs /\ d.run = job[i].run /\ d.seen = job[i].seen
      BY <1>2 DEF Jobs
    <2> HIDE DEF d
    <2>3. to \notin Claiming \cup Holding
      BY DEF Claiming, Holding
    <2> QED BY <1>1, <1>2, <1>4, <2>1, <2>2, <2>3, PlainMove
  <1> QED BY <1>3, <1>4 DEF Continue

LEMMA SessionCore ==
  ASSUME Core, HandoffTyped, NEW i \in Invocations, SessionStep(i)
  PROVE  Core'
  <1>1. CASE TakeLock(i, "create_lock", "create")
    <2>1. OwnAt("create_lock", job[i], runs) => OwnAt("create", job[i], runs)
      BY DEF OwnAt, Unchosen
    <2> QED BY <1>1, <2>1, TakeStep DEF Holding
  <1>2. CASE TakeLock(i, "answer_lock", "answer")
    <2>1. OwnAt("answer_lock", job[i], runs) => OwnAt("answer", job[i], runs)
      BY DEF OwnAt, Unchosen
    <2> QED BY <1>2, <2>1, TakeStep DEF Holding
  <1>3. CASE ObserveRows(i, "snapshot", "dispatch")
    BY <1>3, ObservePlain DEF Unchosen, Claiming, Holding
  <1>4. CASE ObserveRows(i, "ask", "ask_check")
    BY <1>4, ObservePlain DEF Unchosen, Claiming, Holding
  <1>5. CASE ReportClosed(i)
    <2>1. pc[i] = "dispatch" /\ Return(i, job[i].seen.status) /\ runs' = runs
      BY <1>5 DEF ReportClosed
    <2>2. job[i].run \in RunIds
      BY <2>1, Mine DEF Unchosen
    <2> QED BY <2>1, <2>2, ReturnQuiet
  <1>6. CASE HandoffStep(i)
    BY <1>6, HandoffCore
  <1> QED BY <1>1, <1>2, <1>3, <1>4, <1>5, <1>6, StartSessionStep, CreateStep, RecordCreateStep,
             FreezeStep, RecordFreezeStep, FailFreezeStep, HandOverStep, EnterGroupsStep, AskStep,
             DecideStep, AnswerStep, ContinueStep
          DEF SessionStep

LEMMA RunnerCore ==
  ASSUME Core, NEW i \in Invocations, StartRunner(i)
  PROVE  Core'
  <1>1. pc[i] = "idle" /\ \E r \in RunIds : Resume(i, r, "advance")
    BY DEF StartRunner
  <1>2. "advance" \notin Claiming \cup Holding
    BY DEF Claiming, Holding
  <1> QED BY <1>1, <1>2, ResumeStep

LEMMA IntakeCore ==
  ASSUME Core, NEW i \in Invocations, TakeLock(i, "idle", "intake") \/ Intake(i)
  PROVE  Core'
  <1>1. CASE TakeLock(i, "idle", "intake")
    <2>1. OwnAt("idle", job[i], runs) => OwnAt("intake", job[i], runs)
      BY DEF OwnAt, Unchosen
    <2> QED BY <1>1, <2>1, TakeStep DEF Holding
  <1>2. CASE Intake(i)
    BY <1>2, NewRunStep, ThrowStep DEF Intake
  <1> QED BY <1>1, <1>2

(* A request notes what was submitted. *)
LEMMA SubmittedStep ==
  ASSUME Core, NEW i \in Invocations, pc[i] = "idle", NEW to, Goto(i, to),
         to \notin Claiming \cup Holding, UNCHANGED <<runs, lock>>,
         NEW d \in Jobs, job' = [job EXCEPT ![i] = d], d.run \in RunIds, d.seen = job[i].seen
  PROVE  Core'
  <1>1. ~d.seen.frozen /\ pc[i] \notin Holding
    BY Mine DEF OwnAt, Holding
  <1> QED BY <1>1, PlainMove

LEMMA RequestCore ==
  ASSUME Core, HandoffTyped, NEW i \in Invocations, RequestStep(i)
  PROVE  Core'
  <1>0. /\ "post_approval" \notin Claiming \cup Holding
        /\ "post_decision" \notin Claiming \cup Holding
    BY DEF Claiming, Holding
  <1>1. job[i] \in Jobs /\ now + Life \in Times
    BY Mine, ClockBounds DEF HandoffTyped, Times
  <1>3. CASE RequestApproval(i)
    <2>1. PICK r \in RunIds :
            job' = [job EXCEPT ![i].run = r, ![i].payload = now + Life, ![i].sig = now + Life]
      BY <1>3 DEF RequestApproval
    <2> DEFINE d == [job[i] EXCEPT !.run = r, !.payload = now + Life, !.sig = now + Life]
    <2>2. d \in Jobs /\ d.run = r /\ d.seen = job[i].seen
      BY <1>1 DEF Jobs
    <2>3. job' = [job EXCEPT ![i] = d]
      BY <2>1 DEF Core
    <2> HIDE DEF d
    <2>4. pc[i] = "idle" /\ Goto(i, "post_approval") /\ UNCHANGED <<runs, lock>>
      BY <1>3 DEF RequestApproval
    <2> QED BY <1>0, <2>2, <2>3, <2>4, SubmittedStep
  <1>4. CASE PostApproval(i)
    <2>0. PICK r \in RunIds, s \in signed : \E e \in {s, now + Life} :
            job' = [job EXCEPT ![i].run = r, ![i].payload = e, ![i].sig = s]
      BY <1>4 DEF PostApproval
    <2>1. PICK e \in {s, now + Life} :
            job' = [job EXCEPT ![i].run = r, ![i].payload = e, ![i].sig = s]
      BY <2>0
    <2> DEFINE d == [job[i] EXCEPT !.run = r, !.payload = e, !.sig = s]
    <2>2. d \in Jobs /\ d.run = r /\ d.seen = job[i].seen
      <3>1. e \in Times /\ s \in Times
        BY <1>1 DEF HandoffTyped
      <3> QED BY <1>1, <3>1 DEF Jobs
    <2>3. job' = [job EXCEPT ![i] = d]
      BY <2>1 DEF Core
    <2> HIDE DEF d
    <2>4. pc[i] = "idle" /\ Goto(i, "post_approval") /\ UNCHANGED <<runs, lock>>
      BY <1>4 DEF PostApproval
    <2> QED BY <1>0, <2>2, <2>3, <2>4, SubmittedStep
  <1>5. CASE PostDecision(i)
    <2>1. PICK r \in RunIds, q \in Questions : job' = [job EXCEPT ![i].run = r, ![i].todo = {q}]
      BY <1>5 DEF PostDecision
    <2> DEFINE d == [job[i] EXCEPT !.run = r, !.todo = {q}]
    <2>2. d \in Jobs /\ d.run = r /\ d.seen = job[i].seen
      BY <1>1 DEF Jobs
    <2>3. job' = [job EXCEPT ![i] = d]
      BY <2>1 DEF Core
    <2> HIDE DEF d
    <2>4. pc[i] = "idle" /\ Goto(i, "post_decision") /\ UNCHANGED <<runs, lock>>
      BY <1>5 DEF PostDecision
    <2> QED BY <1>0, <2>2, <2>3, <2>4, SubmittedStep
  <1>6. CASE TakeLock(i, "post_approval", "approving")
    <2>1. OwnAt("post_approval", job[i], runs) => OwnAt("approving", job[i], runs)
      BY DEF OwnAt, Unchosen
    <2> QED BY <1>6, <2>1, TakeStep DEF Holding
  <1>7. CASE TakeLock(i, "post_decision", "deciding")
    <2>1. OwnAt("post_decision", job[i], runs) => OwnAt("deciding", job[i], runs)
      BY DEF OwnAt, Unchosen
    <2> QED BY <1>7, <2>1, TakeStep DEF Holding
  <1>8. CASE SubmitApproval(i)
    <2>1. /\ pc[i] = "approving" /\ pc[i] \in Holding \ Unchosen
          /\ ApproveRun(job[i].run, job[i].payload, job[i].sig) /\ Return(i, "done")
      BY <1>8 DEF SubmitApproval, Holding, Unchosen
    <2>2. job[i].run \in RunIds /\ runs[job[i].run] \in Row /\ SoundRow(runs[job[i].run])
      BY <2>1, Mine
    <2>3. PICK row \in Row : /\ Write(job[i].run, row) /\ SoundRow(row)
                             /\ row.frozen = runs[job[i].run].frozen
      BY <1>1, <2>1, <2>2, ApproveTyped DEF Jobs
    <2> QED BY <2>1, <2>2, <2>3, ReturnWrites DEF Continued
  <1>9. CASE SubmitDecision(i)
    <2>1. /\ pc[i] = "deciding" /\ pc[i] \in Holding \ Unchosen
          /\ \E q : AnswerQuestion(job[i].run, q)
          /\ Return(i, "done")
      BY <1>9 DEF SubmitDecision, Holding, Unchosen
    <2>2. job[i].run \in RunIds /\ runs[job[i].run] \in Row /\ SoundRow(runs[job[i].run])
      BY <2>1, Mine
    <2>3. PICK row \in Row : /\ Write(job[i].run, row) /\ SoundRow(row)
                             /\ row.frozen = runs[job[i].run].frozen
      BY <2>1, <2>2, AnswerTyped
    <2> QED BY <2>1, <2>2, <2>3, ReturnWrites DEF Continued
  <1> QED BY <1>3, <1>4, <1>5, <1>6, <1>7, <1>8, <1>9 DEF RequestStep

LEMMA DieCore ==
  ASSUME Core, NEW i \in Invocations, Die(i)
  PROVE  Core'
  <1>1. /\ pc' = [pc EXCEPT ![i] = "ended"] /\ job' = [job EXCEPT ![i] = Idle]
        /\ lock' = lock \ {i} /\ runs' = runs
    BY DEF Die, Goto
  <1>2. OwnAt("ended", Idle, runs)
    BY EndOwn, IdleTyped, AbsentTyped
  <1> QED BY <1>1, <1>2, IdleTyped, QuietStep DEF Holding

LEMMA CoreStep == Core /\ HandoffTyped /\ [Next]_vars => Core'
  <1> SUFFICES ASSUME Core, HandoffTyped, [Next]_vars
               PROVE  Core'
    OBVIOUS
  <1>1. CASE UNCHANGED opVars
    BY <1>1 DEF opVars, Core, Exclusive
  <1>2. CASE \E i \in Invocations :
               \/ SessionStep(i) \/ StartRunner(i) \/ RequestStep(i) \/ AdvanceStep(i) \/ Die(i)
               \/ TakeLock(i, "idle", "intake") \/ Intake(i)
    BY <1>2, SessionCore, RunnerCore, RequestCore, AdvanceCore, DieCore, IntakeCore
  <1>3. CASE EditFile
    BY <1>3 DEF EditFile, Core, Exclusive
  <1> QED BY <1>1, <1>2, <1>3 DEF Next, Step, Sign, Discard, Tick, vars

LEMMA CoreInit == Init => Core
  <1> SUFFICES ASSUME NEW s \in Scenes, runs = s.rows, lock = {},
                      pc = [i \in Invocations |-> IF i \in s.who THEN "idle" ELSE "ended"],
                      job = [i \in Invocations |-> Idle]
               PROVE  Core
    BY DEF Init
  <1>1. runs \in [RunIds -> Row] /\ \A r \in RunIds : SoundRow(runs[r])
    BY ScenesAreLeft DEF SoundRow
  <1>2. job \in [Invocations -> Jobs] /\ DOMAIN pc = Invocations
    BY IdleTyped
  <1>3. \A i \in Invocations : pc[i] \in {"idle", "ended"} /\ job[i] = Idle
    OBVIOUS
  <1>4. Exclusive
    BY <1>3 DEF Exclusive, Holding
  <1>5. \A p \in {"idle", "ended"} : OwnAt(p, Idle, runs)
    BY IdleTyped, AbsentTyped DEF OwnAt, Unchosen
  <1> QED BY <1>1, <1>2, <1>3, <1>4, <1>5 DEF Core

-----------------------------------------------------------------------------
(* The handoff directory: where a payload can lie. *)
Lies(w) ==
  \/ dir[w[1]].payload = w[2]
  \/ \E e \in Times : rotating[w[1]][e].payload = w[2] \/ archive[w[1]][e].payload = w[2]

HandoffInv == HandoffTyped /\ \A w \in written : Lies(w)

LEMMA NoneTyped == None \in Slot /\ Empty \in Slot /\ None.payload = 0 /\ Empty.payload = 0
  <1>1. 0 \in Times
    BY ClockBounds DEF Times
  <1>2. None \in Slot /\ None.payload = 0
    BY <1>1 DEF None, Slot
  <1>3. Empty \in Slot /\ Empty.payload = 0
    BY <1>1 DEF Empty, None, Slot
  <1> QED BY <1>2, <1>3

LEMMA ReplacedIsEmpty ==
  ASSUME NEW d, Replaceable(d)
  PROVE  d.payload = 0
  BY NoneTyped DEF Replaceable

(* A directory moves: what it replaces held no payload. *)
LEMMA MoveAsideHandoff ==
  ASSUME HandoffInv, Core, NEW i \in Invocations, MoveAside(i)
  PROVE  HandoffInv'
  <1> DEFINE r == job[i].run
             e == job[i].payload
  <1>1. r \in RunIds /\ e \in Times
    BY Mine DEF MoveAside, Unchosen, Jobs
  <1>2. CASE dir[r].there /\ Replaceable(rotating[r][e])
    <2>1. /\ rotating' = [rotating EXCEPT ![r][e] = dir[r]]
          /\ dir' = [dir EXCEPT ![r] = None]
          /\ UNCHANGED <<now, archive, written, signed>>
      BY <1>2 DEF MoveAside
    <2> HIDE DEF r, e
    <2>2. HandoffTyped'
      BY <1>1, <2>1, NoneTyped DEF HandoffInv, HandoffTyped
    <2>3. /\ rotating'[r][e] = dir[r] /\ rotating[r][e].payload = 0
          /\ \A q \in RunIds, f \in Times : <<q, f>> # <<r, e>> => rotating'[q][f] = rotating[q][f]
          /\ \A q \in RunIds : q # r => dir'[q] = dir[q]
      BY <1>1, <1>2, <2>1, ReplacedIsEmpty DEF HandoffInv, HandoffTyped
    <2>4. ASSUME NEW w \in written
          PROVE  Lies(w)'
      <3>1. w[1] \in RunIds /\ w[2] # 0
        BY DEF HandoffInv, HandoffTyped
      <3>2. CASE dir[w[1]].payload = w[2]
        BY <1>1, <2>1, <2>3, <3>1, <3>2 DEF Lies
      <3>3. CASE \E f \in Times : rotating[w[1]][f].payload = w[2]
        <4>1. PICK f \in Times : rotating[w[1]][f].payload = w[2]
          BY <3>3
        <4>2. <<w[1], f>> # <<r, e>>
          BY <2>3, <3>1, <4>1
        <4>3. rotating'[w[1]][f].payload = w[2]
          BY <2>3, <3>1, <4>1, <4>2
        <4> QED BY <4>3 DEF Lies
      <3>4. CASE \E f \in Times : archive[w[1]][f].payload = w[2]
        BY <2>1, <3>4 DEF Lies
      <3> QED BY <3>2, <3>3, <3>4 DEF HandoffInv, Lies
    <2> QED BY <2>1, <2>2, <2>4 DEF HandoffInv
  <1>3. CASE UNCHANGED handoffVars
    BY <1>3 DEF handoffVars, dirVars, HandoffInv, HandoffTyped, Lies
  <1> QED BY <1>2, <1>3 DEF MoveAside, handoffVars, dirVars

LEMMA ArchiveHandoff ==
  ASSUME HandoffInv, Core, NEW i \in Invocations, ArchiveExpired(i)
  PROVE  HandoffInv'
  <1> DEFINE r == job[i].run
             e == job[i].payload
  <1>1. r \in RunIds /\ e \in Times
    BY Mine DEF ArchiveExpired, Unchosen, Jobs
  <1>2. CASE rotating[r][e].there /\ Replaceable(archive[r][e])
    <2>1. /\ archive' = [archive EXCEPT ![r][e] = rotating[r][e]]
          /\ rotating' = [rotating EXCEPT ![r][e] = None]
          /\ UNCHANGED <<now, dir, written, signed>>
      BY <1>2 DEF ArchiveExpired
    <2> HIDE DEF r, e
    <2>2. HandoffTyped'
      BY <1>1, <2>1, NoneTyped DEF HandoffInv, HandoffTyped
    <2>3. /\ archive'[r][e] = rotating[r][e] /\ archive[r][e].payload = 0
          /\ \A q \in RunIds, f \in Times : <<q, f>> # <<r, e>> =>
               rotating'[q][f] = rotating[q][f] /\ archive'[q][f] = archive[q][f]
      BY <1>1, <1>2, <2>1, ReplacedIsEmpty DEF HandoffInv, HandoffTyped
    <2>4. ASSUME NEW w \in written
          PROVE  Lies(w)'
      <3>1. w[1] \in RunIds /\ w[2] # 0
        BY DEF HandoffInv, HandoffTyped
      <3>2. CASE dir[w[1]].payload = w[2]
        BY <2>1, <3>2 DEF Lies
      <3>3. CASE \E f \in Times : rotating[w[1]][f].payload = w[2]
        <4>1. PICK f \in Times : rotating[w[1]][f].payload = w[2]
          BY <3>3
        <4>2. rotating'[w[1]][f].payload = w[2] \/ archive'[w[1]][f].payload = w[2]
          BY <2>3, <3>1, <4>1
        <4> QED BY <4>2 DEF Lies
      <3>4. CASE \E f \in Times : archive[w[1]][f].payload = w[2]
        <4>1. PICK f \in Times : archive[w[1]][f].payload = w[2]
          BY <3>4
        <4>2. archive'[w[1]][f].payload = w[2]
          BY <2>3, <3>1, <4>1
        <4> QED BY <4>2 DEF Lies
      <3> QED BY <3>2, <3>3, <3>4 DEF HandoffInv, Lies
    <2> QED BY <2>1, <2>2, <2>4 DEF HandoffInv
  <1>3. CASE UNCHANGED handoffVars
    BY <1>3 DEF handoffVars, dirVars, HandoffInv, HandoffTyped, Lies
  <1> QED BY <1>2, <1>3 DEF ArchiveExpired, handoffVars, dirVars

LEMMA RestoreHandoff ==
  ASSUME HandoffInv, Core, NEW i \in Invocations, Restore(i)
  PROVE  HandoffInv'
  <1> DEFINE r == job[i].run
             e == job[i].payload
  <1>1. r \in RunIds /\ e \in Times
    BY Mine DEF Restore, Unchosen, Jobs
  <1>2. CASE rotating[r][e].there /\ Replaceable(dir[r])
    <2>1. /\ dir' = [dir EXCEPT ![r] = rotating[r][e]]
          /\ rotating' = [rotating EXCEPT ![r][e] = None]
          /\ UNCHANGED <<now, archive, written, signed>>
      BY <1>2 DEF Restore
    <2> HIDE DEF r, e
    <2>2. HandoffTyped'
      BY <1>1, <2>1, NoneTyped DEF HandoffInv, HandoffTyped
    <2>3. /\ dir'[r] = rotating[r][e] /\ dir[r].payload = 0
          /\ \A q \in RunIds, f \in Times : <<q, f>> # <<r, e>> => rotating'[q][f] = rotating[q][f]
          /\ \A q \in RunIds : q # r => dir'[q] = dir[q]
      BY <1>1, <1>2, <2>1, ReplacedIsEmpty DEF HandoffInv, HandoffTyped
    <2>4. ASSUME NEW w \in written
          PROVE  Lies(w)'
      <3>1. w[1] \in RunIds /\ w[2] # 0
        BY DEF HandoffInv, HandoffTyped
      <3>2. CASE dir[w[1]].payload = w[2]
        BY <2>3, <3>1, <3>2 DEF Lies
      <3>3. CASE \E f \in Times : rotating[w[1]][f].payload = w[2]
        <4>1. PICK f \in Times : rotating[w[1]][f].payload = w[2]
          BY <3>3
        <4>2. rotating'[w[1]][f].payload = w[2] \/ dir'[w[1]].payload = w[2]
          BY <2>3, <3>1, <4>1
        <4> QED BY <4>2 DEF Lies
      <3>4. CASE \E f \in Times : archive[w[1]][f].payload = w[2]
        BY <2>1, <3>4 DEF Lies
      <3> QED BY <3>2, <3>3, <3>4 DEF HandoffInv, Lies
    <2> QED BY <2>1, <2>2, <2>4 DEF HandoffInv
  <1>3. CASE UNCHANGED handoffVars
    BY <1>3 DEF handoffVars, dirVars, HandoffInv, HandoffTyped, Lies
  <1> QED BY <1>2, <1>3 DEF Restore, handoffVars, dirVars

(* The directory of a run is made, written, signed or cleared away. *)
LEMMA DirHandoff ==
  ASSUME HandoffInv, NEW r \in RunIds, NEW d \in Slot, dir' = [dir EXCEPT ![r] = d],
         UNCHANGED <<now, rotating, archive>>, signed' \subseteq Times,
         written' \subseteq written \cup {<<r, d.payload>>},
         written' # written => written' \subseteq RunIds \X (Times \ {0}),
         dir[r].payload \in {0, d.payload} \/ <<r, dir[r].payload>> \notin written'
  PROVE  HandoffInv'
  <1>1. HandoffTyped'
    BY DEF HandoffInv, HandoffTyped
  <1>2. dir'[r] = d /\ \A q \in RunIds : q # r => dir'[q] = dir[q]
    BY DEF HandoffInv, HandoffTyped
  <1>3. ASSUME NEW w \in written'
        PROVE  Lies(w)'
    <2>1. w[1] \in RunIds /\ w[2] # 0 /\ w = <<w[1], w[2]>>
      BY <1>1 DEF HandoffTyped
    <2>2. CASE w = <<r, d.payload>>
      BY <1>2, <2>2 DEF Lies
    <2>3. CASE w \in written /\ dir[w[1]].payload = w[2]
      BY <1>2, <2>1, <2>3 DEF Lies
    <2>4. CASE w \in written /\ dir[w[1]].payload # w[2]
      BY <2>4 DEF HandoffInv, Lies
    <2> QED BY <2>2, <2>3, <2>4
  <1> QED BY <1>1, <1>3 DEF HandoffInv

LEMMA MintHandoff ==
  ASSUME HandoffInv, Core, NEW i \in Invocations, Mint(i)
  PROVE  HandoffInv'
  <1> DEFINE r == job[i].run
             d == [dir[r] EXCEPT !.there = TRUE]
  <1>1. r \in RunIds /\ dir[r] \in Slot
    BY Mine DEF Mint, Unchosen, HandoffInv, HandoffTyped
  <1>2. d \in Slot /\ d.payload = dir[r].payload
    BY <1>1 DEF Slot
  <1>3. CASE dir' = [dir EXCEPT ![r] = d]
    <2> HIDE DEF d, r
    <2>1. UNCHANGED <<now, rotating, archive, written, signed>> /\ signed' \subseteq Times
      BY DEF Mint, HandoffInv, HandoffTyped
    <2> QED BY <1>1, <1>2, <1>3, <2>1, DirHandoff
  <1>4. CASE UNCHANGED handoffVars
    BY <1>4 DEF handoffVars, dirVars, HandoffInv, HandoffTyped, Lies
  <1> QED BY <1>3, <1>4 DEF Mint, handoffVars, dirVars

LEMMA WriteHandoff ==
  ASSUME HandoffInv, Core, NEW i \in Invocations, WritePayload(i)
  PROVE  HandoffInv'
  <1> DEFINE r == job[i].run
             d == [dir[r] EXCEPT !.payload = job[i].payload]
  <1>1. /\ r \in RunIds /\ dir[r] \in Slot
        /\ job[i].payload \in Times /\ job[i].payload # 0
    BY Mine DEF WritePayload, OwnAt, Jobs, Unchosen, HandoffInv, HandoffTyped
  <1>2. d \in Slot /\ d.payload = job[i].payload
    BY <1>1 DEF Slot
  <1>3. CASE dir[r].payload = 0 /\ dir' = [dir EXCEPT ![r] = d] /\ written' = written \cup {<<r, job[i].payload>>}
    <2> HIDE DEF d, r
    <2>1. UNCHANGED <<now, rotating, archive, signed>> /\ signed' \subseteq Times
      BY DEF WritePayload, HandoffInv, HandoffTyped
    <2>2. written' \subseteq RunIds \X (Times \ {0}) /\ written' = written \cup {<<r, d.payload>>}
      BY <1>1, <1>2, <1>3 DEF HandoffInv, HandoffTyped
    <2> QED BY <1>1, <1>2, <1>3, <2>1, <2>2, DirHandoff
  <1>4. CASE UNCHANGED handoffVars
    BY <1>4 DEF handoffVars, dirVars, HandoffInv, HandoffTyped, Lies
  <1> QED BY <1>3, <1>4 DEF WritePayload, handoffVars, dirVars

LEMMA SignHandoff ==
  ASSUME HandoffInv, Sign
  PROVE  HandoffInv'
  <1>1. PICK r \in RunIds :
          /\ signed' = signed \cup {dir[r].payload}
          /\ \E s \in signed' \ {dir[r].sig} : dir' = [dir EXCEPT ![r].sig = s]
    BY DEF Sign
  <1>2. PICK s \in signed' : dir' = [dir EXCEPT ![r].sig = s]
    BY <1>1
  <1> DEFINE d == [dir[r] EXCEPT !.sig = s]
  <1>3. dir[r] \in Slot /\ signed' \subseteq Times /\ s \in Times
    BY <1>1, <1>2 DEF HandoffInv, HandoffTyped, Slot
  <1>4. d \in Slot /\ d.payload = dir[r].payload
    BY <1>3 DEF Slot
  <1>5. dir' = [dir EXCEPT ![r] = d]
    BY <1>2
  <1>6. UNCHANGED <<now, rotating, archive, written>>
    BY DEF Sign
  <1> HIDE DEF d
  <1> QED BY <1>3, <1>4, <1>5, <1>6, DirHandoff

LEMMA DiscardHandoff ==
  ASSUME HandoffInv, Discard
  PROVE  HandoffInv'
  <1>1. PICK r \in RunIds : /\ dir' = [dir EXCEPT ![r] = None]
                            /\ written' = written \ {<<r, dir[r].payload>>}
    BY DEF Discard
  <1>2. UNCHANGED <<now, rotating, archive, signed>> /\ signed' \subseteq Times
    BY DEF Discard, HandoffInv, HandoffTyped
  <1>3. written' \subseteq written /\ written' \subseteq RunIds \X (Times \ {0})
    BY <1>1 DEF HandoffInv, HandoffTyped
  <1>4. <<r, dir[r].payload>> \notin written'
    BY <1>1
  <1> QED BY <1>1, <1>2, <1>3, <1>4, NoneTyped, DirHandoff

LEMMA HandoffInit0 == Init => HandoffInv
  <1> SUFFICES ASSUME NEW s \in Scenes, HandoffInit(s.now, s.payload)
               PROVE  HandoffInv
    BY DEF Init
  <1>1. s.now \in 0 .. MaxClock /\ s.payload \in Times
    BY ScenesAreLeft
  <1> DEFINE left == [Empty EXCEPT !.payload = s.payload]
  <1>2. left \in Slot /\ left.payload = s.payload
    BY <1>1, NoneTyped DEF Slot
  <1>3. dir = [r \in RunIds |-> IF r = 1 /\ s.payload # 0 THEN left ELSE None]
    BY DEF HandoffInit
  <1> HIDE DEF left
  <1>4. 1 \in RunIds
    BY MaxRunsNat DEF RunIds
  <1>5. written = (IF s.payload = 0 THEN {} ELSE {<<1, s.payload>>}) /\ now = s.now /\ signed = {}
    BY DEF HandoffInit
  <1>6. /\ rotating = [r \in RunIds |-> [e \in Times |-> None]]
        /\ archive = [r \in RunIds |-> [e \in Times |-> None]]
    BY DEF HandoffInit
  <1>7. dir \in [RunIds -> Slot]
    BY <1>2, <1>3, NoneTyped
  <1>8. rotating \in [RunIds -> [Times -> Slot]] /\ archive \in [RunIds -> [Times -> Slot]]
    BY <1>6, NoneTyped
  <1>9. written \subseteq RunIds \X (Times \ {0})
    BY <1>1, <1>4, <1>5
  <1>10. \A w \in written : Lies(w)
    BY <1>2, <1>3, <1>4, <1>5 DEF Lies
  <1> QED BY <1>1, <1>5, <1>7, <1>8, <1>9, <1>10 DEF HandoffInv, HandoffTyped

LEMMA HandoffStepInv == HandoffInv /\ Core /\ [Next]_vars => HandoffInv'
  <1> SUFFICES ASSUME HandoffInv, Core, [Next]_vars
               PROVE  HandoffInv'
    OBVIOUS
  <1>1. CASE UNCHANGED handoffVars
    BY <1>1 DEF handoffVars, dirVars, HandoffInv, HandoffTyped, Lies
  <1>2. CASE UNCHANGED dirVars /\ now' \in 0 .. MaxClock /\ signed' \subseteq Times
    BY <1>2 DEF dirVars, HandoffInv, HandoffTyped, Lies
  <1>3. CASE Sign
    BY <1>3, SignHandoff
  <1>4. CASE Discard
    BY <1>4, DiscardHandoff
  <1>5. CASE Tick
    <2>1. now' \in 0 .. MaxClock
      BY <1>5, ClockBounds DEF Tick, HandoffInv, HandoffTyped
    <2> QED BY <1>2, <1>5, <2>1 DEF Tick, HandoffInv, HandoffTyped
  <1>6. ASSUME NEW i \in Invocations, SessionStep(i)
        PROVE  HandoffInv'
    <2>1. CASE HandoffStep(i)
      BY <1>1, <2>1, MoveAsideHandoff, ArchiveHandoff, RestoreHandoff, MintHandoff, WriteHandoff
         DEF HandoffStep, ReadHandoff, RotateCheck, MovedIsExpired, RestoreCheck, AwaitSignature,
             RecordReject, ConfirmSubmit, Submit
    <2>2. CASE ~HandoffStep(i)
      <3>1. UNCHANGED handoffVars
        BY <1>6, <2>2
           DEF SessionStep, StartSession, Create, RecordCreate, Freeze, RecordFreeze, FailFreeze,
               ReportClosed, HandOver, EnterGroups, Ask, Decide, Answer, Continue
      <3> QED BY <1>1, <3>1
    <2> QED BY <2>1, <2>2
  <1>7. ASSUME NEW i \in Invocations, RequestStep(i)
        PROVE  HandoffInv'
    <2>1. CASE RequestApproval(i)
      <3>1. now + Life \in Times
        BY ClockBounds DEF HandoffInv, HandoffTyped, Times
      <3>2. UNCHANGED <<now, dirVars>> /\ signed' \subseteq Times /\ now' \in 0 .. MaxClock
        BY <2>1, <3>1 DEF RequestApproval, HandoffInv, HandoffTyped
      <3> QED BY <1>2, <3>2
    <2>2. CASE ~RequestApproval(i)
      BY <1>1, <1>7, <2>2
         DEF RequestStep, PostApproval, PostDecision, SubmitApproval, SubmitDecision
    <2> QED BY <2>1, <2>2
  <1>8. ASSUME NEW i \in Invocations,
               \/ StartRunner(i) \/ Intake(i)
               \/ UNCHANGED handoffVars
        PROVE  HandoffInv'
    BY <1>1, <1>8 DEF StartRunner, Intake
  <1> QED BY <1>1, <1>3, <1>4, <1>5, <1>6, <1>7, <1>8 DEF Next, Step, vars

-----------------------------------------------------------------------------
(* The recorded files. *)
HeldFiles == {"spec", "records", "worktree"}

LEMMA HeldStep == held \subseteq HeldFiles /\ [Next]_vars => held' \subseteq HeldFiles
  <1> SUFFICES ASSUME held \subseteq HeldFiles, [Next]_vars
               PROVE  held' \subseteq HeldFiles
    OBVIOUS
  <1>1. CASE UNCHANGED held
    BY <1>1
  <1>2. CASE EditFile
    BY <1>2, EditableFiles DEF EditFile, HeldFiles
  <1>3. ASSUME NEW i \in Invocations, FinishGroup(i)
        PROVE  held' \subseteq HeldFiles
    <2>1. held' = held \cup Produced(Head(job[i].rest))
      BY <1>3 DEF FinishGroup
    <2>2. Produced(Head(job[i].rest)) \in {{"spec"}, {"records", "worktree"}, {"records"}}
      BY Zenon DEF Produced
    <2> QED BY <2>1, <2>2 DEF HeldFiles
  <1>4. ASSUME NEW i \in Invocations, AdvanceStep(i), ~FinishGroup(i)
        PROVE  UNCHANGED held
    BY <1>4 DEF AdvanceStep, ObserveRows, rowVars, Preview, Consent, TakeLock, Recheck, NextGroup,
                StartGroup, FailGroup, ObserveAfter, AfterGroup
  <1>5. ASSUME NEW i \in Invocations, HandoffStep(i)
        PROVE  UNCHANGED held
    BY <1>5 DEF HandoffStep, ReadHandoff, RotateCheck, MoveAside, MovedIsExpired, ArchiveExpired,
                RestoreCheck, Restore, Mint, WritePayload, AwaitSignature, TakeLock, RecordReject,
                ConfirmSubmit, Submit, Stays, Throw
  <1>6. ASSUME NEW i \in Invocations, SessionStep(i)
        PROVE  UNCHANGED held
    BY <1>5, <1>6 DEF SessionStep, StartSession, SelectRun, Resume, TakeLock, Create, NewRun, RecordCreate,
                Freeze, RecordFreeze, FailFreeze, ObserveRows, rowVars, ReportClosed, HandOver,
                EnterGroups, Ask, Decide, Answer, Continue, Stays, Throw
  <1>7. ASSUME NEW i \in Invocations, \/ StartRunner(i) \/ RequestStep(i) \/ Die(i)
                                      \/ TakeLock(i, "idle", "intake") \/ Intake(i)
        PROVE  UNCHANGED held
    BY <1>7 DEF StartRunner, Resume, RequestStep, RequestApproval, PostApproval, PostDecision,
                TakeLock, SubmitApproval, SubmitDecision, Die, Intake, NewRun, Throw
  <1>8. CASE Sign \/ Discard \/ Tick \/ UNCHANGED vars
    BY <1>1, <1>8 DEF Sign, Discard, Tick, vars, opVars
  <1> QED BY <1>1, <1>2, <1>3, <1>4, <1>6, <1>7, <1>8 DEF Next, Step

-----------------------------------------------------------------------------
(* Only a creation opens a run. *)
NoneOpens == \A r \in RunIds : runs'[r].status = "in_progress" => runs[r].status = "in_progress"

LEMMA WriteOpensNone ==
  ASSUME Core, NEW r \in RunIds, NEW row \in Row, Write(r, row),
         row.status = "in_progress" => runs[r].status = "in_progress"
  PROVE  NoneOpens
  <1>1. PICK n \in Row : /\ runs' = [runs EXCEPT ![r] = n]
                         /\ n.status = row.status
    BY WriteRow
  <1> QED BY <1>1 DEF NoneOpens, Core

LEMMA SameOpensNone ==
  ASSUME NEW r \in RunIds, Core, Write(r, runs[r])
  PROVE  NoneOpens
  BY WriteOpensNone DEF Core

LEMMA AdvanceOpensNone ==
  ASSUME Core, NEW i \in Invocations, AdvanceStep(i)
  PROVE  NoneOpens
  <1> DEFINE r == job[i].run
  <1>1. CASE UNCHANGED runs
    BY <1>1 DEF NoneOpens
  <1>2. CASE StartGroup(i)
    <2> DEFINE row == [runs[r] EXCEPT !.intact = FALSE]
    <2>1. r \in RunIds /\ runs[r] \in Row
      BY <1>2, Mine DEF StartGroup, Unchosen
    <2>2. row \in Row /\ row.status = runs[r].status
      BY <2>1 DEF Row
    <2>3. UNCHANGED runs \/ Write(r, row)
      BY <1>2 DEF StartGroup
    <2> HIDE DEF row
    <2> QED BY <1>1, <2>1, <2>2, <2>3, WriteOpensNone
  <1>3. CASE FinishGroup(i)
    <2> DEFINE group == Head(job[i].rest)
    <2>1. r \in RunIds /\ runs[r] \in Row
      BY <1>3, Mine DEF FinishGroup, Unchosen
    <2>2. PICK n \in Added(group), q \in SUBSET Questions :
            Write(r, [runs[r] EXCEPT !.stages = @ + n, !.intact = TRUE, !.open = q,
                          !.status = IF group = "delivery_check" THEN "completed" ELSE @])
      BY <1>3 DEF FinishGroup
    <2> DEFINE row == [runs[r] EXCEPT !.stages = @ + n, !.intact = TRUE, !.open = q,
                          !.status = IF group = "delivery_check" THEN "completed" ELSE @]
    <2>3. Write(r, row)
      BY <2>2
    <2>4. row.status \in {"completed", runs[r].status}
      <3> HIDE DEF group
      <3> QED BY <2>1 DEF Row
    <2>5. runs'[r].status = row.status /\ \A k \in RunIds : k # r => runs'[k] = runs[k]
      <3> DEFINE m == [row EXCEPT !.version = row.version + 1]
      <3>1. runs' = [runs EXCEPT ![r] = m]
        <4> HIDE DEF row
        <4> QED BY <2>3 DEF Write
      <3>2. m.status = row.status
        <4> HIDE DEF group
        <4> QED BY <2>1 DEF Row
      <3> HIDE DEF m, row
      <3> QED BY <2>1, <3>1, <3>2 DEF Core
    <2> HIDE DEF row
    <2> QED BY <2>4, <2>5 DEF NoneOpens
  <1>4. CASE FailGroup(i)
    <2> DEFINE row == [runs[r] EXCEPT !.status = "blocked"]
    <2>1. r \in RunIds /\ runs[r] \in Row
      BY <1>4, Mine DEF FailGroup, Unchosen
    <2>2. row \in Row /\ row.status # "in_progress"
      BY <2>1 DEF Row
    <2>3. UNCHANGED runs \/ Write(r, row)
      BY <1>4 DEF FailGroup
    <2> HIDE DEF row
    <2> QED BY <1>1, <2>1, <2>2, <2>3, WriteOpensNone
  <1>5. StartGroup(i) \/ FinishGroup(i) \/ FailGroup(i) \/ UNCHANGED runs
    BY DEF AdvanceStep, ObserveRows, rowVars, Preview, Consent, TakeLock, Recheck, NextGroup,
           ObserveAfter, AfterGroup
  <1> QED BY <1>1, <1>2, <1>3, <1>4, <1>5

LEMMA ApproveOpensNone ==
  ASSUME Core, NEW r \in RunIds, NEW e \in Times, NEW s, ApproveRun(r, e, s)
  PROVE  NoneOpens
  <1>1. runs[r] \in Row /\ SoundRow(runs[r])
    BY DEF Core
  <1> QED BY <1>1, ApproveTyped, WriteOpensNone

LEMMA AnswerOpensNone ==
  ASSUME Core, NEW r \in RunIds, NEW q, AnswerQuestion(r, q)
  PROVE  NoneOpens
  <1>1. runs[r] \in Row /\ SoundRow(runs[r])
    BY DEF Core
  <1> QED BY <1>1, AnswerTyped, WriteOpensNone

LEMMA IntakeOpensNone ==
  ASSUME Core, NEW i \in Invocations,
         RecordCreate(i) \/ Freeze(i) \/ RecordFreeze(i) \/ FailFreeze(i) \/ RecordReject(i)
  PROVE  NoneOpens
  <1> DEFINE r == job[i].run
             fr == [runs[r] EXCEPT !.frozen = TRUE]
             bl == [runs[r] EXCEPT !.status = "blocked"]
  <1>1. r \in RunIds /\ runs[r] \in Row
    BY Mine DEF RecordCreate, Freeze, RecordFreeze, FailFreeze, RecordReject, Unchosen
  <1>2. fr \in Row /\ fr.status = runs[r].status /\ bl \in Row /\ bl.status # "in_progress"
    BY <1>1 DEF Row
  <1>3. UNCHANGED runs \/ Write(r, runs[r]) \/ Write(r, fr) \/ Write(r, bl)
    BY DEF RecordCreate, Freeze, RecordFreeze, FailFreeze, RecordReject, Throw
  <1> HIDE DEF r, fr, bl
  <1>4. UNCHANGED runs => NoneOpens
    BY DEF NoneOpens
  <1> QED BY <1>1, <1>2, <1>3, <1>4, WriteOpensNone

LEMMA OpensOne ==
  ASSUME Core, NEW i \in Invocations, Create(i), ~UNCHANGED runs
  PROVE  \E r \in RunIds : Nonterminal' \subseteq {r}
  <1>1. Nonterminal = {} /\ NewRun(i)
    BY DEF Create, Throw
  <1>2. PICK r \in Rows({"absent"}) : runs' = [runs EXCEPT ![r] = [Absent EXCEPT !.status = "in_progress"]]
    BY <1>1 DEF NewRun
  <1>3. r \in RunIds /\ \A q \in RunIds : q # r => runs'[q] = runs[q]
    BY <1>2 DEF Rows, Core
  <1> QED BY <1>1, <1>3 DEF Nonterminal, Rows

(* What bw new-run opens is counted apart. *)
LEMMA IntakeApart ==
  ASSUME Core, NEW i \in Invocations, Intake(i)
  PROVE  Nonterminal' \ byHand' \subseteq Nonterminal \ byHand
  <1>1. CASE Throw(i) /\ UNCHANGED byHand
    BY <1>1 DEF Throw, Nonterminal, Rows
  <1>2. CASE NewRun(i) /\ byHand' = byHand \cup {job'[i].run}
    <2>1. PICK r \in Rows({"absent"}) :
            /\ runs' = [runs EXCEPT ![r] = [Absent EXCEPT !.status = "in_progress"]]
            /\ job' = [job EXCEPT ![i].run = r]
      BY <1>2 DEF NewRun
    <2>2. job'[i].run = r
      BY <2>1, Mine DEF Core, Jobs
    <2>3. \A q \in RunIds : q # r => runs'[q] = runs[q]
      BY <2>1 DEF Core
    <2> QED BY <1>2, <2>2, <2>3 DEF Nonterminal, Rows
  <1> QED BY <1>1, <1>2 DEF Intake

LEMMA OpenStep == Core /\ HandoffTyped /\ OneOpenRun /\ [Next]_vars => OneOpenRun'
  <1> SUFFICES ASSUME Core, HandoffTyped, OneOpenRun, [Next]_vars
               PROVE  OneOpenRun'
    OBVIOUS
  <1>1. IsFiniteSet(Nonterminal \ byHand)
    <2>1. IsFiniteSet(RunIds)
      BY MaxRunsNat, FS_Interval DEF RunIds
    <2> QED BY <2>1, FS_Subset DEF Nonterminal, Rows
  <1>0. CASE Nonterminal' \ byHand' \subseteq Nonterminal \ byHand
    <2>2. /\ Cardinality(Nonterminal' \ byHand') <= Cardinality(Nonterminal \ byHand)
          /\ Cardinality(Nonterminal' \ byHand') \in Nat
      BY <1>0, <1>1, FS_Subset, FS_CardinalityType
    <2>3. Cardinality(Nonterminal \ byHand) \in Nat
      BY <1>1, FS_CardinalityType
    <2> QED BY <2>2, <2>3 DEF OneOpenRun
  <1>2. CASE NoneOpens /\ UNCHANGED byHand
    BY <1>0, <1>2 DEF NoneOpens, Nonterminal, Rows
  <1>3. CASE UNCHANGED <<runs, byHand>>
    BY <1>2, <1>3 DEF NoneOpens
  <1>4. ASSUME NEW i \in Invocations, Create(i), ~UNCHANGED runs
        PROVE  OneOpenRun'
    <2>1. PICK r \in RunIds : Nonterminal' \ byHand' \subseteq {r}
      BY <1>4, OpensOne
    <2>2. IsFiniteSet({r}) /\ Cardinality({r}) = 1
      BY FS_Singleton
    <2>3. Cardinality(Nonterminal' \ byHand') <= 1
      BY <2>1, <2>2, FS_Subset
    <2> QED BY <2>3 DEF OneOpenRun
  <1>5. ASSUME NEW i \in Invocations, SessionStep(i), ~Create(i)
        PROVE  NoneOpens \/ UNCHANGED runs
    <2>1. CASE RecordCreate(i) \/ Freeze(i) \/ RecordFreeze(i) \/ FailFreeze(i) \/ RecordReject(i)
      BY <2>1, IntakeOpensNone
    <2>2. CASE Answer(i)
      <3>1. job[i].run \in RunIds /\ \E q : AnswerQuestion(job[i].run, q)
        BY <2>2, Mine DEF Answer, Unchosen
      <3> QED BY <3>1, AnswerOpensNone
    <2>3. CASE Submit(i)
      <3>1. job[i].run \in RunIds /\ job[i].payload \in Times
        BY <2>3, Mine DEF Submit, Unchosen, Jobs
      <3>2. UNCHANGED runs \/ ApproveRun(job[i].run, job[i].payload, job[i].sig)
        BY <2>3 DEF Submit
      <3> QED BY <3>1, <3>2, ApproveOpensNone
    <2>4. CASE HandoffStep(i) /\ ~RecordReject(i) /\ ~Submit(i)
      BY <2>4 DEF HandoffStep, ReadHandoff, RotateCheck, MoveAside, MovedIsExpired, ArchiveExpired,
                RestoreCheck, Restore, Mint, WritePayload, AwaitSignature, TakeLock,
                ConfirmSubmit, Stays, Throw
    <2>5. CASE /\ ~HandoffStep(i)
               /\ ~(RecordCreate(i) \/ Freeze(i) \/ RecordFreeze(i) \/ FailFreeze(i) \/ Answer(i))
      BY <1>5, <2>5 DEF SessionStep, StartSession, SelectRun, Resume, TakeLock, ObserveRows,
           rowVars, ReportClosed, HandOver, EnterGroups, Ask, Decide, Continue, Stays, Throw
    <2> QED BY <2>1, <2>2, <2>3, <2>4, <2>5
  <1>6. ASSUME NEW i \in Invocations, RequestStep(i)
        PROVE  NoneOpens \/ UNCHANGED runs
    <2>1. CASE SubmitApproval(i)
      <3>1. /\ job[i].run \in RunIds /\ job[i].payload \in Times
            /\ ApproveRun(job[i].run, job[i].payload, job[i].sig)
        BY <2>1, Mine DEF SubmitApproval, Unchosen, Jobs
      <3> QED BY <3>1, ApproveOpensNone
    <2>2. CASE SubmitDecision(i)
      <3>1. job[i].run \in RunIds /\ \E q : AnswerQuestion(job[i].run, q)
        BY <2>2, Mine DEF SubmitDecision, Unchosen
      <3> QED BY <3>1, AnswerOpensNone
    <2>3. CASE ~SubmitApproval(i) /\ ~SubmitDecision(i)
      BY <1>6, <2>3 DEF RequestStep, RequestApproval, PostApproval, PostDecision, TakeLock
    <2> QED BY <2>1, <2>2, <2>3
  <1>7. ASSUME NEW i \in Invocations, StartRunner(i) \/ Die(i) \/ TakeLock(i, "idle", "intake")
        PROVE  UNCHANGED runs
    BY <1>7 DEF StartRunner, Resume, Die, TakeLock
  <1>8. EditFile \/ Sign \/ Discard \/ Tick \/ UNCHANGED vars => UNCHANGED runs
    BY DEF EditFile, Sign, Discard, Tick, vars, opVars
  <1>9. CASE Step /\ UNCHANGED byHand
    BY <1>2, <1>3, <1>4, <1>5, <1>6, <1>7, <1>8, <1>9, AdvanceOpensNone DEF Step
  <1>10. CASE \E i \in Invocations : Intake(i)
    BY <1>0, <1>10, IntakeApart
  <1>11. CASE UNCHANGED vars
    BY <1>3, <1>8, <1>11 DEF vars
  <1> QED BY <1>9, <1>10, <1>11 DEF Next

-----------------------------------------------------------------------------
GuidedInv == Core /\ HandoffInv /\ held \subseteq HeldFiles /\ OneOpenRun

LEMMA InitOpen == Init => held \subseteq HeldFiles /\ OneOpenRun
  <1> SUFFICES ASSUME NEW s \in Scenes, runs = s.rows, held = {"spec", "records", "worktree"},
                      byHand = s.byHand
               PROVE  held \subseteq HeldFiles /\ OneOpenRun
    BY DEF Init
  <1>1. Nonterminal = {r \in RunIds : s.rows[r].status = "in_progress"}
    BY DEF Nonterminal, Rows
  <1> QED BY <1>1, ScenesAreLeft DEF OneOpenRun, HeldFiles

(* Whatever the sessions, runners and requests are, and wherever any of them  *)
(* is killed: the rows are sound, the lock has one holder, and what each      *)
(* invocation believes of its run holds where it is.                          *)
THEOREM GuidedInvHolds == Spec => []GuidedInv
  <1>1. Init => GuidedInv
    BY CoreInit, HandoffInit0, InitOpen DEF GuidedInv
  <1>2. GuidedInv /\ [Next]_vars => GuidedInv'
    BY CoreStep, HandoffStepInv, HeldStep, OpenStep DEF GuidedInv, HandoffInv
  <1> QED BY <1>1, <1>2, PTL DEF Spec

(* The types of the rows and of what an invocation remembers, and one holder  *)
(* of the lock, which no invocation keeps beyond its end.                     *)
THEOREM GuidedTypes == Spec => []TypeOK
  <1>1. GuidedInv => TypeOK
    <2> SUFFICES ASSUME GuidedInv
                 PROVE  TypeOK
      OBVIOUS
    <2>1. lock \subseteq Invocations /\ Cardinality(lock) <= 1
      <3>1. CASE lock = {}
        BY <3>1, FS_EmptySet
      <3>2. CASE lock # {}
        <4>1. PICK i \in lock : lock = {i}
          BY <3>2 DEF GuidedInv, Core, Exclusive
        <4>2. Cardinality({i}) = 1
          BY FS_Singleton
        <4> QED BY <4>1, <4>2 DEF GuidedInv, Core, Exclusive
      <3> QED BY <3>1, <3>2
    <2>2. ASSUME NEW i \in Invocations
          PROVE  /\ job[i].run \in {0} \cup RunIds
                 /\ lock = {i} => pc[i] \notin {"idle", "returned", "ended"}
      <3>1. job[i] \in Jobs
        BY DEF GuidedInv, Core
      <3>2. lock = {i} => pc[i] \in Holding
        BY DEF GuidedInv, Core, Exclusive
      <3> QED BY <3>1, <3>2 DEF Jobs, Holding
    <2> QED BY <2>1, <2>2 DEF TypeOK, GuidedInv, Core, HandoffInv, HandoffTyped, HeldFiles
  <1> QED BY <1>1, GuidedInvHolds, PTL

(* advanceRun works only on what it was given consent for: while a group is   *)
(* at work nobody else has written to the run since the operator saw it.      *)
THEOREM ConsentHolds == Spec => []ConsentedWorkOnly
  <1>1. GuidedInv => ConsentedWorkOnly
    <2> SUFFICES ASSUME GuidedInv, NEW i \in Invocations, pc[i] = "running"
                 PROVE  \E p \in job[i].preview :
                          LET done == Len(p.groups) - Len(job[i].rest)
                          IN  /\ job[i].rest = SubSeq(p.groups, done + 1, Len(p.groups))
                              /\ runs[job[i].run].version = p.version + 2 * done + 1
      BY DEF ConsentedWorkOnly
    <2>1. Ahead(job[i], runs, 1)
      BY DEF GuidedInv, Core, OwnAt
    <2> QED BY <2>1, Zenon DEF Ahead, Left
  <1> QED BY <1>1, GuidedInvHolds, PTL

(* A session repeats the selection under the lock: an identity never has two  *)
(* open runs of sessions, however many start at once, and whatever rows       *)
(* bw new-run adds.                                                           *)
THEOREM OneOpenHolds == Spec => []OneOpenRun
  <1>1. GuidedInv => OneOpenRun
    BY DEF GuidedInv
  <1> QED BY <1>1, GuidedInvHolds, PTL

(* A run without a frozen profile has passed no stage and never will: the     *)
(* intake that should have frozen it may have failed or been killed anywhere. *)
THEOREM UnfrozenHolds == Spec => []UnfrozenRunIsInert
  <1>1. GuidedInv => UnfrozenRunIsInert
    BY DEF GuidedInv, Core, SoundRow, UnfrozenRunIsInert
  <1> QED BY <1>1, GuidedInvHolds, PTL

(* approvalHandoff and its rotation move payloads and never write over one,   *)
(* with any number of sessions in any of its steps.                           *)
THEOREM PayloadsHold == Spec => []PayloadsAreKept
  <1>1. GuidedInv => PayloadsAreKept
    <2> SUFFICES ASSUME GuidedInv, NEW w \in written
                 PROVE  w[2] \in {d.payload : d \in {dir[w[1]]} \cup {f[e] : f \in {rotating[w[1]], archive[w[1]]}, e \in Times}}
      BY DEF PayloadsAreKept
    <2> DEFINE places == {dir[w[1]]} \cup {f[e] : f \in {rotating[w[1]], archive[w[1]]}, e \in Times}
    <2>1. Lies(w)
      BY DEF GuidedInv, HandoffInv
    <2>2. \E d \in places : d.payload = w[2]
      <3>1. CASE dir[w[1]].payload = w[2]
        BY <3>1
      <3>2. CASE \E e \in Times : rotating[w[1]][e].payload = w[2] \/ archive[w[1]][e].payload = w[2]
        <4>1. PICK e \in Times : rotating[w[1]][e].payload = w[2] \/ archive[w[1]][e].payload = w[2]
          BY <3>2
        <4>2. rotating[w[1]][e] \in places /\ archive[w[1]][e] \in places
          OBVIOUS
        <4> QED BY <4>1, <4>2
      <3> QED BY <2>1, <3>1, <3>2 DEF Lies
    <2> HIDE DEF places
    <2>3. w[2] \in {d.payload : d \in places}
      BY <2>2
    <2> QED BY <2>3 DEF places
  <1> QED BY <1>1, GuidedInvHolds, PTL
-----------------------------------------------------------------------------
(* The archives. An invocation about to archive has read, in what was moved   *)
(* aside, the payload the archive is named after. Since then it may have been *)
(* archived by another, or put back; nothing replaces it where it lies.       *)
InRotation == {"rotate_check", "rotate", "rotate_read", "archive"}

Accounted(r, e) ==
  rotating[r][e].payload = e \/ archive[r][e].payload = e \/ <<r, e>> \in putBack

RotationInv ==
  /\ \A i \in Invocations : pc[i] \in InRotation => job[i].payload # 0
  /\ \A i \in Invocations : pc[i] = "archive" => Accounted(job[i].run, job[i].payload)
  /\ ArchivesAreExactUnlessPutBack

Alone(i) == \A k \in Invocations \ {i} : pc'[k] = pc[k] /\ job'[k] = job[k]

(* A step that neither moves anything aside nor archives or puts it back. *)
LEMMA QuietRotation ==
  ASSUME RotationInv, NEW i \in Invocations, Alone(i), UNCHANGED <<rotating, archive, putBack>>,
         pc'[i] \in InRotation => job'[i].payload # 0,
         pc'[i] = "archive" => rotating[job'[i].run][job'[i].payload].payload = job'[i].payload
  PROVE  RotationInv'
  <1>1. \A k \in Invocations : pc'[k] \in InRotation => job'[k].payload # 0
    BY DEF RotationInv, Alone
  <1>2. ArchivesAreExactUnlessPutBack'
    BY DEF RotationInv, ArchivesAreExactUnlessPutBack
  <1>3. ASSUME NEW k \in Invocations, pc'[k] = "archive"
        PROVE  Accounted(job[k].run, job[k].payload)'
    <2>1. CASE k = i
      BY <1>3, <2>1 DEF Accounted
    <2>2. CASE k # i
      BY <1>3, <2>2 DEF Accounted, Alone, RotationInv
    <2> QED BY <2>1, <2>2
  <1> QED BY <1>1, <1>2, <1>3 DEF RotationInv

(* One that moves directories, and leads its invocation away from archiving. *)
LEMMA MovingRotation ==
  ASSUME RotationInv, NEW i \in Invocations, Alone(i),
         pc'[i] \in InRotation => job'[i].payload # 0,
         pc'[i] # "archive",
         ArchivesAreExactUnlessPutBack',
         \A k \in Invocations \ {i} :
           pc[k] = "archive" => Accounted(job[k].run, job[k].payload)'
  PROVE  RotationInv'
  <1>1. \A k \in Invocations : pc'[k] \in InRotation => job'[k].payload # 0
    BY DEF RotationInv, Alone
  <1>2. ASSUME NEW k \in Invocations, pc'[k] = "archive"
        PROVE  Accounted(job[k].run, job[k].payload)'
    <2>1. k # i /\ pc[k] = "archive" /\ job'[k] = job[k]
      BY <1>2 DEF Alone
    <2>2. PICK r, e : r = job[k].run /\ e = job[k].payload /\ Accounted(r, e)'
      BY <2>1
    <2> QED BY <2>1, <2>2
  <1> QED BY <1>1, <1>2 DEF RotationInv

Directed(i) ==
  ReadHandoff(i) \/ RotateCheck(i) \/ MoveAside(i) \/ MovedIsExpired(i) \/ ArchiveExpired(i) \/ Restore(i)

(* Where a step that has nothing to do with the directories can lead. *)
LEMMA ReturnElsewhere ==
  ASSUME NEW i \in Invocations, NEW outcome, Return(i, outcome), DOMAIN pc = Invocations,
         DOMAIN job = Invocations
  PROVE  Alone(i) /\ pc'[i] \in {"returned", "ended"}
  BY DEF Return, Goto, Alone

LEMMA SessionElsewhere ==
  ASSUME Core, NEW i \in Invocations, SessionStep(i), ~Directed(i)
  PROVE  Alone(i) /\ pc'[i] \notin InRotation
  <1>1. DOMAIN pc = Invocations /\ DOMAIN job = Invocations /\ job[i] \in Jobs
    BY DEF Core
  <1>2. CASE StartSession(i) \/ Continue(i) \/ HandOver(i) \/ EnterGroups(i)
    <2>1. StartSession(i) => Alone(i) /\ pc'[i] \notin InRotation
      BY <1>1, ReturnElsewhere DEF StartSession, SelectRun, Resume, Throw, Stays, Goto, Alone, InRotation
    <2>2. Continue(i) => Alone(i) /\ pc'[i] \notin InRotation
      BY <1>1 DEF Continue, Goto, Alone, InRotation, Jobs
    <2>3. HandOver(i) \/ EnterGroups(i) => Alone(i) /\ pc'[i] \notin InRotation
      BY <1>1 DEF HandOver, EnterGroups, Goto, Alone, InRotation
    <2> QED BY <1>2, <2>1, <2>2, <2>3
  <1>3. CASE Create(i) \/ RecordCreate(i) \/ Freeze(i) \/ RecordFreeze(i) \/ FailFreeze(i) \/ ReportClosed(i)
    BY <1>1, <1>3, ReturnElsewhere
       DEF Create, NewRun, RecordCreate, Freeze, RecordFreeze, FailFreeze, ReportClosed, Throw, Goto, Alone, InRotation
  <1>4. CASE Ask(i) \/ Decide(i) \/ Answer(i)
    BY <1>1, <1>4, ReturnElsewhere DEF Ask, Decide, Answer, Stays, Throw, Goto, Alone, InRotation
  <1>5. CASE RestoreCheck(i) \/ AwaitSignature(i) \/ RecordReject(i) \/ ConfirmSubmit(i) \/ Submit(i)
    BY <1>1, <1>5, ReturnElsewhere
       DEF RestoreCheck, AwaitSignature, RecordReject, ConfirmSubmit, Submit, Stays, Throw, Goto, Alone, InRotation
  <1>6. ASSUME NEW from, NEW to, to \notin InRotation, TakeLock(i, from, to)
        PROVE  Alone(i) /\ pc'[i] \notin InRotation
    BY <1>1, <1>6, ReturnElsewhere DEF TakeLock, Goto, Alone, InRotation
  <1>7. ASSUME NEW from, NEW to, to \notin InRotation, ObserveRows(i, from, to)
        PROVE  Alone(i) /\ pc'[i] \notin InRotation
    BY <1>1, <1>7 DEF ObserveRows, Alone, InRotation
  <1>8. {"create", "answer", "rejecting", "submit", "dispatch", "ask_check"} \cap InRotation = {}
    BY DEF InRotation
  <1>9. CASE Mint(i) \/ WritePayload(i)
    BY <1>1, <1>9, ReturnElsewhere DEF Mint, WritePayload, Stays, Throw, Goto, Alone, InRotation
  <1> QED BY <1>2, <1>3, <1>4, <1>5, <1>6, <1>7, <1>8, <1>9 DEF SessionStep, HandoffStep, Directed

LEMMA OthersElsewhere ==
  ASSUME Core, NEW i \in Invocations,
         \/ StartRunner(i) \/ RequestStep(i) \/ AdvanceStep(i) \/ Die(i)
         \/ TakeLock(i, "idle", "intake") \/ Intake(i)
  PROVE  Alone(i) /\ pc'[i] \notin InRotation
  <1>1. DOMAIN pc = Invocations /\ DOMAIN job = Invocations
    BY DEF Core
  <1>2. CASE StartRunner(i) \/ Die(i) \/ RequestApproval(i) \/ PostApproval(i) \/ PostDecision(i)
    BY <1>1, <1>2 DEF StartRunner, Die, RequestApproval, PostApproval, PostDecision, Resume, Goto, Alone, InRotation
  <1>3. CASE SubmitApproval(i) \/ SubmitDecision(i) \/ Intake(i)
    BY <1>1, <1>3, ReturnElsewhere
       DEF SubmitApproval, SubmitDecision, Intake, NewRun, Throw, Goto, Alone, InRotation
  <1>4. ASSUME NEW from, NEW to, to \notin InRotation, TakeLock(i, from, to)
        PROVE  Alone(i) /\ pc'[i] \notin InRotation
    BY <1>1, <1>4, ReturnElsewhere DEF TakeLock, Goto, Alone, InRotation
  <1>5. ASSUME NEW from, NEW to, to \notin InRotation, ObserveRows(i, from, to)
        PROVE  Alone(i) /\ pc'[i] \notin InRotation
    BY <1>1, <1>5 DEF ObserveRows, Alone, InRotation
  <1>6. {"approving", "deciding", "intake", "preview", "reobserve", "recheck"} \cap InRotation = {}
    BY DEF InRotation
  <1>7. CASE Preview(i) \/ Consent(i) \/ Recheck(i) \/ NextGroup(i) \/ StartGroup(i)
    BY <1>1, <1>7, ReturnElsewhere DEF Preview, Consent, Recheck, NextGroup, StartGroup, Goto, Alone, InRotation
  <1>8. CASE FinishGroup(i) \/ FailGroup(i) \/ ObserveAfter(i) \/ AfterGroup(i)
    BY <1>1, <1>8, ReturnElsewhere DEF FinishGroup, FailGroup, ObserveAfter, AfterGroup, Goto, Alone, InRotation
  <1> QED BY <1>2, <1>3, <1>4, <1>5, <1>6, <1>7, <1>8 DEF RequestStep, AdvanceStep

(* The steps of the rotation that only look. *)
LEMMA LookRotation ==
  ASSUME RotationInv, Core, NEW i \in Invocations,
         ReadHandoff(i) \/ RotateCheck(i) \/ MovedIsExpired(i)
  PROVE  RotationInv'
  <1>0. DOMAIN pc = Invocations /\ DOMAIN job = Invocations /\ job[i] \in Jobs
    BY DEF Core
  <1>1. Alone(i) /\ UNCHANGED <<rotating, archive, putBack>>
    BY <1>0, ReturnElsewhere
       DEF ReadHandoff, RotateCheck, MovedIsExpired, Throw, Stays, Goto, Alone, handoffVars, dirVars
  <1>2. CASE ReadHandoff(i)
    <2>1. \/ pc'[i] \notin InRotation
          \/ /\ pc'[i] = "rotate_check"
             /\ job' = [job EXCEPT ![i].payload = dir[job[i].run].payload] /\ dir[job[i].run].payload # 0
      BY <1>0, <1>2, ReturnElsewhere DEF ReadHandoff, Throw, Stays, Goto, InRotation
    <2>2. CASE pc'[i] \notin InRotation
      BY <1>1, <2>2, QuietRotation DEF InRotation
    <2>3. CASE pc'[i] = "rotate_check" /\ job' = [job EXCEPT ![i].payload = dir[job[i].run].payload] /\ dir[job[i].run].payload # 0
      <3>1. job'[i].payload = dir[job[i].run].payload
        BY <1>0, <2>3 DEF Jobs
      <3> QED BY <1>1, <2>3, <3>1, QuietRotation
    <2> QED BY <2>1, <2>2, <2>3
  <1>3. CASE RotateCheck(i)
    <2>1. \/ pc'[i] \notin InRotation
          \/ pc'[i] = "rotate" /\ job' = job /\ pc[i] = "rotate_check"
      BY <1>0, <1>3, ReturnElsewhere DEF RotateCheck, Throw, Stays, Goto, InRotation
    <2>2. pc'[i] = "rotate" => job'[i].payload # 0
      BY <2>1 DEF RotationInv, InRotation
    <2> QED BY <1>1, <2>1, <2>2, QuietRotation DEF InRotation
  <1>4. CASE MovedIsExpired(i)
    <2>1. /\ job' = job /\ pc[i] = "rotate_read"
          /\ \/ pc'[i] \notin InRotation
             \/ pc'[i] = "archive" /\ rotating[job[i].run][job[i].payload].payload = job[i].payload
      BY <1>0, <1>4 DEF MovedIsExpired, Stays, Goto, InRotation
    <2>2. job[i].payload # 0
      BY <2>1 DEF RotationInv, InRotation
    <2> QED BY <1>1, <2>1, <2>2, QuietRotation DEF InRotation
  <1> QED BY <1>2, <1>3, <1>4

(* Moving aside: the place was free, so no payload of that name was there. *)
LEMMA MoveAsideRotation ==
  ASSUME RotationInv, Core, HandoffTyped, NEW i \in Invocations, MoveAside(i)
  PROVE  RotationInv'
  <1> DEFINE r == job[i].run
             e == job[i].payload
  <1>0. DOMAIN pc = Invocations /\ pc[i] = "rotate" /\ r \in RunIds /\ e \in Times /\ e # 0
    BY Mine DEF Core, MoveAside, Unchosen, Jobs, RotationInv, InRotation
  <1>1. /\ Alone(i) /\ job' = job /\ pc'[i] \in {"rotate_read", "restore_check"}
        /\ UNCHANGED <<archive, putBack>>
    BY <1>0 DEF MoveAside, Stays, Goto, Alone
  <1>2. CASE dir[r].there /\ Replaceable(rotating[r][e])
    <2>1. rotating' = [rotating EXCEPT ![r][e] = dir[r]] /\ rotating[r][e].payload = 0
      BY <1>2, ReplacedIsEmpty DEF MoveAside
    <2> HIDE DEF r, e
    <2>2. \A q \in RunIds, f \in Times : <<q, f>> # <<r, e>> => rotating'[q][f] = rotating[q][f]
      BY <1>0, <2>1 DEF HandoffTyped
    <2>3. ASSUME NEW k \in Invocations, pc[k] = "archive"
          PROVE  Accounted(job[k].run, job[k].payload)'
      <3>1. PICK q, f : q = job[k].run /\ f = job[k].payload
        OBVIOUS
      <3>2. q \in RunIds /\ f \in Times /\ f # 0 /\ Accounted(q, f)
        BY <2>3, <3>1, Mine DEF Unchosen, Jobs, RotationInv, InRotation
      <3>3. Accounted(q, f)'
        BY <1>1, <2>1, <2>2, <3>2 DEF Accounted
      <3> QED BY <1>1, <3>1, <3>3
    <2>4. ArchivesAreExactUnlessPutBack'
      BY <1>1 DEF RotationInv, ArchivesAreExactUnlessPutBack
    <2>5. job'[i].payload # 0 /\ pc'[i] # "archive"
      BY <1>0, <1>1 DEF e
    <2> QED BY <1>1, <2>3, <2>4, <2>5, MovingRotation
  <1>3. CASE UNCHANGED rotating /\ pc'[i] = "restore_check"
    BY <1>1, <1>3, QuietRotation DEF InRotation
  <1> QED BY <1>0, <1>2, <1>3 DEF MoveAside, Stays, Goto

(* Archiving: what lies aside is still what was read there, or was put back. *)
LEMMA ArchiveRotation ==
  ASSUME RotationInv, Core, HandoffTyped, NEW i \in Invocations, ArchiveExpired(i)
  PROVE  RotationInv'
  <1> DEFINE r == job[i].run
             e == job[i].payload
  <1>0. /\ DOMAIN pc = Invocations /\ pc[i] = "archive" /\ r \in RunIds /\ e \in Times /\ e # 0
        /\ Accounted(r, e)
    BY Mine DEF Core, ArchiveExpired, Unchosen, Jobs, RotationInv, InRotation
  <1>1. Alone(i) /\ job' = job /\ pc'[i] \notin InRotation /\ putBack' = putBack
    BY <1>0 DEF ArchiveExpired, Stays, Goto, Alone, InRotation
  <1>2. CASE rotating[r][e].there /\ Replaceable(archive[r][e])
    <2>1. /\ archive' = [archive EXCEPT ![r][e] = rotating[r][e]]
          /\ rotating' = [rotating EXCEPT ![r][e] = None] /\ archive[r][e].payload = 0
      BY <1>2, ReplacedIsEmpty DEF ArchiveExpired
    <2> HIDE DEF r, e
    <2>2. /\ archive'[r][e] = rotating[r][e]
          /\ \A q \in RunIds, f \in Times : <<q, f>> # <<r, e>> =>
               rotating'[q][f] = rotating[q][f] /\ archive'[q][f] = archive[q][f]
      BY <1>0, <2>1 DEF HandoffTyped
    <2>3. archive'[r][e].payload = e \/ <<r, e>> \in putBack
      BY <1>0, <2>1, <2>2 DEF Accounted
    <2>4. ArchivesAreExactUnlessPutBack'
      BY <1>1, <2>2, <2>3 DEF RotationInv, ArchivesAreExactUnlessPutBack
    <2>5. ASSUME NEW k \in Invocations, pc[k] = "archive"
          PROVE  Accounted(job[k].run, job[k].payload)'
      <3>1. PICK q, f : q = job[k].run /\ f = job[k].payload
        OBVIOUS
      <3>2. q \in RunIds /\ f \in Times /\ Accounted(q, f)
        BY <2>5, <3>1, Mine DEF Unchosen, Jobs, RotationInv
      <3>3. Accounted(q, f)'
        BY <1>1, <2>2, <2>3, <3>2 DEF Accounted
      <3> QED BY <1>1, <3>1, <3>3
    <2> QED BY <1>1, <2>4, <2>5, MovingRotation DEF InRotation
  <1>3. CASE UNCHANGED <<rotating, archive>>
    BY <1>1, <1>3, QuietRotation DEF InRotation
  <1> QED BY <1>2, <1>3 DEF ArchiveExpired

(* Putting back: whoever was about to archive it is accounted for by the history. *)
LEMMA RestoreRotation ==
  ASSUME RotationInv, Core, HandoffTyped, NEW i \in Invocations, Restore(i)
  PROVE  RotationInv'
  <1> DEFINE r == job[i].run
             e == job[i].payload
  <1>0. /\ DOMAIN pc = Invocations /\ DOMAIN job = Invocations
        /\ pc[i] = "restore" /\ r \in RunIds /\ e \in Times
    BY Mine DEF Core, Restore, Unchosen, Jobs
  <1>1. Alone(i) /\ pc'[i] \notin InRotation /\ archive' = archive
    BY <1>0, ReturnElsewhere DEF Restore, Throw, InRotation
  <1>2. CASE rotating[r][e].there /\ Replaceable(dir[r])
    <2>1. /\ rotating' = [rotating EXCEPT ![r][e] = None]
          /\ putBack' = IF ToArchive(i, r, e) = {} THEN putBack ELSE putBack \cup {<<r, e>>}
      BY <1>2 DEF Restore
    <2> HIDE DEF r, e
    <2>2. \A q \in RunIds, f \in Times : <<q, f>> # <<r, e>> => rotating'[q][f] = rotating[q][f]
      BY <1>0, <2>1 DEF HandoffTyped
    <2>3. putBack \subseteq putBack'
      BY <2>1
    <2>4. ArchivesAreExactUnlessPutBack'
      BY <1>1, <2>3 DEF RotationInv, ArchivesAreExactUnlessPutBack
    <2>5. ASSUME NEW k \in Invocations \ {i}, pc[k] = "archive"
          PROVE  Accounted(job[k].run, job[k].payload)'
      <3>1. PICK q, f : q = job[k].run /\ f = job[k].payload
        OBVIOUS
      <3>2. q \in RunIds /\ f \in Times /\ Accounted(q, f)
        BY <2>5, <3>1, Mine DEF Unchosen, Jobs, RotationInv
      <3>3. Accounted(q, f)'
        <4>1. CASE <<q, f>> = <<r, e>>
          <5>1. q = r /\ f = e
            BY <4>1
          <5>2. k \in ToArchive(i, r, e)
            BY <2>5, <3>1, <5>1 DEF ToArchive
          <5> QED BY <2>1, <4>1, <5>2 DEF Accounted
        <4>2. CASE <<q, f>> # <<r, e>>
          BY <1>1, <2>2, <2>3, <3>2, <4>2 DEF Accounted
        <4> QED BY <4>1, <4>2
      <3>4. job'[k] = job[k]
        BY <1>1 DEF Alone
      <3> QED BY <3>1, <3>3, <3>4
    <2> QED BY <1>1, <2>4, <2>5, MovingRotation DEF InRotation
  <1>3. CASE UNCHANGED <<rotating, putBack>>
    BY <1>1, <1>3, QuietRotation DEF InRotation
  <1> QED BY <1>2, <1>3 DEF Restore

LEMMA RotationInit == Init => RotationInv
  <1> SUFFICES ASSUME Init PROVE RotationInv
    OBVIOUS
  <1>1. \A i \in Invocations : pc[i] \in {"idle", "ended"}
    BY DEF Init
  <1>2. \A r \in RunIds, e \in Times : ~archive[r][e].there
    BY DEF Init, HandoffInit, None
  <1> QED BY <1>1, <1>2 DEF RotationInv, InRotation, ArchivesAreExactUnlessPutBack

LEMMA RotationStep ==
  ASSUME RotationInv, Core, HandoffTyped, [Next]_vars
  PROVE  RotationInv'
  <1>1. ASSUME NEW i \in Invocations, SessionStep(i)
        PROVE  RotationInv'
    <2>1. CASE Directed(i)
      BY <2>1, LookRotation, MoveAsideRotation, ArchiveRotation, RestoreRotation DEF Directed
    <2>2. CASE ~Directed(i)
      <3>1. Alone(i) /\ pc'[i] \notin InRotation
        BY <1>1, <2>2, SessionElsewhere
      <3>2. UNCHANGED <<rotating, archive, putBack>>
        BY <1>1, <2>2
           DEF SessionStep, StartSession, Create, RecordCreate, Freeze, RecordFreeze, FailFreeze,
               ReportClosed, HandOver, EnterGroups, Ask, Decide, Answer, Continue, HandoffStep,
               Directed, RestoreCheck, Mint, WritePayload, AwaitSignature, RecordReject,
               ConfirmSubmit, Submit, handoffVars, dirVars
      <3> QED BY <3>1, <3>2, QuietRotation DEF InRotation
    <2> QED BY <2>1, <2>2
  <1>2. ASSUME NEW i \in Invocations,
               \/ StartRunner(i) \/ RequestStep(i) \/ Intake(i)
               \/ TakeLock(i, "idle", "intake") /\ UNCHANGED handoffVars
               \/ AdvanceStep(i) /\ UNCHANGED handoffVars
               \/ Die(i) /\ UNCHANGED handoffVars
        PROVE  RotationInv'
    <2>1. Alone(i) /\ pc'[i] \notin InRotation
      BY <1>2, OthersElsewhere
    <2>2. UNCHANGED <<rotating, archive, putBack>>
      BY <1>2 DEF StartRunner, RequestStep, RequestApproval, PostApproval, PostDecision,
           SubmitApproval, SubmitDecision, Intake, handoffVars, dirVars
    <2> QED BY <2>1, <2>2, QuietRotation DEF InRotation
  <1>3. CASE UNCHANGED <<pc, job, rotating, archive, putBack>>
    BY <1>3 DEF RotationInv, ArchivesAreExactUnlessPutBack, Accounted
  <1>4. \/ EditFile /\ UNCHANGED handoffVars
        \/ Sign \/ Discard \/ Tick \/ UNCHANGED vars
        => UNCHANGED <<pc, job, rotating, archive, putBack>>
    BY DEF EditFile, Sign, Discard, Tick, vars, opVars, handoffVars, dirVars
  <1> QED BY <1>1, <1>2, <1>3, <1>4 DEF Next, Step

(* For any number of sessions, whatever the approver, the operator and a kill  *)
(* do meanwhile: an archive holds the payload that it is named after, unless   *)
(* the directory was put back between its validation and its archival.         *)
THEOREM ArchivesHold == Spec => []ArchivesAreExactUnlessPutBack
  <1>1. Init => RotationInv
    BY RotationInit
  <1>2. RotationInv /\ GuidedInv /\ [Next]_vars => RotationInv'
    BY RotationStep DEF GuidedInv, HandoffInv
  <1>3. RotationInv => ArchivesAreExactUnlessPutBack
    BY DEF RotationInv
  <1> QED BY <1>1, <1>2, <1>3, GuidedInvHolds, PTL DEF Spec
=============================================================================
