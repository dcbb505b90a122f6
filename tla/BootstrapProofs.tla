-------------------------- MODULE BootstrapProofs --------------------------
(* Proofs about Bootstrap for any sessions, slugs and acts of the operator.   *)
EXTENDS Bootstrap, FiniteSetTheorems, TLAPS

-----------------------------------------------------------------------------
(* The types of the target and of a session.                                 *)
Values == {"absent", "generated"} \cup Texts \cup Slugs
Places == {"idle", "refused", "stopped", "ready", "recognise", "init", "validate", "look",
           "create", "feature", "check", "stage", "show", "confirm", "clean", "design"}
Prompting == {"stage", "show", "confirm"}
Baseline == {"init", "validate", "look", "create", "feature", "check"}
Preparation == [at : Places, slug : Slugs \cup {"none"}, commits : {"none", "baseline", "design"},
                next : 1..3, shown : SUBSET (Paths \X Values), committed : SUBSET (Paths \X Values),
                meddled : BOOLEAN]

Types ==
  /\ dirs \subseteq Slugs
  /\ tree \in [Paths -> Values]
  /\ index \in [Paths -> Values]
  /\ head = {} \/ \E h \in [Paths -> Values] : head = {h}
  /\ prep \in [Sessions -> Preparation]
  /\ \A g \in Sessions : /\ prep[g].at = "create" => prep[g].next \in 1..2
                         /\ prep[g].at \in Baseline => prep[g].slug \in Slugs

LEMMA TwoFiles == /\ Starter = {"readme", "app"} /\ Len(Files) = 2 /\ Files[1] = "readme" /\ Files[2] = "app"
                  /\ Starter \subseteq Paths /\ Slugs \subseteq Paths
<1>1. DOMAIN Files = {1, 2} /\ Len(Files) = 2 /\ Files[1] = "readme" /\ Files[2] = "app"
  BY DEF Files
<1>2. QED
  BY <1>1 DEF Starter, Paths, ToSet

LEMMA GeneratedValues ==
  ASSUME NEW s \in Slugs, NEW p PROVE Generated(s, p) \in Values
BY DEF Generated, Values

LEMMA TrackedValues ==
  ASSUME Types, NEW p \in Paths
  PROVE  Tracked(p) \in Values
<1>1. CASE head = {}
  BY <1>1 DEF Tracked, Values
<1>2. CASE head # {}
  <2>1. PICK h \in [Paths -> Values] : head = {h}
    BY <1>2 DEF Types
  <2>2. (CHOOSE x \in head : TRUE) = h
    BY <2>1
  <2>3. QED
    BY <1>2, <2>2 DEF Tracked
<1>3. QED
  BY <1>1, <1>2

LEMMA StagedIsTyped == Types => Staged \in SUBSET (Paths \X Values)
BY DEF Types, Staged

(* Where a session goes, the record of its preparation keeps its type.       *)
LEMMA IdleIsTyped == Idle \in Preparation
BY DEF Idle, Preparation, Places

(* A session moves, and the others stay where they are.                      *)
Moves(g, r) ==
  /\ prep' \in [Sessions -> Preparation] /\ r \in Preparation
  /\ prep'[g] = r /\ \A h \in Sessions : h # g => prep'[h] = prep[h]

(* The others stay too, but what they have checked or shown is spoilt.       *)
Spoils(g, r) ==
  /\ prep' \in [Sessions -> Preparation] /\ r \in Preparation
  /\ prep'[g] = r
  /\ \A h \in Sessions : h # g =>
       /\ prep[h].at \notin Prompting => prep'[h] = prep[h]
       /\ prep[h].at \in Prompting => prep'[h] = [prep[h] EXCEPT !.meddled = TRUE]

LEMMA MovesTo ==
  ASSUME Types, NEW g \in Sessions, NEW r \in Preparation, prep' = [prep EXCEPT ![g] = r]
  PROVE  Moves(g, r)
BY DEF Types, Moves

LEMMA SpoilsTo ==
  ASSUME Types, NEW g \in Sessions, NEW r \in Preparation, prep' = Spoil(g, r)
  PROVE  Spoils(g, r)
<1>1. \A h \in Sessions : prep[h] \in Preparation
  BY DEF Types
<1>2. \A q \in Preparation : Spoilt(q) \in Preparation
  BY DEF Spoilt, Preparation
<1>3. \A h \in Sessions : Spoilt(prep[h]) =
        IF prep[h].at \in Prompting THEN [prep[h] EXCEPT !.meddled = TRUE] ELSE prep[h]
  BY DEF Spoilt, Prompting
<1>4. prep' = [h \in Sessions |-> IF h = g THEN r ELSE Spoilt(prep[h])]
  BY DEF Spoil
<1>5. /\ prep' \in [Sessions -> Preparation] /\ prep'[g] = r
      /\ \A h \in Sessions : h # g => prep'[h] = Spoilt(prep[h])
  BY <1>1, <1>2, <1>4
<1>6. QED
  BY <1>3, <1>5 DEF Spoils

LEMMA AtMoves ==
  ASSUME Types, NEW g \in Sessions, NEW to \in Places, At(g, to)
  PROVE  \E r \in Preparation :
           /\ Moves(g, r) /\ r.at = to /\ r.slug = prep[g].slug
           /\ to \in Restful => r.committed = {}
           /\ to \notin Restful =>
                /\ r.commits = prep[g].commits /\ r.next = prep[g].next
                /\ r.shown = prep[g].shown /\ r.committed = prep[g].committed
                /\ r.meddled = prep[g].meddled
<1> DEFINE r == IF to \in Restful THEN [Idle EXCEPT !.at = to, !.slug = prep[g].slug]
                ELSE [prep[g] EXCEPT !.at = to]
<1>1. prep[g] \in Preparation /\ prep \in [Sessions -> Preparation]
  BY DEF Types
<1>2. /\ r \in Preparation /\ r.at = to /\ r.slug = prep[g].slug
      /\ to \in Restful => r.committed = {}
      /\ to \notin Restful =>
              /\ r.commits = prep[g].commits /\ r.next = prep[g].next
              /\ r.shown = prep[g].shown /\ r.committed = prep[g].committed
              /\ r.meddled = prep[g].meddled
  <2>1. CASE to \in Restful
    <3>0. PICK j \in Preparation : j = Idle /\ j.committed = {}
      BY IdleIsTyped DEF Idle
    <3> DEFINE i == [Idle EXCEPT !.at = to]
    <3>1. i \in Preparation /\ i.at = to /\ i.committed = {}
      BY <3>0 DEF Preparation
    <3>2. prep[g].slug \in Slugs \cup {"none"} /\ r = [i EXCEPT !.slug = prep[g].slug]
      BY <1>1, <2>1 DEF Preparation
    <3> HIDE DEF i, r
    <3>3. r \in Preparation /\ r.at = to /\ r.slug = prep[g].slug /\ r.committed = {}
      BY <3>1, <3>2 DEF Preparation
    <3>4. QED
      BY <2>1, <3>3
  <2>2. CASE to \notin Restful
    BY <1>1, <2>2 DEF Preparation
  <2>3. QED
    BY <2>1, <2>2
<1>3. prep' = [prep EXCEPT ![g] = r]
  BY DEF At
<1> HIDE DEF r
<1>4. Moves(g, r)
  BY <1>2, <1>3, MovesTo
<1>5. QED
  BY <1>2, <1>4

Starting(s) == [Idle EXCEPT !.at = "init", !.slug = s, !.commits = "baseline"]

LEMMA StartingIsTyped ==
  ASSUME NEW s \in Slugs
  PROVE  /\ Starting(s) \in Preparation
         /\ Starting(s).at = "init" /\ Starting(s).slug = s /\ Starting(s).commits = "baseline"
         /\ Starting(s).next = 1 /\ Starting(s).committed = {}
<1>1. PICK i \in Preparation : i = Idle /\ i.next = 1 /\ i.committed = {}
  BY IdleIsTyped DEF Idle
<1>2. Starting(s) = [i EXCEPT !.at = "init", !.slug = s, !.commits = "baseline"]
  BY <1>1 DEF Starting
<1>3. QED
  BY <1>1, <1>2 DEF Preparation, Places

LEMMA LookMoves ==
  ASSUME Types, NEW g \in Sessions, prep[g].next \in 1..2,
         prep' = [prep EXCEPT ![g].next = @ + 1]
  PROVE  \E r \in Preparation :
           /\ Moves(g, r) /\ r = [prep[g] EXCEPT !.next = prep[g].next + 1]
           /\ r.next = prep[g].next + 1 /\ r.at = prep[g].at /\ r.slug = prep[g].slug
           /\ r.commits = prep[g].commits /\ r.committed = prep[g].committed
<1> DEFINE r == [prep[g] EXCEPT !.next = prep[g].next + 1]
<1>1. prep[g] \in Preparation
  BY DEF Types
<1>2. /\ r \in Preparation /\ r.next = prep[g].next + 1 /\ r.at = prep[g].at /\ r.slug = prep[g].slug
      /\ r.commits = prep[g].commits /\ r.committed = prep[g].committed
  BY <1>1 DEF Preparation
<1>3. prep' = [prep EXCEPT ![g] = r]
  BY DEF Types
<1>4. Moves(g, r)
  <2> HIDE DEF r
  <2>1. QED
    BY <1>2, <1>3, MovesTo
<1>5. QED
  BY <1>2, <1>4

LEMMA CreateMoves ==
  ASSUME Types, NEW g \in Sessions, prep[g].next \in 1..2,
         prep' = [prep EXCEPT ![g].at = "look", ![g].next = @ + 1]
  PROVE  \E r \in Preparation :
           /\ Moves(g, r) /\ r.next = prep[g].next + 1 /\ r.at = "look" /\ r.slug = prep[g].slug
           /\ r.commits = prep[g].commits /\ r.committed = prep[g].committed
<1> DEFINE q == [prep[g] EXCEPT !.at = "look"]
           p == [prep EXCEPT ![g] = q]
           r == [q EXCEPT !.next = prep[g].next + 1]
<1>1. prep[g] \in Preparation /\ prep \in [Sessions -> Preparation]
  BY DEF Types
<1>2. q \in Preparation /\ q.at = "look" /\ q.next = prep[g].next /\ q.slug = prep[g].slug
      /\ q.commits = prep[g].commits /\ q.committed = prep[g].committed
  BY <1>1 DEF Preparation, Places
<1>3. prep' = [p EXCEPT ![g].next = @ + 1]
  BY <1>1
<1> HIDE DEF q
<1>4. /\ r \in Preparation /\ r.next = prep[g].next + 1 /\ r.at = "look" /\ r.slug = prep[g].slug
      /\ r.commits = prep[g].commits /\ r.committed = prep[g].committed
  BY <1>2 DEF Preparation
<1>5. p \in [Sessions -> Preparation] /\ p[g] = q
  BY <1>1, <1>2
<1>6. prep' = [prep EXCEPT ![g] = r]
  BY <1>1, <1>2, <1>3, <1>5
<1>7. Moves(g, r)
  <2> HIDE DEF r
  <2>1. QED
    BY <1>4, <1>6, MovesTo
<1>8. QED
  BY <1>4, <1>7

LEMMA ShowMoves ==
  ASSUME Types, NEW g \in Sessions, NEW seen \in SUBSET (Paths \X Values),
         prep' = [prep EXCEPT ![g].at = "confirm", ![g].shown = seen]
  PROVE  \E r \in Preparation :
           /\ Moves(g, r) /\ r.at = "confirm" /\ r.shown = seen /\ r.slug = prep[g].slug
           /\ r.commits = prep[g].commits /\ r.committed = prep[g].committed
           /\ r.meddled = prep[g].meddled
<1> DEFINE q == [prep[g] EXCEPT !.at = "confirm"]
           p == [prep EXCEPT ![g] = q]
           r == [q EXCEPT !.shown = seen]
<1>1. prep[g] \in Preparation /\ prep \in [Sessions -> Preparation]
  BY DEF Types
<1>2. q \in Preparation /\ q.at = "confirm" /\ q.slug = prep[g].slug
      /\ q.commits = prep[g].commits /\ q.committed = prep[g].committed /\ q.meddled = prep[g].meddled
  BY <1>1 DEF Preparation, Places
<1>3. prep' = [p EXCEPT ![g].shown = seen]
  BY <1>1
<1> HIDE DEF q
<1>4. /\ r \in Preparation /\ r.at = "confirm" /\ r.shown = seen /\ r.slug = prep[g].slug
      /\ r.commits = prep[g].commits /\ r.committed = prep[g].committed /\ r.meddled = prep[g].meddled
  BY <1>2 DEF Preparation
<1>5. p \in [Sessions -> Preparation] /\ p[g] = q
  BY <1>1, <1>2
<1>6. prep' = [prep EXCEPT ![g] = r]
  BY <1>1, <1>2, <1>3, <1>5
<1>7. Moves(g, r)
  <2> HIDE DEF r
  <2>1. QED
    BY <1>4, <1>6, MovesTo
<1>8. QED
  BY <1>4, <1>7

LEMMA DesignMoves ==
  ASSUME Types, NEW g \in Sessions, NEW s \in Slugs,
         prep' = [prep EXCEPT ![g].at = "design", ![g].slug = s, ![g].commits = "design"]
  PROVE  \E r \in Preparation :
           /\ Moves(g, r) /\ r.at = "design" /\ r.slug = s
           /\ r.commits = "design" /\ r.committed = prep[g].committed
<1> DEFINE q == [prep[g] EXCEPT !.at = "design"]
           p == [prep EXCEPT ![g] = q]
           q2 == [q EXCEPT !.slug = s]
           p2 == [p EXCEPT ![g] = q2]
           r == [q2 EXCEPT !.commits = "design"]
<1>1. prep[g] \in Preparation /\ prep \in [Sessions -> Preparation]
  BY DEF Types
<1>2. q \in Preparation /\ q.at = "design" /\ q.committed = prep[g].committed
  BY <1>1 DEF Preparation, Places
<1>3. prep' = [[p EXCEPT ![g].slug = s] EXCEPT ![g].commits = "design"]
  BY <1>1
<1> HIDE DEF q
<1>4. p \in [Sessions -> Preparation] /\ p[g] = q
  BY <1>1, <1>2
<1>5. q2 \in Preparation /\ q2.at = "design" /\ q2.slug = s /\ q2.committed = prep[g].committed
  BY <1>2 DEF Preparation
<1>6. [p EXCEPT ![g].slug = s] = p2
  BY <1>2, <1>4
<1> HIDE DEF q2
<1>7. p2 \in [Sessions -> Preparation] /\ p2[g] = q2
  BY <1>4, <1>5
<1>8. /\ r \in Preparation /\ r.at = "design" /\ r.slug = s
      /\ r.commits = "design" /\ r.committed = prep[g].committed
  BY <1>5 DEF Preparation
<1>9. prep' = [p2 EXCEPT ![g].commits = "design"]
  <2> HIDE DEF p2
  <2>1. QED
    BY <1>3, <1>6
<1>10. prep' = [prep EXCEPT ![g] = r]
  <2>1. \A h \in Sessions : h # g => p2[h] = prep[h]
    BY <1>1
  <2> HIDE DEF p2
  <2>2. prep' = [p2 EXCEPT ![g] = r]
    BY <1>5, <1>7, <1>9
  <2> HIDE DEF r
  <2>3. QED
    BY <1>1, <1>7, <2>1, <2>2
<1>11. Moves(g, r)
  <2> HIDE DEF r
  <2>1. QED
    BY <1>8, <1>10, MovesTo
<1>12. QED
  BY <1>8, <1>11

-----------------------------------------------------------------------------
(* What an unspoilt session has checked and shown is still so.               *)
Owns(r) == IF r.commits = "baseline" THEN Starter ELSE {r.slug}
Unsettled == {p \in Paths : index[p] # Tracked(p)}

ShownFor(r, unsettled, staged) ==
  /\ r.at \in Baseline => r.commits = "baseline"
  /\ r.at = "design" => r.commits = "design"
  /\ r.at \in Prompting /\ ~r.meddled => unsettled \subseteq Owns(r)
  /\ r.at = "confirm" /\ ~r.meddled => r.shown = staged
  /\ r.committed # {} => r.at \in {"clean", "ready"}
  /\ r.committed # {} /\ ~r.meddled => r.committed = r.shown

ShownInv == \A g \in Sessions : ShownFor(prep[g], Unsettled, Staged)

LEMMA QuietShown ==
  ASSUME Types, ShownInv, NEW g \in Sessions, NEW r, Moves(g, r), UNCHANGED <<index, head>>,
         ShownFor(r, Unsettled, Staged)
  PROVE  ShownInv'
<1>1. Unsettled' = Unsettled /\ Staged' = Staged
  BY DEF Unsettled, Staged, Tracked
<1>2. ASSUME NEW h \in Sessions PROVE ShownFor(prep'[h], Unsettled, Staged)
  BY DEF Moves, ShownInv
<1>3. QED
  BY <1>1, <1>2 DEF ShownInv

LEMMA LoudShown ==
  ASSUME Types, ShownInv, NEW h \in Sessions,
         \/ prep[h].at \notin Prompting /\ prep'[h] = prep[h]
         \/ prep[h].at \in Prompting /\ prep'[h] = [prep[h] EXCEPT !.meddled = TRUE],
         NEW unsettled, NEW staged
  PROVE  ShownFor(prep'[h], unsettled, staged)
<1>1. ShownFor(prep[h], Unsettled, Staged) /\ prep[h] \in Preparation
  BY DEF ShownInv, Types
<1>2. CASE prep[h].at \notin Prompting /\ prep'[h] = prep[h]
  BY <1>1, <1>2 DEF ShownFor, Prompting
<1>3. CASE prep[h].at \in Prompting /\ prep'[h] = [prep[h] EXCEPT !.meddled = TRUE]
  <2>1. PICK q \in Preparation : q = prep[h]
    BY <1>1
  <2>2. PICK r : r = [q EXCEPT !.meddled = TRUE]
    OBVIOUS
  <2>3. r.at = q.at /\ r.committed = q.committed /\ r.commits = q.commits /\ r.meddled
    BY <2>1, <2>2 DEF Preparation
  <2>4. q.committed = {} /\ q.at \notin Baseline /\ q.at # "design"
    BY <1>1, <1>3, <2>1 DEF ShownFor, Prompting, Baseline
  <2>5. ShownFor(r, unsettled, staged)
    BY <2>3, <2>4 DEF ShownFor
  <2>6. QED
    BY <1>3, <2>1, <2>2, <2>5
<1>4. QED
  BY <1>2, <1>3

LEMMA ShownInit == Init => ShownInv
<1> SUFFICES ASSUME Init PROVE ShownInv
  OBVIOUS
<1>1. PICK who \in SUBSET Sessions :
        prep = [g \in Sessions |-> [Idle EXCEPT !.at = IF g \in who THEN "idle" ELSE "ready"]]
  BY DEF Init, Start
<1>2. ASSUME NEW g \in Sessions PROVE prep[g].committed = {} /\ prep[g].at \in {"idle", "ready"}
  BY <1>1 DEF Idle
<1>3. QED
  BY <1>2 DEF ShownInv, ShownFor, Baseline, Prompting

(* The sessions whose step changes neither what is staged nor what is        *)
(* committed, and that have shown nothing yet or no longer.                  *)
LEMMA IdleShown ==
  ASSUME Types, ShownInv, NEW g \in Sessions, NEW r, Moves(g, r), UNCHANGED <<index, head>>,
         r.at \notin Prompting, r.committed = {},
         r.at \in Baseline => r.commits = "baseline",
         r.at = "design" => r.commits = "design"
  PROVE  ShownInv'
<1>1. ShownFor(r, Unsettled, Staged)
  BY DEF ShownFor, Prompting
<1>2. QED
  BY <1>1, QuietShown

LEMMA GotoShown ==
  ASSUME Types, ShownInv, NEW g \in Sessions, NEW to \in Places, At(g, to), UNCHANGED <<index, head>>,
         to \notin Prompting, prep[g].at \notin {"clean", "ready"} \/ to \in Restful,
         to \in Baseline => prep[g].at \in Baseline, to # "design"
  PROVE  ShownInv'
<1>1. PICK r \in Preparation :
         /\ Moves(g, r) /\ r.at = to
         /\ to \in Restful => r.committed = {}
         /\ to \notin Restful => r.commits = prep[g].commits /\ r.committed = prep[g].committed
  BY AtMoves
<1>2. ShownFor(prep[g], Unsettled, Staged)
  BY DEF ShownInv
<1>3. r.committed = {} /\ (r.at \in Baseline => r.commits = "baseline")
  BY <1>1, <1>2 DEF ShownFor, Baseline, Restful
<1>4. QED
  BY <1>1, <1>3, IdleShown

-----------------------------------------------------------------------------
(* Types are kept.                                                           *)
FilesTyped ==
  /\ dirs' \subseteq Slugs
  /\ tree' \in [Paths -> Values]
  /\ index' \in [Paths -> Values]
  /\ (head' = {} \/ \E h \in [Paths -> Values] : head' = {h})

LEMMA TypesMoved ==
  ASSUME Types, FilesTyped, NEW g \in Sessions, NEW r, Moves(g, r) \/ Spoils(g, r),
         r.at = "create" => r.next \in 1..2, r.at \in Baseline => r.slug \in Slugs
  PROVE  Types'
<1>1. prep' \in [Sessions -> Preparation]
  BY DEF Moves, Spoils
<1>2. ASSUME NEW h \in Sessions
      PROVE  /\ prep'[h].at = "create" => prep'[h].next \in 1..2
             /\ prep'[h].at \in Baseline => prep'[h].slug \in Slugs
  <2>1. CASE h = g
    BY <2>1 DEF Moves, Spoils
  <2>2. CASE h # g
    <3>1. prep[h] \in Preparation
      BY DEF Types
    <3>2. prep'[h] = prep[h] \/ (prep[h].at \in Prompting /\ prep'[h] = [prep[h] EXCEPT !.meddled = TRUE])
      BY <2>2 DEF Moves, Spoils
    <3>3. prep'[h].at = prep[h].at /\ prep'[h].next = prep[h].next /\ prep'[h].slug = prep[h].slug
      BY <3>1, <3>2 DEF Preparation
    <3>4. QED
      BY <3>3 DEF Types
  <2>3. QED
    BY <2>1, <2>2
<1>3. /\ dirs' \subseteq Slugs
      /\ tree' \in [Paths -> Values]
      /\ index' \in [Paths -> Values]
      /\ (head' = {} \/ \E h \in [Paths -> Values] : head' = {h})
  BY DEF FilesTyped
<1>4. \A h \in Sessions : /\ prep'[h].at = "create" => prep'[h].next \in 1..2
                          /\ prep'[h].at \in Baseline => prep'[h].slug \in Slugs
  BY <1>2
<1>5. (Baseline)' = Baseline /\ (Preparation)' = Preparation /\ (Values)' = Values /\ (Paths)' = Paths
  OBVIOUS
<1>6. QED
  BY <1>1, <1>3, <1>4, <1>5 DEF Types

LEMMA SameFiles ==
  ASSUME Types, UNCHANGED <<dirs, tree, index, head>>
  PROVE  FilesTyped
BY DEF Types, FilesTyped

LEMMA GotoTypes ==
  ASSUME Types, NEW g \in Sessions, NEW to \in Places, At(g, to), FilesTyped,
         to = "create" => prep[g].next \in 1..2, to \in Baseline => prep[g].at \in Baseline
  PROVE  Types'
<1>1. PICK r \in Preparation :
         /\ Moves(g, r) /\ r.at = to /\ r.slug = prep[g].slug
         /\ (to \notin Restful => r.next = prep[g].next)
  BY AtMoves
<1>2. /\ r.at = "create" => r.next \in 1..2
      /\ r.at \in Baseline => r.slug \in Slugs
  BY <1>1 DEF Restful, Types
<1>3. QED
  BY <1>1, <1>2, TypesMoved

LEMMA TypesInit == Init => Types
<1> SUFFICES ASSUME Init PROVE Types
  OBVIOUS
<1>1. PICK who \in SUBSET Sessions :
        prep = [g \in Sessions |-> [Idle EXCEPT !.at = IF g \in who THEN "idle" ELSE "ready"]]
  BY DEF Init, Start
<1>2. PICK i \in Preparation : i = Idle
  BY IdleIsTyped
<1>3. ASSUME NEW g \in Sessions PROVE prep[g] \in Preparation /\ prep[g].at \notin Baseline
  <2>1. PICK a \in {"idle", "ready"} : prep[g] = [i EXCEPT !.at = a]
    BY <1>1, <1>2
  <2>2. QED
    BY <2>1 DEF Preparation, Places, Baseline
<1>4. prep \in [Sessions -> Preparation]
  BY <1>1, <1>3
<1>5. tree \in [Paths -> Values] /\ index \in [Paths -> Values] /\ head = {} /\ dirs = {}
  BY DEF Init, Start, Nothing, Values
<1>6. QED
  BY <1>3, <1>4, <1>5 DEF Types, Baseline

LEMMA NamedAreSlugs == Types => Scaffold \subseteq Slugs /\ Candidates \subseteq Named
BY DEF Types, Scaffold, Candidates, Named

-----------------------------------------------------------------------------
(* One lemma per kind of step, for both.                                     *)
LEMMA InspectKeeps ==
  ASSUME Types, ShownInv, NEW g \in Sessions, Inspect(g)
  PROVE  Types' /\ ShownInv'
<1> USE DEF Restful, Places, Prompting, Baseline
<1>1. UNCHANGED <<git, dirs, tree, index, head>> /\ FilesTyped /\ prep[g].at \in Restful
  BY SameFiles DEF Inspect
<1>2. \/ At(g, "recognise") \/ At(g, "refused")
      \/ \E s \in Slugs : prep' = [prep EXCEPT ![g] = Starting(s)]
  BY DEF Inspect, Types, Starting
<1>3. CASE At(g, "recognise") \/ At(g, "refused")
  BY <1>1, <1>3, GotoTypes, GotoShown
<1>4. CASE \E s \in Slugs : prep' = [prep EXCEPT ![g] = Starting(s)]
  <2>1. PICK s \in Slugs : prep' = [prep EXCEPT ![g] = Starting(s)]
    BY <1>4
  <2>2. PICK r \in Preparation : r = Starting(s) /\ r.at = "init" /\ r.slug = s /\ r.commits = "baseline"
                                 /\ r.committed = {}
    BY StartingIsTyped
  <2>3. Moves(g, r)
    BY <2>1, <2>2, MovesTo
  <2>4. Types'
    BY <1>1, <2>2, <2>3, TypesMoved
  <2>5. ShownInv'
    BY <1>1, <2>2, <2>3, IdleShown
  <2>6. QED
    BY <2>4, <2>5
<1>5. QED
  BY <1>2, <1>3, <1>4

LEMMA WriteKeeps ==
  ASSUME Types, ShownInv, NEW g \in Sessions,
         InitGit(g) \/ Validate(g) \/ Look(g) \/ Create(g) \/ DieWriting(g) \/ MakeFeature(g)
  PROVE  Types' /\ ShownInv'
<1> USE DEF Restful, Places, Prompting, Baseline
<1>0. prep[g] \in Preparation /\ ShownFor(prep[g], Unsettled, Staged)
  BY DEF Types, ShownInv
<1>1. CASE InitGit(g) \/ Validate(g)
  <2>1. /\ UNCHANGED <<dirs, tree, index, head>> /\ prep[g].at \in {"init", "validate"}
        /\ At(g, "refused") \/ At(g, "validate") \/ At(g, "look")
    BY <1>1 DEF InitGit, Validate, Goto, Refuse
  <2>2. QED
    BY <2>1, SameFiles, GotoTypes, GotoShown
<1>2. CASE Look(g)
  <2>1. UNCHANGED <<dirs, tree, index, head>> /\ prep[g].at = "look" /\ prep[g].next \in 1..3
    BY <1>0, <1>2 DEF Look, Goto, Preparation
  <2>2. \/ At(g, "feature")
        \/ prep[g].next \in 1..2 /\ At(g, "create")
        \/ prep[g].next \in 1..2 /\ prep' = [prep EXCEPT ![g].next = @ + 1]
    BY <1>2, <2>1, TwoFiles DEF Look, Goto
  <2>3. CASE At(g, "feature") \/ (prep[g].next \in 1..2 /\ At(g, "create"))
    BY <2>1, <2>3, SameFiles, GotoTypes, GotoShown
  <2>4. CASE prep[g].next \in 1..2 /\ prep' = [prep EXCEPT ![g].next = @ + 1]
    <3>1. PICK r \in Preparation :
             /\ Moves(g, r) /\ r.at = prep[g].at /\ r.commits = prep[g].commits
             /\ r.committed = prep[g].committed /\ r.slug = prep[g].slug
      BY <2>4, LookMoves
    <3>2. r.at = "look" /\ r.committed = {} /\ r.commits = "baseline" /\ r.slug \in Slugs
      BY <1>0, <2>1, <3>1 DEF ShownFor, Types
    <3>3. QED
      BY <2>1, <3>1, <3>2, SameFiles, TypesMoved, IdleShown
  <2>5. QED
    BY <2>2, <2>3, <2>4
<1>3. CASE Create(g)
  <2>1. prep[g].at = "create" /\ prep[g].next \in 1..2 /\ Files[prep[g].next] \in Paths
    BY <1>3, TwoFiles DEF Create, Types
  <2>2. CASE Refuse(g)
    BY <2>1, <2>2, SameFiles, GotoTypes, GotoShown DEF Refuse, Goto
  <2>3. CASE ~Refuse(g)
    <3>1. /\ tree' = [tree EXCEPT ![Files[prep[g].next]] = Generated(prep[g].slug, Files[prep[g].next])]
          /\ prep' = [prep EXCEPT ![g].at = "look", ![g].next = @ + 1]
          /\ UNCHANGED <<git, dirs, index, head, acts, foul>>
      BY <1>3, <2>3 DEF Create
    <3>2. PICK r \in Preparation :
             /\ Moves(g, r) /\ r.at = "look" /\ r.commits = prep[g].commits
             /\ r.committed = prep[g].committed /\ r.slug = prep[g].slug
      BY <2>1, <3>1, CreateMoves
    <3>3. r.committed = {} /\ r.commits = "baseline" /\ r.slug \in Slugs
      BY <1>0, <2>1, <3>2 DEF ShownFor, Types
    <3>4. FilesTyped
      <4>1. Generated(prep[g].slug, Files[prep[g].next]) \in Values
        BY <3>2, <3>3, GeneratedValues
      <4>2. QED
        BY <3>1, <4>1 DEF Types, FilesTyped
    <3>5. QED
      BY <3>1, <3>2, <3>3, <3>4, TypesMoved, IdleShown
  <2>4. QED
    BY <2>2, <2>3
<1>4. CASE DieWriting(g)
  <2>1. prep[g].at = "create" /\ prep[g].next \in 1..2 /\ Files[prep[g].next] \in Paths
    BY <1>4, TwoFiles DEF DieWriting, Types
  <2>2. /\ tree' = [tree EXCEPT ![Files[prep[g].next]] = "blank"]
        /\ At(g, "stopped") /\ UNCHANGED <<dirs, index, head>>
    BY <1>4 DEF DieWriting
  <2>3. FilesTyped
    BY <2>1, <2>2 DEF Types, FilesTyped, Values, Texts
  <2>4. QED
    BY <2>1, <2>2, <2>3, GotoTypes, GotoShown
<1>5. CASE MakeFeature(g)
  <2>1. /\ dirs' = dirs \cup {prep[g].slug} /\ prep[g].at = "feature"
        /\ At(g, "check") /\ UNCHANGED <<tree, index, head>>
    BY <1>5 DEF MakeFeature
  <2>2. FilesTyped
    BY <2>1 DEF Types, FilesTyped
  <2>3. QED
    BY <2>1, <2>2, GotoTypes, GotoShown
<1>6. QED
  BY <1>1, <1>2, <1>3, <1>4, <1>5

LEMMA CommitKeeps ==
  ASSUME Types, ShownInv, NEW g \in Sessions,
         Check(g) \/ NpmFails(g) \/ Stage(g) \/ Show(g) \/ Decline(g) \/ Commit(g) \/ CheckClean(g)
  PROVE  Types' /\ ShownInv'
<1> USE DEF Restful, Places, Prompting, Baseline
<1>0. prep[g] \in Preparation /\ ShownFor(prep[g], Unsettled, Staged) /\ Staged \in SUBSET (Paths \X Values)
  BY StagedIsTyped DEF Types, ShownInv
<1>1. CASE Check(g) \/ NpmFails(g) \/ Decline(g)
  <2>1. /\ UNCHANGED <<dirs, tree, index, head>> /\ prep[g].at \in {"check", "confirm"}
        /\ \/ At(g, "refused") \/ At(g, "stopped")
           \/ At(g, "stage") /\ Unrelated(Starter) = {} /\ prep[g].at = "check"
    BY <1>1 DEF Check, NpmFails, Decline, Goto, Refuse
  <2>2. CASE At(g, "refused") \/ At(g, "stopped")
    BY <2>1, <2>2, SameFiles, GotoTypes, GotoShown
  <2>3. CASE At(g, "stage") /\ Unrelated(Starter) = {} /\ prep[g].at = "check"
    <3>1. PICK r \in Preparation :
             /\ Moves(g, r) /\ r.at = "stage" /\ r.commits = prep[g].commits
             /\ r.committed = prep[g].committed
      BY <2>3, AtMoves
    <3>2. r.commits = "baseline" /\ r.committed = {}
      BY <1>0, <2>3, <3>1 DEF ShownFor
    <3>3. Unsettled \subseteq Starter
      BY <2>3 DEF Unrelated, Unsettled
    <3>4. ShownFor(r, Unsettled, Staged)
      BY <3>1, <3>2, <3>3 DEF ShownFor, Owns
    <3>5. Types'
      BY <2>1, <2>3, SameFiles, GotoTypes
    <3>6. QED
      BY <2>1, <3>1, <3>4, <3>5, QuietShown
  <2>4. QED
    BY <2>1, <2>2, <2>3
<1>2. CASE Stage(g)
  <2>1. prep[g].at = "stage"
    BY <1>2 DEF Stage
  <2>2. CASE Refuse(g)
    BY <2>1, <2>2, SameFiles, GotoTypes, GotoShown DEF Refuse, Goto
  <2>3. CASE ~Refuse(g)
    <3>1. /\ index' = [p \in Paths |-> IF p \in Owned(g) THEN tree[p] ELSE index[p]]
          /\ prep' = Spoil(g, [prep[g] EXCEPT !.at = "show"])
          /\ UNCHANGED <<git, dirs, tree, head, acts, foul>>
      BY <1>2, <2>3 DEF Stage
    <3>2. PICK r : r = [prep[g] EXCEPT !.at = "show"]
      OBVIOUS
    <3>3. /\ r \in Preparation /\ r.at = "show" /\ r.commits = prep[g].commits /\ r.slug = prep[g].slug
          /\ r.committed = prep[g].committed /\ r.meddled = prep[g].meddled
      BY <1>0, <3>2 DEF Preparation
    <3>4. Spoils(g, r)
      BY <3>1, <3>2, <3>3, SpoilsTo
    <3>5. FilesTyped
      BY <3>1 DEF Types, FilesTyped
    <3>6. Types'
      BY <3>3, <3>4, <3>5, TypesMoved
    <3>7. r.committed = {} /\ (~r.meddled => Unsettled' \subseteq Owns(r))
      <4>1. r.committed = {} /\ (~r.meddled => Unsettled \subseteq Owns(prep[g]))
        BY <1>0, <2>1, <3>3 DEF ShownFor
      <4>2. Owns(r) = Owns(prep[g]) /\ Owned(g) = Owns(prep[g])
        BY <3>3 DEF Owns, Owned
      <4>3. \A p \in Paths : p \in Unsettled' => p \in Unsettled \/ p \in Owned(g)
        BY <3>1 DEF Unsettled, Tracked
      <4>4. Unsettled' \subseteq Paths
        BY DEF Unsettled
      <4>5. QED
        BY <4>1, <4>2, <4>3, <4>4
    <3>8. ShownFor(r, Unsettled', Staged')
      BY <3>3, <3>7 DEF ShownFor
    <3>9. ASSUME NEW h \in Sessions PROVE ShownFor(prep'[h], Unsettled', Staged')
      <4>1. CASE h = g
        BY <3>4, <3>8, <4>1 DEF Spoils
      <4>2. CASE h # g
        <5>1. \/ prep[h].at \notin Prompting /\ prep'[h] = prep[h]
              \/ prep[h].at \in Prompting /\ prep'[h] = [prep[h] EXCEPT !.meddled = TRUE]
          BY <3>4, <4>2 DEF Spoils
        <5>2. QED
          BY <5>1, LoudShown
      <4>3. QED
        BY <4>1, <4>2
    <3>10. QED
      BY <3>6, <3>9 DEF ShownInv
  <2>4. QED
    BY <2>2, <2>3
<1>3. CASE Show(g)
  <2> DEFINE seen == IF prep[g].commits = "baseline" THEN Staged ELSE {c \in Staged : c[1] = prep[g].slug}
  <2>1. /\ prep[g].at = "show" /\ UNCHANGED <<dirs, tree, index, head>>
        /\ prep' = [prep EXCEPT ![g].at = "confirm", ![g].shown = seen]
    BY <1>3 DEF Show
  <2>2. seen \in SUBSET (Paths \X Values)
    BY <1>0
  <2>3. PICK r \in Preparation :
           /\ Moves(g, r) /\ r.at = "confirm" /\ r.shown = seen
           /\ r.commits = prep[g].commits /\ r.committed = prep[g].committed
           /\ r.meddled = prep[g].meddled /\ r.slug = prep[g].slug
    <3> HIDE DEF seen
    <3>1. QED
      BY <2>1, <2>2, ShowMoves
  <2>4. r.committed = {} /\ (~r.meddled => Unsettled \subseteq Owns(r))
    <3>1. Owns(r) = Owns(prep[g])
      BY <2>3 DEF Owns
    <3>2. QED
      BY <1>0, <2>1, <2>3, <3>1 DEF ShownFor
  <2>5. ~r.meddled => seen = Staged
    <3>1. \A c \in Staged : c[1] \in Unsettled
      BY DEF Staged, Unsettled
    <3>2. QED
      BY <2>3, <2>4, <3>1 DEF Owns
  <2>6. ShownFor(r, Unsettled, Staged)
    BY <2>3, <2>4, <2>5 DEF ShownFor
  <2>7. Types'
    BY <2>1, <2>3, SameFiles, TypesMoved
  <2>8. QED
    BY <2>1, <2>3, <2>6, <2>7, QuietShown
<1>4. CASE Commit(g)
  <2>1. prep[g].at = "confirm"
    BY <1>4 DEF Commit
  <2>2. CASE Refuse(g)
    BY <2>1, <2>2, SameFiles, GotoTypes, GotoShown DEF Refuse, Goto
  <2>3. CASE ~Refuse(g)
    <3>1. /\ head' = {index}
          /\ prep' = Spoil(g, [prep[g] EXCEPT !.at = "clean", !.committed = Staged])
          /\ UNCHANGED <<git, dirs, tree, index, acts, foul>>
      BY <1>4, <2>3 DEF Commit
    <3>2. PICK r : r = [prep[g] EXCEPT !.at = "clean", !.committed = Staged]
      OBVIOUS
    <3>3. /\ r \in Preparation /\ r.at = "clean" /\ r.committed = Staged
          /\ r.shown = prep[g].shown /\ r.meddled = prep[g].meddled
      BY <1>0, <3>2 DEF Preparation
    <3>4. Spoils(g, r)
      BY <3>1, <3>2, <3>3, SpoilsTo
    <3>5. FilesTyped
      BY <3>1 DEF Types, FilesTyped
    <3>6. Types'
      BY <3>3, <3>4, <3>5, TypesMoved
    <3>7. ShownFor(r, Unsettled', Staged')
      BY <1>0, <2>1, <3>3 DEF ShownFor
    <3>8. ASSUME NEW h \in Sessions PROVE ShownFor(prep'[h], Unsettled', Staged')
      <4>1. CASE h = g
        BY <3>4, <3>7, <4>1 DEF Spoils
      <4>2. CASE h # g
        <5>1. \/ prep[h].at \notin Prompting /\ prep'[h] = prep[h]
              \/ prep[h].at \in Prompting /\ prep'[h] = [prep[h] EXCEPT !.meddled = TRUE]
          BY <3>4, <4>2 DEF Spoils
        <5>2. QED
          BY <5>1, LoudShown
      <4>3. QED
        BY <4>1, <4>2
    <3>9. QED
      BY <3>6, <3>8 DEF ShownInv
  <2>4. QED
    BY <2>2, <2>3
<1>5. CASE CheckClean(g)
  <2>1. /\ UNCHANGED <<dirs, tree, index, head>> /\ prep[g].at = "clean"
        /\ At(g, "ready") \/ At(g, "stopped")
    BY <1>5 DEF CheckClean, Goto
  <2>2. Types'
    BY <2>1, SameFiles, GotoTypes
  <2>3. CASE At(g, "stopped")
    BY <2>1, <2>2, <2>3, GotoShown
  <2>4. CASE At(g, "ready")
    <3>1. PICK r \in Preparation :
             /\ Moves(g, r) /\ r.at = "ready" /\ r.committed = prep[g].committed
             /\ r.shown = prep[g].shown /\ r.meddled = prep[g].meddled
      BY <2>4, AtMoves
    <3>2. ShownFor(r, Unsettled, Staged)
      BY <1>0, <3>1 DEF ShownFor
    <3>3. QED
      BY <2>1, <2>2, <3>1, <3>2, QuietShown
  <2>5. QED
    BY <2>1, <2>3, <2>4
<1>6. QED
  BY <1>1, <1>2, <1>3, <1>4, <1>5

LEMMA DesignKeeps ==
  ASSUME Types, ShownInv, NEW g \in Sessions, Recognise(g) \/ Design(g) \/ Die(g)
  PROVE  Types' /\ ShownInv'
<1> USE DEF Restful, Places, Prompting, Baseline
<1>0. prep[g] \in Preparation /\ ShownFor(prep[g], Unsettled, Staged)
  BY DEF Types, ShownInv
<1>1. CASE Recognise(g)
  <2>1. /\ prep[g].at = "recognise" /\ UNCHANGED <<tree, index, head>>
        /\ \/ UNCHANGED dirs /\ (At(g, "refused") \/ At(g, "ready"))
           \/ \E s \in Scaffold :
                /\ prep' = [prep EXCEPT ![g].at = "design", ![g].slug = s, ![g].commits = "design"]
                /\ dirs' = dirs \cup {s}
    BY <1>1 DEF Recognise
  <2>2. CASE UNCHANGED dirs /\ (At(g, "refused") \/ At(g, "ready"))
    BY <2>1, <2>2, SameFiles, GotoTypes, GotoShown
  <2>3. CASE \E s \in Scaffold :
                /\ prep' = [prep EXCEPT ![g].at = "design", ![g].slug = s, ![g].commits = "design"]
                /\ dirs' = dirs \cup {s}
    <3>1. PICK s \in Slugs :
                /\ prep' = [prep EXCEPT ![g].at = "design", ![g].slug = s, ![g].commits = "design"]
                /\ dirs' = dirs \cup {s}
      BY <2>3, NamedAreSlugs
    <3>2. PICK r \in Preparation :
             /\ Moves(g, r) /\ r.at = "design" /\ r.slug = s
             /\ r.commits = "design" /\ r.committed = prep[g].committed
      BY <3>1, DesignMoves
    <3>3. r.committed = {}
      BY <1>0, <2>1, <3>2 DEF ShownFor
    <3>4. FilesTyped
      BY <2>1, <3>1 DEF Types, FilesTyped
    <3>5. Types'
      BY <3>2, <3>4, TypesMoved
    <3>6. ShownInv'
      BY <2>1, <3>2, <3>3, IdleShown
    <3>7. QED
      BY <3>5, <3>6
  <2>4. QED
    BY <2>1, <2>2, <2>3
<1>2. CASE Design(g)
  <2>1. /\ prep[g].at = "design" /\ UNCHANGED <<dirs, tree, index, head>>
        /\ \/ At(g, "ready") \/ At(g, "refused") \/ At(g, "stopped")
           \/ At(g, "stage") /\ Unrelated({prep[g].slug}) = {}
    BY <1>2 DEF Design, Goto
  <2>2. CASE At(g, "ready") \/ At(g, "refused") \/ At(g, "stopped")
    BY <2>1, <2>2, SameFiles, GotoTypes, GotoShown
  <2>3. CASE At(g, "stage") /\ Unrelated({prep[g].slug}) = {}
    <3>1. PICK r \in Preparation :
             /\ Moves(g, r) /\ r.at = "stage" /\ r.commits = prep[g].commits
             /\ r.committed = prep[g].committed /\ r.slug = prep[g].slug
      BY <2>3, AtMoves
    <3>2. r.commits = "design" /\ r.committed = {}
      BY <1>0, <2>1, <3>1 DEF ShownFor
    <3>3. Unsettled \subseteq {r.slug}
      BY <2>3, <3>1 DEF Unrelated, Unsettled
    <3>4. ShownFor(r, Unsettled, Staged)
      BY <3>1, <3>2, <3>3 DEF ShownFor, Owns
    <3>5. Types'
      BY <2>1, <2>3, SameFiles, GotoTypes
    <3>6. QED
      BY <2>1, <3>1, <3>4, <3>5, QuietShown
  <2>4. QED
    BY <2>1, <2>2, <2>3
<1>3. CASE Die(g)
  <2>1. UNCHANGED <<dirs, tree, index, head>> /\ At(g, "stopped")
    BY <1>3 DEF Die, Goto
  <2>2. QED
    BY <2>1, SameFiles, GotoTypes, GotoShown
<1>4. QED
  BY <1>1, <1>2, <1>3

LEMMA OperatorKeeps ==
  ASSUME Types, ShownInv, WriteDesign \/ EditFile \/ StageByHand \/ UNCHANGED projectVars
  PROVE  Types' /\ ShownInv'
<1>1. CASE WriteDesign \/ EditFile \/ UNCHANGED projectVars
  <2>1. UNCHANGED <<index, head, prep>>
    BY <1>1 DEF WriteDesign, EditFile, projectVars
  <2>2. dirs' \subseteq Slugs /\ tree' \in [Paths -> Values]
    <3>1. CASE WriteDesign
      BY <3>1 DEF WriteDesign, Types, Values, Texts
    <3>2. CASE EditFile
      BY <3>2 DEF EditFile, Types, Values
    <3>3. CASE UNCHANGED projectVars
      BY <3>3 DEF projectVars, Types
    <3>4. QED
      BY <1>1, <3>1, <3>2, <3>3
  <2>3. Types'
    BY <2>1, <2>2 DEF Types
  <2>4. Unsettled' = Unsettled /\ Staged' = Staged
    BY <2>1 DEF Unsettled, Staged, Tracked
  <2>5. QED
    BY <2>1, <2>3, <2>4 DEF ShownInv
<1>2. CASE StageByHand
  <2>0. PICK p \in Paths : \E text \in Texts \cup {tree[p]} :
          /\ tree' = [tree EXCEPT ![p] = text] /\ index' = [index EXCEPT ![p] = text]
          /\ dirs' = dirs \cup ({p} \cap Slugs)
          /\ prep' = [g \in Sessions |-> Spoilt(prep[g])] /\ UNCHANGED head
    BY <1>2 DEF StageByHand
  <2>1. PICK text \in Texts \cup {tree[p]} :
          /\ tree' = [tree EXCEPT ![p] = text] /\ index' = [index EXCEPT ![p] = text]
          /\ dirs' = dirs \cup ({p} \cap Slugs)
          /\ prep' = [g \in Sessions |-> Spoilt(prep[g])] /\ UNCHANGED head
    BY <2>0
  <2>2. text \in Values
    BY DEF Types, Values
  <2>3. ASSUME NEW h \in Sessions
        PROVE  /\ prep[h] \in Preparation /\ prep'[h] \in Preparation
               /\ \/ prep[h].at \notin Prompting /\ prep'[h] = prep[h]
                  \/ prep[h].at \in Prompting /\ prep'[h] = [prep[h] EXCEPT !.meddled = TRUE]
    <3>1. prep[h] \in Preparation /\ prep'[h] = Spoilt(prep[h])
      BY <2>1 DEF Types
    <3>2. prep'[h] = IF prep[h].at \in Prompting THEN [prep[h] EXCEPT !.meddled = TRUE] ELSE prep[h]
      BY <3>1 DEF Spoilt, Prompting
    <3>3. [prep[h] EXCEPT !.meddled = TRUE] \in Preparation
      BY <3>1 DEF Preparation
    <3>4. QED
      BY <3>1, <3>2, <3>3
  <2>4. ASSUME NEW h \in Sessions
        PROVE  prep'[h].at = prep[h].at /\ prep'[h].next = prep[h].next /\ prep'[h].slug = prep[h].slug
    <3>1. PICK q \in Preparation : q = prep[h]
      BY <2>3
    <3>2. PICK r : r = [q EXCEPT !.meddled = TRUE]
      OBVIOUS
    <3>3. r.at = q.at /\ r.next = q.next /\ r.slug = q.slug
      BY <3>1, <3>2 DEF Preparation
    <3>4. prep'[h] = q \/ prep'[h] = r
      BY <2>3, <3>1, <3>2
    <3>5. QED
      BY <3>1, <3>3, <3>4
  <2>5. prep' \in [Sessions -> Preparation]
    BY <2>1, <2>3
  <2>6. tree' \in [Paths -> Values] /\ index' \in [Paths -> Values] /\ dirs' \subseteq Slugs
    BY <2>1, <2>2 DEF Types
  <2>7. Types'
    BY <2>1, <2>4, <2>5, <2>6 DEF Types
  <2>8. ShownInv'
    BY <2>3, LoudShown DEF ShownInv
  <2>9. QED
    BY <2>7, <2>8
<1>3. QED
  BY <1>1, <1>2

LEMMA ShownStep ==
  ASSUME Types, ShownInv, [Next]_projectVars
  PROVE  Types' /\ ShownInv'
<1>1. CASE \E g \in Sessions : Prepare(g) \/ Die(g) \/ DieWriting(g)
  <2>1. PICK g \in Sessions : Prepare(g) \/ Die(g) \/ DieWriting(g)
    BY <1>1
  <2>2. QED
    BY <2>1, InspectKeeps, WriteKeeps, CommitKeeps, DesignKeeps DEF Prepare
<1>2. QED
  BY <1>1, OperatorKeeps DEF Next

(* git add and the prompts of project-bootstrap.ts: what a session commits   *)
(* is what it showed, however many sessions and whatever the operator edits  *)
(* or left staged, unless somebody staged or committed after its check.      *)
THEOREM ShownHolds == Spec => []ShownIsCommitted
<1> DEFINE Inv == Types /\ ShownInv
<1>1. Init => Inv
  BY TypesInit, ShownInit
<1>2. Inv /\ [Next]_projectVars => Inv'
  BY ShownStep
<1>3. Inv => ShownIsCommitted
  <2>1. Types => DOMAIN prep = Sessions
    BY DEF Types
  <2>2. QED
    BY <2>1 DEF ShownInv, ShownFor, ShownIsCommitted
<1> HIDE DEF Inv
<1>4. QED
  BY <1>1, <1>2, <1>3, PTL DEF Spec

-----------------------------------------------------------------------------
(* Sessions that follow each other resume.                                   *)

(* A design is named by its slug alone, which no other name of the model is; *)
(* in the code its path is one below docs/features.                          *)
SlugsAreNames == Slugs # {} /\ Slugs \cap {"readme", "app", "absent", "none"} = {}

Whole == Starter \subseteq Present

(* What is there belongs to the feature s: each file is as generated or as   *)
(* authored, staged only as it is, and committed only as it is staged.       *)
Grown(s) ==
  /\ dirs \subseteq {s}
  /\ \A p \in Starter : tree[p] \in {"absent", Generated(s, p)}
  /\ \A p \in Slugs \ {s} : tree[p] = "absent"
  /\ tree[s] \in {"absent", "text"}
  /\ \A p \in Paths : index[p] \in {"absent", tree[p]} /\ Tracked(p) \in {"absent", index[p]}
  /\ ~git => dirs = {} /\ Present = {}
  /\ head = {} => tree[s] = "absent"
  /\ head # {} => dirs = {s} /\ \A p \in Starter : Tracked(p) = Generated(s, p)

(* How far the session that is at work has come.                             *)
OnCourse(s, r) ==
  /\ r.at \in Baseline => head = {} /\ r.slug = s /\ r.commits = "baseline"
  /\ r.at \in Baseline \ {"init"} => git
  /\ r.at \in {"init", "validate"} => r.next = 1
  /\ r.at \in {"look", "create"} => \A i \in 1..2 : i < r.next => Files[i] \in Present
  /\ r.at = "create" => Files[r.next] \notin Present
  /\ r.at \in {"feature", "check"} => Whole
  /\ r.at = "check" => dirs = {s}
  /\ r.at \in {"recognise", "design"} => head # {}
  /\ r.at = "design" => r.slug = s /\ r.commits = "design"
  /\ r.at \in Prompting => r.slug = s /\ dirs = {s}
  /\ r.at \in Prompting /\ r.commits = "baseline" =>
       head = {} /\ Whole /\ (r.at # "stage" => \A p \in Starter : index[p] = tree[p])
  /\ r.at \in Prompting /\ r.commits # "baseline" =>
       head # {} /\ tree[s] = "text" /\ Tracked(s) = "absent" /\ (r.at # "stage" => index[s] = "text")

(* One session at a time, all for the same feature, and none refused.        *)
Settled(s) ==
  /\ \A g \in Sessions : prep[g].slug \in {"none", s} /\ prep[g].at # "refused"
  /\ \A g, h \in Active : g = h
  /\ \A g \in Active : OnCourse(s, prep[g])
  /\ dirs # {} \/ Present # {} => \E g \in Sessions : prep[g].slug = s

Good(s) == Grown(s) /\ Settled(s)
ResumeInv == ~foul => \E s \in Slugs : Good(s)

Still == UNCHANGED <<git, dirs, tree, index, head>>

LEMMA StillGrown ==
  ASSUME Still, NEW s, Grown(s)
  PROVE  Grown(s)' /\ \A r : OnCourse(s, r) => OnCourse(s, r)'
<1>1. Present' = Present /\ \A p : Tracked(p)' = Tracked(p)
  BY DEF Still, Present, Tracked
<1>2. Grown(s)'
  BY <1>1 DEF Still, Grown
<1>3. ASSUME NEW r, OnCourse(s, r) PROVE OnCourse(s, r)'
  BY <1>1, <1>3 DEF Still, OnCourse, Whole
<1>4. QED
  BY <1>2, <1>3

(* The session at work, or the next to begin, takes a step to r.             *)
LEMMA Settles ==
  ASSUME Types, NEW s \in Slugs, Settled(s), NEW g \in Sessions, NEW r,
         Moves(g, r) \/ Spoils(g, r), Active \subseteq {g},
         r.slug = s \/ (UNCHANGED <<dirs, tree>> /\ r.slug = prep[g].slug),
         r.at # "refused", r.at \in Restful \cup {"ready"} \/ OnCourse(s, r)'
  PROVE  Settled(s)'
<1>1. prep'[g] = r
  BY DEF Moves, Spoils
<1>2. ASSUME NEW h \in Sessions, h # g
      PROVE  prep'[h].at = prep[h].at /\ prep'[h].slug = prep[h].slug
  <2>1. PICK q \in Preparation : q = prep[h]
    BY DEF Types
  <2>2. PICK m : m = [q EXCEPT !.meddled = TRUE]
    OBVIOUS
  <2>3. m.at = q.at /\ m.slug = q.slug
    BY <2>2 DEF Preparation
  <2>4. prep'[h] = q \/ prep'[h] = m
    BY <1>2, <2>1, <2>2 DEF Moves, Spoils
  <2>5. QED
    BY <2>1, <2>3, <2>4
<1>3. ASSUME NEW h \in Sessions PROVE prep'[h].slug \in {"none", s} /\ prep'[h].at # "refused"
  BY <1>1, <1>2 DEF Settled
<1>4. Active' \subseteq {g}
  BY <1>2 DEF Active
<1>5. ASSUME NEW h \in Active' PROVE OnCourse(s, prep[h])'
  <2>1. h = g /\ h \in Sessions
    BY <1>4, <1>5 DEF Active
  <2>2. r.at \notin Restful \cup {"ready"}
    BY <1>1, <1>5, <2>1 DEF Active
  <2>3. QED
    BY <1>1, <2>1, <2>2
<1>6. ASSUME dirs' # {} \/ Present' # {} PROVE \E h \in Sessions : prep'[h].slug = s
  <2>1. CASE r.slug = s
    BY <1>1, <2>1
  <2>2. CASE UNCHANGED <<dirs, tree>> /\ r.slug = prep[g].slug
    <3>1. dirs # {} \/ Present # {}
      BY <1>6, <2>2 DEF Present
    <3>2. PICK h \in Sessions : prep[h].slug = s
      BY <3>1 DEF Settled
    <3>3. prep'[h].slug = s
      BY <1>1, <1>2, <2>2, <3>2
    <3>4. QED
      BY <3>3
  <2>3. QED
    BY <2>1, <2>2
<1>7. QED
  BY <1>3, <1>4, <1>5, <1>6 DEF Settled

(* Only files that the session looked at, none of which it changed.          *)
LEMMA GotoGood ==
  ASSUME Types, NEW s \in Slugs, Good(s), NEW g \in Active, NEW to \in Places, At(g, to), Still,
         to # "refused",
         \/ to \in Restful \cup {"ready"}
         \/ \A r \in Preparation :
              r.at = to /\ r.slug = prep[g].slug /\ r.commits = prep[g].commits /\ r.next = prep[g].next
                => OnCourse(s, r)
  PROVE  Good(s)'
<1>1. g \in Sessions /\ Active \subseteq {g}
  BY DEF Active, Good, Settled
<1>2. PICK r \in Preparation :
         /\ Moves(g, r) /\ r.at = to /\ r.slug = prep[g].slug
         /\ to \notin Restful => r.commits = prep[g].commits /\ r.next = prep[g].next
  BY <1>1, AtMoves
<1>3. Grown(s)' /\ (OnCourse(s, r) => OnCourse(s, r)')
  BY StillGrown DEF Good
<1>4. r.at \in Restful \cup {"ready"} \/ OnCourse(s, r)'
  BY <1>2, <1>3 DEF Restful
<1>5. UNCHANGED <<dirs, tree>>
  BY DEF Still
<1>6. Settled(s)'
  BY <1>1, <1>2, <1>4, <1>5, Settles DEF Good
<1>7. QED
  BY <1>3, <1>6 DEF Good

(* What a session at work knows.                                             *)
LEMMA AtWork ==
  ASSUME Types, NEW s, Good(s), NEW g \in Sessions, prep[g].at \notin Restful \cup {"ready"}
  PROVE  g \in Active /\ Active \subseteq {g} /\ OnCourse(s, prep[g]) /\ prep[g] \in Preparation
BY DEF Active, Good, Settled, Types

LEMMA InspectResumes ==
  ASSUME SlugsAreNames, Types, ResumeInv, NEW g \in Sessions, Inspect(g)
  PROVE  ResumeInv'
<1> SUFFICES ASSUME ~foul' PROVE \E s \in Slugs : Good(s)'
  BY DEF ResumeInv
<1> USE DEF Restful, Places
<1>1. /\ prep[g].at \in Restful /\ UNCHANGED <<git, dirs, tree, index, head>>
      /\ ~foul
  BY DEF Inspect
<1>2. PICK s0 \in Slugs : Good(s0)
  BY <1>1 DEF ResumeInv
<1>3. Still
  BY <1>1 DEF Still
<1>4. CASE head # {}
  <2>1. At(g, "recognise") /\ Active = {}
    BY <1>1, <1>4 DEF Inspect
  <2>2. PICK r \in Preparation :
           /\ Moves(g, r) /\ r.at = "recognise" /\ r.slug = prep[g].slug
    BY <2>1, AtMoves
  <2>3. OnCourse(s0, r)
    BY <1>4, <2>2 DEF OnCourse, Baseline, Prompting
  <2>4. OnCourse(s0, r)' /\ Grown(s0)'
    BY <1>2, <1>3, <2>3, StillGrown DEF Good
  <2>5. Settled(s0)'
    BY <1>1, <1>2, <2>1, <2>2, <2>4, Settles DEF Good
  <2>6. QED
    BY <2>4, <2>5 DEF Good
<1>5. CASE head = {}
  <2>1. ~(Cardinality(dirs) > 1 \/ (~git /\ (Present # {} \/ dirs # {})))
    <3>1. dirs = {} \/ dirs = {s0}
      BY <1>2 DEF Good, Grown
    <3>2. Cardinality(dirs) \in {0, 1}
      BY <3>1, FS_EmptySet, FS_Singleton
    <3>3. QED
      BY <1>2, <3>2 DEF Good, Grown
  <2>2. PICK s \in IF dirs = {} THEN Slugs ELSE dirs :
           /\ prep' = [prep EXCEPT ![g] = Starting(s)]
           /\ foul' = (foul \/ Active # {} \/ \E h \in Sessions : prep[h].slug \in Slugs \ {s})
    BY <1>5, <2>1 DEF Inspect, Starting
  <2>3. s \in Slugs /\ (dirs # {} => s = s0)
    BY <1>2, <2>2 DEF Good, Grown
  <2>4. Active = {} /\ \A h \in Sessions : prep[h].slug \notin Slugs \ {s}
    BY <2>2
  <2>5. Good(s)
    <3>1. CASE s = s0
      BY <1>2, <3>1
    <3>2. CASE s # s0
      <4>1. dirs = {}
        BY <2>3, <3>2
      <4>2. \A h \in Sessions : prep[h].slug # s0
        BY <2>4, <3>2
      <4>3. Present = {}
        BY <1>2, <4>2 DEF Good, Settled
      <4>4. \A p \in Paths : tree[p] = "absent"
        BY <4>3 DEF Present
      <4>5. Grown(s)
        BY <1>2, <1>5, <2>3, <4>1, <4>3, <4>4, TwoFiles DEF Good, Grown
      <4>6. Settled(s)
        BY <1>2, <2>4, <4>1, <4>2, <4>3 DEF Good, Settled
      <4>7. QED
        BY <4>5, <4>6 DEF Good
    <3>3. QED
      BY <3>1, <3>2
  <2>6. PICK r \in Preparation : /\ r = Starting(s) /\ r.at = "init" /\ r.slug = s
                                 /\ r.commits = "baseline" /\ r.next = 1
    BY <2>3, StartingIsTyped
  <2>7. Moves(g, r)
    BY <2>2, <2>6, MovesTo
  <2>8. OnCourse(s, r)
    BY <1>5, <2>6 DEF OnCourse, Baseline, Prompting
  <2>9. OnCourse(s, r)' /\ Grown(s)'
    BY <1>3, <2>5, <2>8, StillGrown DEF Good
  <2>10. Settled(s)'
    BY <2>3, <2>4, <2>5, <2>6, <2>7, <2>9, Settles DEF Good
  <2>11. QED
    BY <2>3, <2>9, <2>10 DEF Good
<1>6. QED
  BY <1>4, <1>5

(* git init, the checks and the files of the starter.                        *)
LEMMA WriteResumes ==
  ASSUME SlugsAreNames, Types, ResumeInv, NEW g \in Sessions,
         InitGit(g) \/ Validate(g) \/ Look(g) \/ Create(g) \/ DieWriting(g) \/ MakeFeature(g)
  PROVE  ResumeInv'
<1> SUFFICES ASSUME ~foul' PROVE \E s \in Slugs : Good(s)'
  BY DEF ResumeInv
<1> USE DEF Restful, Places, Baseline
<1>1. /\ prep[g].at \in {"init", "validate", "look", "create", "feature"} /\ ~foul
  BY DEF InitGit, Validate, Look, Create, DieWriting, MakeFeature, Goto, Refuse
<1>2. PICK s \in Slugs : Good(s)
  BY <1>1 DEF ResumeInv
<1>3. /\ g \in Active /\ Active \subseteq {g} /\ OnCourse(s, prep[g]) /\ prep[g] \in Preparation
  BY <1>1, <1>2, AtWork
<1>4. /\ head = {} /\ prep[g].slug = s /\ prep[g].commits = "baseline" /\ Grown(s) /\ Settled(s)
  BY <1>1, <1>2, <1>3 DEF OnCourse, Good
<1>5. CASE InitGit(g)
  <2>1. prep[g].at = "init" /\ prep[g].next = 1
    BY <1>3, <1>5 DEF InitGit, OnCourse
  <2>2. git' = TRUE /\ At(g, "validate") /\ UNCHANGED <<dirs, tree, index, head>>
    BY <1>4, <1>5 DEF InitGit, Grown
  <2>3. PICK r \in Preparation :
           /\ Moves(g, r) /\ r.at = "validate" /\ r.slug = prep[g].slug
           /\ r.commits = prep[g].commits /\ r.next = prep[g].next
    BY <2>2, AtMoves
  <2>4. Grown(s)' /\ OnCourse(s, r)'
    <3>1. Present' = Present /\ \A p : Tracked(p)' = Tracked(p)
      BY <2>2 DEF Present, Tracked
    <3>2. Grown(s)'
      BY <1>4, <2>2, <3>1 DEF Grown
    <3>3. OnCourse(s, r)'
      BY <1>4, <2>1, <2>2, <2>3 DEF OnCourse, Prompting
    <3>4. QED
      BY <3>2, <3>3
  <2>5. Settled(s)'
    BY <1>3, <1>4, <2>3, <2>4, Settles
  <2>6. QED
    BY <2>4, <2>5 DEF Good
<1>6. CASE Validate(g)
  <2>1. prep[g].at = "validate" /\ prep[g].next = 1 /\ git
    BY <1>3, <1>6 DEF Validate, OnCourse
  <2>2. Fits(s)
    BY <1>4 DEF Fits, Grown, Present, Paths
  <2>3. At(g, "look") /\ Still
    BY <1>4, <1>6, <2>2 DEF Validate, Goto, Still
  <2>4. ASSUME NEW r \in Preparation, r.at = "look", r.slug = prep[g].slug,
               r.commits = prep[g].commits, r.next = prep[g].next
        PROVE  OnCourse(s, r)
    BY <1>4, <2>1, <2>4 DEF OnCourse, Prompting
  <2>5. Good(s)'
    BY <1>2, <1>3, <2>3, <2>4, GotoGood
  <2>6. QED
    BY <2>5
<1>7. CASE Look(g)
  <2>1. /\ prep[g].at = "look" /\ git /\ prep[g].next \in 1..3 /\ Still
        /\ \A i \in 1..2 : i < prep[g].next => Files[i] \in Present
    BY <1>3, <1>7 DEF Look, OnCourse, Preparation, Goto, Still
  <2>2. \/ prep[g].next = 3 /\ At(g, "feature")
        \/ /\ prep[g].next \in 1..2 /\ Files[prep[g].next] \in Present
           /\ prep' = [prep EXCEPT ![g].next = @ + 1]
        \/ prep[g].next \in 1..2 /\ Files[prep[g].next] \notin Present /\ At(g, "create")
    <3>1. CASE prep[g].next = 3
      BY <1>7, <3>1, TwoFiles DEF Look, Goto
    <3>2. CASE prep[g].next \in 1..2
      <4>1. ~(prep[g].next > Len(Files))
        BY <3>2, TwoFiles
      <4>2. QED
        BY <1>7, <3>2, <4>1 DEF Look, Goto
    <3>3. QED
      BY <2>1, <3>1, <3>2
  <2>3. CASE prep[g].next = 3 /\ At(g, "feature")
    <3>1. Whole
      BY <2>1, <2>3, TwoFiles DEF Whole
    <3>2. ASSUME NEW r \in Preparation, r.at = "feature", r.slug = prep[g].slug,
                 r.commits = prep[g].commits
          PROVE  OnCourse(s, r)
      BY <1>4, <2>1, <3>1, <3>2 DEF OnCourse, Prompting
    <3>3. Good(s)'
      BY <1>2, <1>3, <2>1, <2>3, <3>2, GotoGood
    <3>4. QED
      BY <3>3
  <2>4. CASE /\ prep[g].next \in 1..2 /\ Files[prep[g].next] \in Present
             /\ prep' = [prep EXCEPT ![g].next = @ + 1]
    <3>1. PICK r \in Preparation :
             /\ Moves(g, r) /\ r.next = prep[g].next + 1 /\ r.at = prep[g].at /\ r.slug = prep[g].slug
             /\ r.commits = prep[g].commits
      BY <2>4, LookMoves
    <3>2. \A i \in 1..2 : i < r.next => Files[i] \in Present
      BY <2>1, <2>4, <3>1
    <3>3. OnCourse(s, r)
      BY <1>4, <2>1, <3>1, <3>2 DEF OnCourse, Prompting
    <3>4. Grown(s)' /\ OnCourse(s, r)'
      BY <1>4, <2>1, <3>3, StillGrown
    <3>5. Settled(s)'
      BY <1>3, <1>4, <2>1, <3>1, <3>4, Settles
    <3>6. QED
      BY <3>4, <3>5 DEF Good
  <2>5. CASE prep[g].next \in 1..2 /\ Files[prep[g].next] \notin Present /\ At(g, "create")
    <3>1. ASSUME NEW r \in Preparation, r.at = "create", r.slug = prep[g].slug,
                 r.commits = prep[g].commits, r.next = prep[g].next
          PROVE  OnCourse(s, r)
      BY <1>4, <2>1, <2>5, <3>1 DEF OnCourse, Prompting
    <3>2. Good(s)'
      BY <1>2, <1>3, <2>1, <2>5, <3>1, GotoGood
    <3>3. QED
      BY <3>2
  <2>6. QED
    BY <2>2, <2>3, <2>4, <2>5
<1>8. CASE Create(g)
  <2> DEFINE f == Files[prep[g].next]
  <2>1. /\ prep[g].at = "create" /\ prep[g].next \in 1..2 /\ f \notin Present /\ git
        /\ \A i \in 1..2 : i < prep[g].next => Files[i] \in Present
    BY <1>3, <1>8 DEF Create, OnCourse, Types
  <2>2. f \in Starter /\ f \in Paths /\ f \notin Slugs
    BY <2>1, TwoFiles DEF SlugsAreNames
  <2>3. /\ tree' = [tree EXCEPT ![f] = Generated(s, f)]
        /\ prep' = [prep EXCEPT ![g].at = "look", ![g].next = @ + 1]
        /\ UNCHANGED <<git, dirs, index, head>>
    BY <1>4, <1>8, <2>1 DEF Create
  <2>4. PICK r \in Preparation :
           /\ Moves(g, r) /\ r.next = prep[g].next + 1 /\ r.at = "look" /\ r.slug = prep[g].slug
           /\ r.commits = prep[g].commits
    BY <2>1, <2>3, CreateMoves
  <2>5. /\ Generated(s, f) # "absent" /\ tree \in [Paths -> Values] /\ tree[f] = "absent"
    BY <2>1, <2>2 DEF Generated, SlugsAreNames, Types, Present
  <2> HIDE DEF f
  <2>6. /\ tree'[f] = Generated(s, f) /\ \A p \in Paths : p # f => tree'[p] = tree[p]
        /\ Present' = Present \cup {f} /\ \A p : Tracked(p)' = Tracked(p)
    BY <2>2, <2>3, <2>5 DEF Present, Tracked
  <2>7. index[f] = "absent" /\ Tracked(f) = "absent"
    BY <1>4, <2>2, <2>5 DEF Grown
  <2>8. Grown(s)'
    BY <1>4, <2>1, <2>2, <2>3, <2>6, <2>7, TwoFiles DEF Grown
  <2>9. \A i \in 1..2 : i < r.next => Files[i] \in Present'
    BY <2>1, <2>4, <2>6 DEF f
  <2>10. OnCourse(s, r)'
    BY <1>4, <2>1, <2>3, <2>4, <2>9 DEF OnCourse, Prompting
  <2>11. Settled(s)'
    BY <1>3, <1>4, <2>4, <2>10, Settles
  <2>12. QED
    BY <2>8, <2>11 DEF Good
<1>9. CASE MakeFeature(g)
  <2>1. prep[g].at = "feature" /\ git /\ Whole
    BY <1>3, <1>9 DEF MakeFeature, OnCourse
  <2>2. dirs' = {s} /\ At(g, "check") /\ UNCHANGED <<git, tree, index, head>>
    BY <1>4, <1>9 DEF MakeFeature, Grown
  <2>3. PICK r \in Preparation :
           /\ Moves(g, r) /\ r.at = "check" /\ r.slug = prep[g].slug
           /\ r.commits = prep[g].commits
    BY <2>2, AtMoves
  <2>4. Present' = Present /\ \A p : Tracked(p)' = Tracked(p)
    BY <2>2 DEF Present, Tracked
  <2>5. Grown(s)'
    BY <1>4, <2>1, <2>2, <2>4 DEF Grown
  <2>6. OnCourse(s, r)'
    BY <1>4, <2>1, <2>2, <2>3, <2>4 DEF OnCourse, Prompting, Whole
  <2>7. Settled(s)'
    BY <1>3, <1>4, <2>3, <2>6, Settles
  <2>8. QED
    BY <2>5, <2>7 DEF Good
<1>10. QED
  BY <1>5, <1>6, <1>7, <1>8, <1>9 DEF DieWriting

(* The check, the prompt and the commit, of the baseline or of the design.   *)
LEMMA CommitResumes ==
  ASSUME SlugsAreNames, Types, ResumeInv, NEW g \in Sessions,
         Check(g) \/ NpmFails(g) \/ Stage(g) \/ Show(g) \/ Decline(g) \/ Commit(g) \/ CheckClean(g)
  PROVE  ResumeInv'
<1> SUFFICES ASSUME ~foul' PROVE \E s \in Slugs : Good(s)'
  BY DEF ResumeInv
<1> USE DEF Restful, Places
<1>1. /\ prep[g].at \in {"check", "stage", "show", "confirm", "clean"} /\ ~foul
  BY DEF Check, NpmFails, Stage, Show, Decline, Commit, CheckClean, Goto, Refuse
<1>2. PICK s \in Slugs : Good(s)
  BY <1>1 DEF ResumeInv
<1>3. /\ g \in Active /\ Active \subseteq {g} /\ OnCourse(s, prep[g]) /\ prep[g] \in Preparation
  BY <1>1, <1>2, AtWork
<1>4. /\ Grown(s) /\ Settled(s) /\ s \in Paths /\ s \notin Starter /\ s # "absent"
  BY <1>2, TwoFiles DEF Good, SlugsAreNames
<1>5. CASE Check(g)
  <2>1. /\ prep[g].at = "check" /\ head = {} /\ prep[g].slug = s /\ prep[g].commits = "baseline"
        /\ Whole /\ dirs = {s}
    BY <1>3, <1>5 DEF Check, OnCourse, Baseline
  <2>2. Unrelated(Starter) = {}
    <3>1. ASSUME NEW p \in Paths \ Starter PROVE tree[p] = "absent"
      BY <1>4, <2>1, <3>1 DEF Paths, Grown
    <3>2. ASSUME NEW p \in Paths \ Starter PROVE tree[p] = index[p] /\ index[p] = Tracked(p)
      BY <1>4, <3>1, <3>2 DEF Grown
    <3>3. QED
      BY <3>2 DEF Unrelated
  <2>3. At(g, "stage") /\ Still
    BY <1>5, <2>2 DEF Check, Goto, Still
  <2>4. ASSUME NEW r \in Preparation, r.at = "stage", r.slug = prep[g].slug,
               r.commits = prep[g].commits
        PROVE  OnCourse(s, r)
    BY <2>1, <2>4 DEF OnCourse, Prompting, Baseline
  <2>5. Good(s)'
    BY <1>2, <1>3, <2>3, <2>4, GotoGood
  <2>6. QED
    BY <2>5
<1>6. CASE Stage(g)
  <2>1. prep[g].at = "stage" /\ prep[g].slug = s /\ dirs = {s}
    BY <1>3, <1>6 DEF Stage, OnCourse, Prompting
  <2>2. /\ prep[g].commits = "baseline" => head = {} /\ Whole
        /\ prep[g].commits # "baseline" => head # {} /\ tree[s] = "text" /\ Tracked(s) = "absent"
    BY <1>3, <2>1 DEF OnCourse, Prompting
  <2>3. Owned(g) = IF prep[g].commits = "baseline" THEN Starter ELSE {s}
    BY <2>1 DEF Owned
  <2>4. \A p \in Owned(g) : tree[p] # "absent"
    BY <2>2, <2>3 DEF Whole, Present
  <2>5. /\ index' = [p \in Paths |-> IF p \in Owned(g) THEN tree[p] ELSE index[p]]
        /\ prep' = Spoil(g, [prep[g] EXCEPT !.at = "show"])
        /\ UNCHANGED <<git, dirs, tree, head>>
    BY <1>6, <2>4 DEF Stage
  <2>6. PICK r : r = [prep[g] EXCEPT !.at = "show"]
    OBVIOUS
  <2>7. r \in Preparation /\ r.at = "show" /\ r.commits = prep[g].commits /\ r.slug = s
    BY <1>3, <2>1, <2>6 DEF Preparation
  <2>8. Spoils(g, r)
    BY <2>5, <2>6, <2>7, SpoilsTo
  <2>9. /\ Present' = Present /\ \A p : Tracked(p)' = Tracked(p)
        /\ \A p \in Paths : index'[p] = IF p \in Owned(g) THEN tree[p] ELSE index[p]
    BY <2>5 DEF Present, Tracked
  <2>10. \A p \in Paths : index'[p] \in {"absent", tree[p]} /\ Tracked(p) \in {"absent", index'[p]}
    BY <1>4, <2>9 DEF Grown
  <2>11. Grown(s)'
    BY <1>4, <2>5, <2>9, <2>10 DEF Grown
  <2>12. /\ r.commits = "baseline" => \A p \in Starter : index'[p] = tree[p]
         /\ r.commits # "baseline" => index'[s] = "text"
    BY <1>4, <2>2, <2>3, <2>7, <2>9, TwoFiles
  <2>13. OnCourse(s, r)'
    BY <2>1, <2>2, <2>5, <2>7, <2>9, <2>12 DEF OnCourse, Prompting, Baseline, Whole
  <2>14. Settled(s)'
    BY <1>3, <1>4, <2>7, <2>8, <2>13, Settles
  <2>15. QED
    BY <2>11, <2>14 DEF Good
<1>7. CASE Show(g)
  <2> DEFINE seen == IF prep[g].commits = "baseline" THEN Staged ELSE {c \in Staged : c[1] = prep[g].slug}
  <2>1. /\ prep[g].at = "show" /\ Still
        /\ prep' = [prep EXCEPT ![g].at = "confirm", ![g].shown = seen]
    BY <1>7 DEF Show, Still
  <2>2. seen \in SUBSET (Paths \X Values)
    BY StagedIsTyped
  <2>3. PICK r \in Preparation :
           /\ Moves(g, r) /\ r.at = "confirm" /\ r.commits = prep[g].commits /\ r.slug = prep[g].slug
    <3> HIDE DEF seen
    <3>1. QED
      BY <2>1, <2>2, ShowMoves
  <2>4. OnCourse(s, r)
    BY <1>3, <2>1, <2>3 DEF OnCourse, Prompting, Baseline
  <2>5. Grown(s)' /\ OnCourse(s, r)'
    BY <1>4, <2>1, <2>4, StillGrown
  <2>6. UNCHANGED <<dirs, tree>>
    BY <2>1 DEF Still
  <2>7. Settled(s)'
    BY <1>3, <1>4, <2>3, <2>5, <2>6, Settles
  <2>8. QED
    BY <2>5, <2>7 DEF Good
<1>8. CASE Decline(g) \/ CheckClean(g)
  <2>1. Still /\ (At(g, "stopped") \/ At(g, "ready"))
    BY <1>8 DEF Decline, CheckClean, Goto, Still
  <2>2. Good(s)'
    BY <1>2, <1>3, <2>1, GotoGood
  <2>3. QED
    BY <2>2
<1>9. CASE Commit(g)
  <2>1. prep[g].at = "confirm" /\ prep[g].slug = s /\ dirs = {s}
    BY <1>3, <1>9 DEF Commit, OnCourse, Prompting
  <2>2. /\ prep[g].commits = "baseline" =>
             head = {} /\ Whole /\ \A p \in Starter : index[p] = tree[p]
        /\ prep[g].commits # "baseline" =>
             head # {} /\ tree[s] = "text" /\ Tracked(s) = "absent" /\ index[s] = "text"
    BY <1>3, <2>1 DEF OnCourse, Prompting
  <2>3. \A p \in Starter : index[p] = Generated(s, p)
    <3>1. CASE prep[g].commits = "baseline"
      BY <1>4, <2>2, <3>1 DEF Grown, Whole, Present
    <3>2. CASE prep[g].commits # "baseline"
      <4>1. ASSUME NEW p \in Starter PROVE Tracked(p) = Generated(s, p) /\ Generated(s, p) # "absent"
        BY <1>4, <2>2, <3>2 DEF Grown, Generated
      <4>2. QED
        BY <1>4, <4>1, TwoFiles DEF Grown
    <3>3. QED
      BY <3>1, <3>2
  <2>4. Staged # {}
    <3>1. CASE prep[g].commits = "baseline"
      <4>1. "readme" \in Paths /\ index["readme"] = s /\ Tracked("readme") = "absent"
        BY <2>2, <2>3, <3>1, TwoFiles DEF Generated, Tracked
      <4>2. QED
        BY <1>4, <4>1 DEF Staged
    <3>2. CASE prep[g].commits # "baseline"
      BY <1>4, <2>2, <3>2 DEF Staged
    <3>3. QED
      BY <3>1, <3>2
  <2>5. /\ head' = {index}
        /\ prep' = Spoil(g, [prep[g] EXCEPT !.at = "clean", !.committed = Staged])
        /\ UNCHANGED <<git, dirs, tree, index>>
    BY <1>9, <2>4 DEF Commit
  <2>6. PICK r : r = [prep[g] EXCEPT !.at = "clean", !.committed = Staged]
    OBVIOUS
  <2>7. r \in Preparation /\ r.at = "clean" /\ r.slug = s
    BY <1>3, <2>1, <2>6, StagedIsTyped DEF Preparation
  <2>8. Spoils(g, r)
    BY <2>5, <2>6, <2>7, SpoilsTo
  <2>9. Present' = Present /\ \A p : Tracked(p)' = index[p]
    BY <2>5 DEF Present, Tracked
  <2>10. Grown(s)'
    BY <1>4, <2>1, <2>3, <2>5, <2>9 DEF Grown
  <2>11. OnCourse(s, r)'
    BY <2>7 DEF OnCourse, Prompting, Baseline
  <2>12. Settled(s)'
    BY <1>3, <1>4, <2>7, <2>8, <2>11, Settles
  <2>13. QED
    BY <2>10, <2>12 DEF Good
<1>10. QED
  BY <1>5, <1>6, <1>7, <1>8, <1>9 DEF NpmFails

(* What a session that is to recognise the scaffold finds.                   *)
LEMMA Recognised ==
  ASSUME SlugsAreNames, NEW s \in Slugs, Grown(s), head # {}
  PROVE  /\ Scaffold = {s}
         /\ \A p \in Starter : tree[p] = Tracked(p) /\ index[p] = Tracked(p)
         /\ ~\E x \in Candidates : ChangedSince(x)
<1>1. \A p \in Starter : Tracked(p) = Generated(s, p) /\ Generated(s, p) # "absent"
  BY DEF Grown, Generated, SlugsAreNames
<1>2. \A p \in Starter : tree[p] = Tracked(p) /\ index[p] = Tracked(p)
  BY <1>1, TwoFiles DEF Grown
<1>3. Named = {s} /\ Cardinality(Named) = 1
  <2>1. Named = {s}
    BY DEF Named, Grown
  <2>2. QED
    BY <2>1, FS_Singleton
<1>4. \A p \in Paths \ Starter : Tracked(p) # "absent" => p = s
  BY DEF Grown, Paths
<1>5. Candidates = {s}
  BY <1>1, <1>3, <1>4 DEF Candidates
<1>6. \A n \in 1..2 : Files[n] \in Starter
  BY TwoFiles
<1>7. AsGenerated(s, 2)
  BY <1>1, <1>6 DEF AsGenerated
<1>8. Scaffold = {s}
  BY <1>5, <1>7, TwoFiles DEF Scaffold
<1>9. DOMAIN Files = 1..2
  BY DEF Files
<1>10. QED
  BY <1>2, <1>5, <1>6, <1>8, <1>9 DEF ChangedSince

(* The starter is recognised, and its design committed.                      *)
LEMMA DesignResumes ==
  ASSUME SlugsAreNames, Types, ResumeInv, NEW g \in Sessions, Recognise(g) \/ Design(g) \/ Die(g)
  PROVE  ResumeInv'
<1> SUFFICES ASSUME ~foul' PROVE \E s \in Slugs : Good(s)'
  BY DEF ResumeInv
<1> USE DEF Restful, Places
<1>1. prep[g].at \notin Restful \cup {"ready"} /\ ~foul
  <2>1. CASE Recognise(g)
    BY <2>1 DEF Recognise
  <2>2. CASE Design(g)
    <3>1. prep[g].at = "design" /\ UNCHANGED foul
      BY <2>2 DEF Design, Goto
    <3>2. QED
      BY <3>1
  <2>3. CASE Die(g)
    BY <2>3 DEF Die, Goto, Active
  <2>4. QED
    BY <2>1, <2>2, <2>3
<1>2. PICK s \in Slugs : Good(s)
  BY <1>1 DEF ResumeInv
<1>3. /\ g \in Active /\ Active \subseteq {g} /\ OnCourse(s, prep[g]) /\ prep[g] \in Preparation
  BY <1>1, <1>2, AtWork
<1>4. /\ Grown(s) /\ Settled(s) /\ s \in Paths /\ s \notin Starter /\ s # "absent"
  BY <1>2, TwoFiles DEF Good, SlugsAreNames
<1>5. CASE Recognise(g)
  <2>1. prep[g].at = "recognise" /\ head # {}
    BY <1>3, <1>5 DEF Recognise, OnCourse
  <2>2. Scaffold = {s} /\ ~\E x \in Candidates : ChangedSince(x)
    BY <1>4, <2>1, Recognised
  <2>3. dirs = {s}
    BY <1>4, <2>1 DEF Grown
  <2>4. /\ prep' = [prep EXCEPT ![g].at = "design", ![g].slug = s, ![g].commits = "design"]
        /\ Still
    BY <1>5, <2>2, <2>3 DEF Recognise, Still
  <2>5. PICK r \in Preparation :
           /\ Moves(g, r) /\ r.at = "design" /\ r.slug = s /\ r.commits = "design"
    BY <2>4, DesignMoves
  <2>6. OnCourse(s, r)
    BY <2>1, <2>5 DEF OnCourse, Prompting, Baseline
  <2>7. Grown(s)' /\ OnCourse(s, r)'
    BY <1>4, <2>4, <2>6, StillGrown
  <2>8. Settled(s)'
    BY <1>3, <1>4, <2>5, <2>7, Settles
  <2>9. QED
    BY <2>7, <2>8 DEF Good
<1>6. CASE Design(g)
  <2>1. prep[g].at = "design" /\ head # {} /\ prep[g].slug = s /\ prep[g].commits = "design" /\ Still
    BY <1>3, <1>6 DEF Design, OnCourse, Goto, Still
  <2>2. \A p \in Starter : tree[p] = Tracked(p) /\ index[p] = Tracked(p)
    BY <1>4, <2>1, Recognised
  <2>3. \/ At(g, "ready") \/ At(g, "stopped")
        \/ At(g, "stage") /\ tree[s] = "text" /\ Tracked(s) = "absent"
    <3>1. CASE Tracked(s) # "absent"
      <4>1. tree[s] = Tracked(s) /\ tree[s] = "text"
        BY <1>4, <3>1 DEF Grown
      <4>2. AsCommitted(s)
        BY <4>1 DEF AsCommitted
      <4>3. QED
        BY <1>6, <2>1, <3>1, <4>2 DEF Design, Goto
    <3>2. CASE Tracked(s) = "absent" /\ tree[s] = "absent"
      BY <1>6, <2>1, <3>2 DEF Design, Goto
    <3>3. CASE Tracked(s) = "absent" /\ tree[s] # "absent"
      <4>1. tree[s] = "text"
        BY <1>4, <3>3 DEF Grown
      <4>2. \A p \in Paths \ {s} : tree[p] = index[p] /\ index[p] = Tracked(p)
        BY <1>4, <2>2 DEF Grown, Paths
      <4>3. Unrelated({s}) = {}
        BY <4>2 DEF Unrelated
      <4>4. QED
        BY <1>6, <2>1, <3>3, <4>1, <4>3 DEF Design, Goto
    <3>4. QED
      BY <3>1, <3>2, <3>3
  <2>4. CASE At(g, "ready") \/ At(g, "stopped")
    <3>1. Good(s)'
      BY <1>2, <1>3, <2>1, <2>4, GotoGood
    <3>2. QED
      BY <3>1
  <2>5. CASE At(g, "stage") /\ tree[s] = "text" /\ Tracked(s) = "absent"
    <3>1. dirs = {s}
      BY <1>4, <2>1 DEF Grown
    <3>2. ASSUME NEW r \in Preparation, r.at = "stage", r.slug = prep[g].slug,
                 r.commits = prep[g].commits
          PROVE  OnCourse(s, r)
      BY <2>1, <2>5, <3>1, <3>2 DEF OnCourse, Prompting, Baseline
    <3>3. Good(s)'
      BY <1>2, <1>3, <2>1, <2>5, <3>2, GotoGood
    <3>4. QED
      BY <3>3
  <2>6. QED
    BY <2>3, <2>4, <2>5
<1>7. CASE Die(g)
  <2>1. At(g, "stopped") /\ Still
    BY <1>7 DEF Die, Goto, Still
  <2>2. Good(s)'
    BY <1>2, <1>3, <2>1, GotoGood
  <2>3. QED
    BY <2>2
<1>8. QED
  BY <1>5, <1>6, <1>7

(* The operator writes the design while no session is at work; every other   *)
(* hand that is laid on the target is foul.                                  *)
LEMMA OperatorResumes ==
  ASSUME SlugsAreNames, Types, ResumeInv, WriteDesign \/ EditFile \/ StageByHand \/ UNCHANGED projectVars
  PROVE  ResumeInv'
<1> SUFFICES ASSUME ~foul' PROVE \E s \in Slugs : Good(s)'
  BY DEF ResumeInv
<1>1. ~foul /\ (WriteDesign \/ UNCHANGED projectVars)
  <2>1. ~EditFile /\ ~StageByHand
    BY DEF EditFile, StageByHand
  <2>2. CASE WriteDesign
    <3>1. foul' = (foul \/ Active # {})
      BY <2>2 DEF WriteDesign
    <3>2. QED
      BY <2>2, <3>1
  <2>3. CASE UNCHANGED projectVars
    <3>1. foul' = foul
      BY <2>3 DEF projectVars
    <3>2. QED
      BY <2>3, <3>1
  <2>4. QED
    BY <2>1, <2>2, <2>3
<1>2. PICK s \in Slugs : Good(s)
  BY <1>1 DEF ResumeInv
<1>3. CASE WriteDesign
  <2>1. /\ head # {} /\ Active = {} /\ tree' = [tree EXCEPT ![s] = "text"] /\ tree[s] # "text"
        /\ UNCHANGED <<git, dirs, index, head, prep>>
    BY <1>2, <1>3 DEF WriteDesign, Good, Grown
  <2>2. dirs = {s} /\ tree[s] = "absent" /\ index[s] = "absent" /\ git
    BY <1>2, <2>1, TwoFiles DEF Good, Grown
  <2>3. s \in Paths /\ s \notin Starter
    BY TwoFiles DEF SlugsAreNames
  <2>4. tree'[s] = "text" /\ (\A p \in Paths : p # s => tree'[p] = tree[p]) /\ \A p : Tracked(p)' = Tracked(p)
    BY <2>1, <2>3 DEF Types, Tracked
  <2>5. Grown(s)'
    BY <1>2, <2>1, <2>2, <2>3, <2>4, TwoFiles DEF Good, Grown
  <2>6. Settled(s)'
    <3>1. Active' = {}
      BY <2>1 DEF Active
    <3>2. \E g \in Sessions : prep[g].slug = s
      BY <1>2, <2>2 DEF Good, Settled
    <3>3. \A g \in Sessions : prep[g].slug \in {"none", s} /\ prep[g].at # "refused"
      BY <1>2 DEF Good, Settled
    <3>4. QED
      BY <2>1, <3>1, <3>2, <3>3 DEF Settled
  <2>7. QED
    BY <2>5, <2>6 DEF Good
<1>4. CASE UNCHANGED projectVars
  <2>1. UNCHANGED <<git, dirs, tree, index, head, prep>>
    BY <1>4 DEF projectVars
  <2>2. Present' = Present /\ Active' = Active /\ \A p : Tracked(p)' = Tracked(p)
    BY <2>1 DEF Present, Active, Tracked
  <2>3. \A r : OnCourse(s, r) => OnCourse(s, r)'
    BY <2>1, <2>2 DEF OnCourse, Whole
  <2>4. Grown(s)' /\ Settled(s)'
    BY <1>2, <2>1, <2>2, <2>3 DEF Good, Grown, Settled
  <2>5. QED
    BY <2>4 DEF Good
<1>5. QED
  BY <1>1, <1>3, <1>4

LEMMA ResumeInit ==
  ASSUME SlugsAreNames, Init
  PROVE  ResumeInv
<1>1. PICK s \in Slugs : TRUE
  BY DEF SlugsAreNames
<1>2. PICK who \in SUBSET Sessions :
        /\ prep = [g \in Sessions |-> [Idle EXCEPT !.at = IF g \in who THEN "idle" ELSE "ready"]]
        /\ git = FALSE /\ dirs = {} /\ head = {} /\ tree = Nothing /\ index = Nothing
  BY DEF Init, Start
<1>3. PICK i \in Preparation : i = Idle /\ i.slug = "none"
  BY IdleIsTyped DEF Idle
<1>4. ASSUME NEW g \in Sessions PROVE prep[g].slug = "none" /\ prep[g].at \in {"idle", "ready"}
  <2>1. PICK a \in {"idle", "ready"} : prep[g] = [i EXCEPT !.at = a]
    BY <1>2, <1>3
  <2>2. QED
    BY <1>3, <2>1 DEF Preparation
<1>5. Active = {}
  BY <1>4 DEF Active, Restful
<1>6. (\A p \in Paths : tree[p] = "absent" /\ index[p] = "absent") /\ Present = {}
  BY <1>2 DEF Nothing, Present
<1>7. \A p : Tracked(p) = "absent"
  BY <1>2 DEF Tracked
<1>8. Grown(s)
  BY <1>2, <1>6, <1>7, TwoFiles DEF Grown
<1>9. Settled(s)
  BY <1>2, <1>4, <1>5, <1>6 DEF Settled
<1>10. QED
  BY <1>8, <1>9 DEF ResumeInv, Good

LEMMA ResumeStep ==
  ASSUME SlugsAreNames, Types, ResumeInv, [Next]_projectVars
  PROVE  ResumeInv'
<1>1. CASE \E g \in Sessions : Prepare(g) \/ Die(g) \/ DieWriting(g)
  <2>1. PICK g \in Sessions : Prepare(g) \/ Die(g) \/ DieWriting(g)
    BY <1>1
  <2>2. QED
    BY <2>1, InspectResumes, WriteResumes, CommitResumes, DesignResumes DEF Prepare
<1>2. QED
  BY <1>1, OperatorResumes DEF Next

(* prepareGuidedProject may be run again after any stop of its sessions: as  *)
(* long as they follow each other, for one slug, and nobody else lays hands  *)
(* on the target, none of them is ever refused by what another left behind.  *)
THEOREM RerunsHold ==
  ASSUME SlugsAreNames
  PROVE  Spec => []RerunsResume
<1> DEFINE Inv == Types /\ ShownInv /\ ResumeInv
<1>1. Init => Inv
  BY TypesInit, ShownInit, ResumeInit
<1>2. Inv /\ [Next]_projectVars => Inv'
  BY ShownStep, ResumeStep
<1>3. Inv => RerunsResume
  <2>1. Types => DOMAIN prep = Sessions
    BY DEF Types
  <2>2. QED
    BY <2>1 DEF ResumeInv, Good, Settled, RerunsResume
<1> HIDE DEF Inv
<1>4. QED
  BY <1>1, <1>2, <1>3, PTL DEF Spec
=============================================================================
