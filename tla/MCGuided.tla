------------------------------ MODULE MCGuided ------------------------------
(* GuidedCommand from seven scenes: two sessions, or a session and a new-run,  *)
(* that find no run; two open runs, of which new-run created one; a run that   *)
(* waits for answers; one whose approval has expired once, with a session or a *)
(* dashboard request; and one that is ready for its plan. An eighth scene is   *)
(* the project before its first run: a session that prepares it with two acts  *)
(* of the operator, or two sessions with one.                                  *)
EXTENDS GuidedCommand, BootstrapState

CONSTANTS g1, g2, b1, d1, Slugs, MaxActs

Project == INSTANCE Bootstrap

Rows1(stages, open) ==
  [r \in RunIds |-> IF r = 1 THEN [Absent EXCEPT !.status = "in_progress", !.frozen = TRUE,
                                     !.stages = stages, !.open = open, !.version = 1]
                             ELSE Absent]

Scene(rows, who, payload) ==
  [rows |-> rows, who |-> who, now |-> IF payload = 0 THEN MaxClock ELSE payload,
   payload |-> payload, byHand |-> {}]

NoRows == [r \in RunIds |-> Absent]
MCScenes == {Scene(NoRows, {g1, g2}, 0),
             Scene(NoRows, {g1, b1}, 0),
             [Scene([r \in RunIds |-> Rows1(4, {})[1]], {g1, b1}, 0) EXCEPT !.byHand = {2}],
             Scene(Rows1(2, Questions), {g1, d1}, 0),
             Scene(Rows1(3, {}), {g1, g2}, 1),
             Scene(Rows1(3, {}), {g1, d1}, 1),
             Scene(Rows1(4, {}), {b1, d1}, 0),
             Scene(NoRows, {}, 0)}

Preparing == \A i \in Invocations : pc[i] = "ended"
Prepared == \A g \in Sessions : prep[g].at = "ready"

MCInit == Init /\ IF Preparing THEN Project!Start({g1}, 0) \/ Project!Start({g1, g2}, 1)
                               ELSE Project!Ready

(* Nobody selects a run before the project is ready. *)
MCNext == \/ Prepared /\ ~Preparing /\ Next /\ UNCHANGED projectVars
          \/ Preparing /\ ~Prepared /\ Project!Next /\ UNCHANGED vars

MCSpec == MCInit /\ [][MCNext]_<<vars, projectVars>>
=============================================================================
