----------------------------- MODULE MCHandoff -----------------------------
(* GuidedCommand with four sessions at the approval of one run, whose retained *)
(* payload has expired.                                                            *)
EXTENDS GuidedCommand, TLC

CONSTANTS g1, g2, g3, g4

Waiting == [r \in RunIds |-> [Absent EXCEPT !.status = "in_progress", !.frozen = TRUE,
                                            !.stages = 3, !.version = 1]]
MCScenes == {[rows |-> Waiting, who |-> Sessions, now |-> MaxClock, payload |-> 1, byHand |-> {}]}
Alike == Permutations(Sessions)
=============================================================================
