------------------------------ MODULE MCStore ------------------------------
(* Store with two writers, which need not hold the repository lock, and a   *)
(* reader.  One writer goes on with a second unit after its first one       *)
(* failed or not; both may finalize a delivery.                             *)
EXTENDS Store

CONSTANTS w1, w2, r1, none

MCKinds == [w \in Writers |-> IF w = w1 THEN {"finalize", "complete_stage"}
                                        ELSE {"finalize", "grant", "answer", "add_stage"}]
MCMaxUnits == [w \in Writers |-> IF w = w1 THEN 2 ELSE 1]
=============================================================================
