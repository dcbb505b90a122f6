--------------------------- MODULE MCGovernedRun ---------------------------
(* Model-checking instances of GovernedRun: two specifications, s1 of low and *)
(* s2 of high risk (or both of one risk), one plan text, and one question.    *)
EXTENDS GovernedRun

CONSTANTS s1, s2, p1, q1

MCRisks == {"low", "high"}
MCRiskOf == [s \in Specs |-> IF s = s1 THEN "low" ELSE "high"]
MCUniformRisk == [s \in Specs |-> "low"]
=============================================================================
