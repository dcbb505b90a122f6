---------------------------- MODULE MCDocReview ----------------------------
(* DocReview for TLC: a review of a specification in which k1 is an open   *)
(* decision the author may have disclosed, and k2 is not.                  *)
EXTENDS DocReview

CONSTANTS k1, k2, MaxFindings

MCKeys == {k1, k2}
MCDisclosures == {k1}

(* A bound: a review with more findings is not followed any further. *)
FewFindings == Cardinality(findings) <= MaxFindings
=============================================================================
