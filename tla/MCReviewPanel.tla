--------------------------- MODULE MCReviewPanel ---------------------------
(* ReviewPanel with two seats, two rounds and two paths, one of which is to   *)
(* be delivered.  The first reviewer meets every fault of a process, the      *)
(* second reports; the command fills its file exactly or passes it.           *)
EXTENDS ReviewPanel

CONSTANTS r1, r2, implementer, command, p1, p2

MCPanel == <<r1, r2>>
MCSeverities == <<"minor", "major">>
MCMaxOut == (r1 :> 2) @@ (r2 :> 1) @@ (implementer :> 1) @@ (command :> 3)
MCFaults == (r1 :> {"spawn", "orphan", "unkillable"}) @@ (r2 :> {"fails", "disk"})
            @@ (implementer :> {"fails"}) @@ (command :> Fault)

A(path, severity) == {[path |-> path, severity |-> severity]}
MCAnswers == (r1 :> {{}, A(p1, "major"), A(p2, "minor")})
             @@ (r2 :> {{}, A(p1, "minor"), A(p1, "unknown")}) @@ (implementer :> {{}})
MCLeaves == (r1 :> {"moved"}) @@ (r2 :> {}) @@ (implementer :> {"dirty"})
            @@ (command :> {"dirty", "ignored"})
=============================================================================
