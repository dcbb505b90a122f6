----------------------------- MODULE MCRepoLock -----------------------------
(* Model-checking instance of RepoLock: i1 and i2 run in one process, as two *)
(* requests of the dashboard server do; i3 and i4 in a process of their own. *)
EXTENDS RepoLock

CONSTANTS i1, i2, i3, i4, p1, p2, p3

MCPidOf == [i \in Invocations |->
              CASE i \in {i1, i2} -> p1 [] i = i3 -> p2 [] i = i4 -> p3]
=============================================================================
