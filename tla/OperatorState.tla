--------------------------- MODULE OperatorState ---------------------------
(* What the commands that advance a run see of it: src/src/operator-state.ts. *)
(* A run is the prefix of the stage chain it has passed. Its "version" stands *)
(* for boundaryFingerprint: every write of its rows or of its audit events    *)
(* gives another one. The repository lock is one step here; RepoLock shows    *)
(* what its file protocol promises.                                           *)
EXTENDS Integers, Sequences, FiniteSets, FiniteSetsExt

CONSTANTS Sessions,     \* guided sessions (buildworks)
          Runners,      \* non-interactive invocations (bw run)
          Requests,     \* requests to the dashboard server
          MaxRuns,      \* bound: run rows
          Questions,    \* what a spec review may ask, in order of finding
          Editable      \* bound: the recorded files somebody may edit

Invocations == Sessions \cup Runners \cup Requests
RunIds == 1 .. MaxRuns

ASSUME InvocationsApart == Sessions \cap Runners = {} /\ (Sessions \cup Runners) \cap Requests = {}
ASSUME MaxRunsNat == MaxRuns \in Nat \ {0}
ASSUME QuestionsOrdered == Questions \subseteq Nat
ASSUME EditableFiles == Editable \subseteq {"spec", "records", "worktree"}

VARIABLES runs,    \* the rows of each run
          lock,    \* the invocation that holds the repository lock, if any
          held,    \* which of the recorded files are still as the rows say
          pc, job  \* where each invocation is, and what it has read

rowVars == <<runs, lock, held>>
opVars == <<runs, lock, held, pc, job>>

Groups == <<"spec", "decision", "plan", "implementation", "verification", "code_review",
            "delivery_check">>

(* Passed stages at which a group starts; three is the approval's boundary. *)
GroupAt == [n \in {0, 2, 4, 6, 7, 8, 9} |->
              CASE n = 0 -> "spec" [] n = 2 -> "decision" [] n = 4 -> "plan"
                [] n = 6 -> "implementation" [] n = 7 -> "verification"
                [] n = 8 -> "code_review" [] n = 9 -> "delivery_check"]

Absent == [status |-> "absent", frozen |-> FALSE, stages |-> 0, intact |-> TRUE,
           open |-> {}, approval |-> 0, version |-> 0]

(* The rows form a boundary: nothing partial, nothing contradictory. *)
Intact(row) ==
  /\ row.intact
  /\ row.stages \in {0, 2, 3, 4, 6, 7, 8, 9, 10}
  /\ row.stages = 10 <=> row.status = "completed"

(* prefixAction: the group a recorded chain leads to, "none" if it leads nowhere. *)
Action(row) ==
  CASE row.status = "blocked" \/ ~Intact(row) \/ row.stages = 10 -> "none"
    [] row.stages = 2 /\ row.open # {} -> "decide"
    [] row.stages = 3 -> "approval"
    [] OTHER -> GroupAt[row.stages]

(* interpretBoundary: spec.md is the document the last gate recorded, *)
SpecHolds(row) == row.stages >= 2 => "spec" \in held
(* the plan and the later stages' records are those the gate events name,     *)
RecordsHold(row) == row.stages >= 6 => "records" \in held
(* and the worktree is clean at the recorded commit.                          *)
WorktreeHolds(row) == row.stages \in 7 .. 9 => "worktree" \in held

(* Not the code: a profile that was never frozen refuses nothing. *)
EvidenceOfFiles(i, row) ==
  /\ SpecHolds(row) /\ RecordsHold(row) /\ WorktreeHolds(row)
  /\ lock \subseteq {i}

(* What interpretBoundary can refuse: an unfrozen profile, a file that is not *)
(* as recorded, or a lock that is somebody else's.                            *)
Evidence(i, row) ==
  /\ row.frozen
  /\ SpecHolds(row) /\ RecordsHold(row) /\ WorktreeHolds(row)
  /\ lock \subseteq {i}

(* readRunSnapshot, first half: the rows, in one read transaction. *)
ObserveRows(i, from, to) ==
  /\ pc[i] = from
  /\ job' = [job EXCEPT ![i].seen = runs[job[i].run]]
  /\ pc' = [pc EXCEPT ![i] = to]
  /\ UNCHANGED rowVars

(* Second half: files, the lock and the fingerprint again. *)
Eligible(i) ==
  LET row == job[i].seen
  IN  /\ Action(row) # "none"
      /\ Evidence(i, row)
      /\ row.version = runs[job[i].run].version

Goto(i, to) == pc' = [pc EXCEPT ![i] = to]

(* What an invocation remembers at its start, and no longer after its end. *)
Idle == [run |-> 0, seen |-> Absent, before |-> {}, preview |-> {}, rest |-> <<>>,
         outcome |-> "none", payload |-> 0, sig |-> 0, todo |-> {},
         handed |-> {}, then |-> "end"]

(* The outcomes on which a guided session goes on. *)
Continued == {"answered", "approved", "awaiting_decision", "awaiting_approval"}

(* Not the code: the lock is left behind. *)
ReturnHolding(i, outcome) ==
  /\ Goto(i, "ended")
  /\ job' = [job EXCEPT ![i] = Idle]
  /\ UNCHANGED lock

(* A command or a part of it ends; what it holds is released on the way out.  *)
Return(i, outcome) ==
  /\ lock' = lock \ {i}
  /\ IF i \in Sessions /\ outcome \in Continued
       THEN /\ Goto(i, "returned")
            /\ job' = [job EXCEPT ![i] = [Idle EXCEPT !.run = job[i].run, !.outcome = outcome,
                                             !.handed = job[i].handed, !.then = job[i].then]]
       ELSE /\ Goto(i, "ended")
            /\ job' = [job EXCEPT ![i] = Idle]

(* acquireLock: at once, or a refusal. *)
TakeLock(i, from, to) ==
  /\ pc[i] = from
  /\ IF lock = {} THEN /\ lock' = {i}
                       /\ Goto(i, to)
                       /\ UNCHANGED job
                  ELSE Return(i, "writer_contention")
  /\ UNCHANGED <<runs, held>>

(* A write to a run: every one changes the fingerprint. *)
Write(r, row) == runs' = [runs EXCEPT ![r] = [row EXCEPT !.version = row.version + 1]]

(* Somebody saves a recorded file, or puts the recorded bytes back. *)
EditFile ==
  /\ \E f \in Editable : held' = IF f \in held THEN held \ {f} ELSE held \cup {f}
  /\ UNCHANGED <<runs, lock, pc, job>>

(* A kill: the lock file of a dead process is taken over by the next one. *)
Die(i) ==
  /\ pc[i] \notin {"idle", "ended"}
  /\ Goto(i, "ended")
  /\ job' = [job EXCEPT ![i] = Idle]
  /\ lock' = lock \ {i}
  /\ UNCHANGED <<runs, held>>
=============================================================================
