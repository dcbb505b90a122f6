---------------------------- MODULE ChildProcess ----------------------------
(***************************************************************************)
(* A child process and the two functions that wait for one: invokeHarness  *)
(* of src/harness.ts runs an agent, runVerifyCommand of                    *)
(* src/verify-command.ts a verification command.  The child, the kernel    *)
(* and a descendant that keeps the output pipe open act on one side; the   *)
(* events and timers of Node's loop act on the other, one callback at a    *)
(* time, in any order the loop may deliver them.                           *)
(*                                                                         *)
(* Output is counted in units.  The process group is a POSIX one: killTree *)
(* reaches every descendant and fails once the leader has been reaped.     *)
(***************************************************************************)
EXTENDS Integers, FiniteSetsExt

CONSTANTS Jobs,       \* the invocations of a review
          Commands,   \* those that run a verification command
          MaxOut,     \* [Jobs -> Nat]: bound on the units of output
          Faults,     \* [Jobs -> SUBSET Fault]: what may go wrong with each
          Ceiling,    \* units kept in memory
          Retention   \* units a command may write to its evidence file

(* It cannot be started; it exits with an error or answers badly; a          *)
(* descendant outlives it with its pipe open; it cannot be killed; a file or *)
(* the database cannot be written on its behalf.                             *)
Fault == {"spawn", "fails", "orphan", "unkillable", "disk"}

ASSUME JobsAssumption ==
  /\ Commands \subseteq Jobs
  /\ MaxOut \in [Jobs -> Nat]
  /\ Faults \in [Jobs -> SUBSET Fault]
  /\ Ceiling \in Nat /\ Retention \in Nat /\ Ceiling < Retention

VARIABLE child

Agents == Jobs \ Commands

Idle == [at |-> "idle", os |-> "none", code |-> "none", pipe |-> FALSE, wrote |-> 0,
         sent |-> 0, kept |-> 0, limit |-> FALSE, idle |-> FALSE, grace |-> FALSE,
         timedOut |-> FALSE, spawnError |-> FALSE, killError |-> FALSE,
         overflow |-> FALSE, evidenceError |-> FALSE, lost |-> FALSE]

ChildType ==
  child \in [Jobs -> [at : {"idle", "running", "ending", "settled"},
                      os : {"none", "alive", "zombie", "reaped"},
                      code : {"none", "zero", "nonzero", "signal"},
                      pipe : BOOLEAN, wrote : 0..Max({MaxOut[j] : j \in Jobs}),
                      sent : 0..Max({MaxOut[j] : j \in Jobs}), kept : 0..Ceiling,
                      limit : BOOLEAN, idle : BOOLEAN, grace : BOOLEAN,
                      timedOut : BOOLEAN, spawnError : BOOLEAN, killError : BOOLEAN,
                      overflow : BOOLEAN, evidenceError : BOOLEAN, lost : BOOLEAN]]

Waits(j) == child[j].at = "running"

-----------------------------------------------------------------------------
(* What settle leaves of an invocation: an agent's outcome is resolved at    *)
(* once, a command's only when its evidence file has been closed.  Timers    *)
(* are cleared.  A command's pipe may still deliver while the file closes.   *)
Ended(c) == [Idle EXCEPT !.at = "settled", !.os = c.os, !.code = c.code,
               !.timedOut = c.timedOut, !.spawnError = c.spawnError, !.killError = c.killError,
               !.overflow = c.overflow, !.evidenceError = c.evidenceError,
               !.lost = c.kept # c.wrote]

Settle(j, c) ==
  IF j \in Commands
  THEN [c EXCEPT !.at = "ending", !.limit = FALSE, !.idle = FALSE, !.grace = FALSE]
  ELSE Ended(c)

(* child.exitCode is set by an exit, and stays null after a signal. *)
HasExitCode(c) == c.os = "reaped" /\ c.code # "signal"

(* SIGKILL to the group: a living leader dies of it, and with the group goes *)
(* every writer of the pipe.                                                 *)
Killed(c) == [c EXCEPT !.os = "zombie", !.code = IF c.os = "alive" THEN "signal" ELSE @,
                       !.pipe = FALSE]

KillOutcomes(j, c) ==
  LET failed == Settle(j, [c EXCEPT !.killError = TRUE])
  IN IF c.os = "reaped" THEN {failed}
     ELSE {Killed(c)} \cup (IF "unkillable" \in Faults[j] THEN {failed} ELSE {})

(* fireTimeout, and the timer of runVerifyCommand. *)
Timeout(j, c) ==
  IF HasExitCode(c) THEN {c} ELSE KillOutcomes(j, [c EXCEPT !.timedOut = TRUE])

(* killForRetention: no timeout, and a failed kill does not settle. *)
KillForRetention(j, c) ==
  IF c.at # "running" \/ HasExitCode(c) THEN {c}
  ELSE LET over == [c EXCEPT !.overflow = TRUE]
           failed == [over EXCEPT !.killError = TRUE]
       IN IF c.os = "reaped" THEN {failed}
          ELSE {Killed(over)} \cup (IF "unkillable" \in Faults[j] THEN {failed} ELSE {})

-----------------------------------------------------------------------------
(* spawn: a child that cannot be created reports an error at once. *)
Launched(j) ==
  {[Idle EXCEPT !.at = "running", !.os = "alive", !.pipe = TRUE, !.limit = TRUE,
                !.idle = j \in Agents]}
  \cup (IF "spawn" \in Faults[j]
        THEN {Settle(j, [Idle EXCEPT !.spawnError = TRUE])} ELSE {})

(* The child or, once it is dead, a descendant writes while the pipe lasts. *)
ChildWrites(j) ==
  /\ child[j].at \in {"running", "ending"}
  /\ child[j].pipe
  /\ child[j].os \in {"zombie", "reaped"} => "orphan" \in Faults[j]
  /\ child[j].wrote < MaxOut[j]
  /\ child' = [child EXCEPT ![j].wrote = @ + 1, ![j].sent = @ + 1]

ChildExits(j) ==
  /\ Waits(j) /\ child[j].os = "alive"
  /\ \E code \in {"zero"} \cup (IF "fails" \in Faults[j] THEN {"nonzero"} ELSE {}),
        held \in {FALSE} \cup (IF "orphan" \in Faults[j] THEN {TRUE} ELSE {}) :
       child' = [child EXCEPT ![j].os = "zombie", ![j].code = code, ![j].pipe = held]

OrphanCloses(j) ==
  /\ child[j].at \in {"running", "ending"}
  /\ child[j].os \in {"zombie", "reaped"} /\ child[j].pipe
  /\ child' = [child EXCEPT ![j].pipe = FALSE]

(* Not the code: nothing settles a grace period after the exit. *)
ExitEventAwaitsClose(j) ==
  /\ Waits(j) /\ child[j].os = "zombie"
  /\ child' = [child EXCEPT ![j].os = "reaped", ![j].limit = FALSE, ![j].idle = FALSE]

ExitEvent(j) ==
  /\ Waits(j) /\ child[j].os = "zombie"
  /\ child' = [child EXCEPT ![j].os = "reaped", ![j].limit = FALSE, ![j].idle = FALSE,
                            ![j].grace = TRUE]

CloseEvent(j) ==
  /\ Waits(j) /\ child[j].os = "reaped" /\ ~child[j].pipe /\ child[j].sent = 0
  /\ child' = [child EXCEPT ![j] = Settle(j, child[j])]

LimitTimer(j) ==
  /\ Waits(j) /\ child[j].limit
  /\ \E c \in Timeout(j, [child[j] EXCEPT !.limit = FALSE]) : child' = [child EXCEPT ![j] = c]

(* Late output re-arms the idle timer after the exit; the grace period of a  *)
(* second always ends before its half hour does.                             *)
IdleTimer(j) ==
  /\ Waits(j) /\ child[j].idle /\ ~child[j].grace
  /\ \E c \in Timeout(j, [child[j] EXCEPT !.idle = FALSE]) : child' = [child EXCEPT ![j] = c]

(* What is in the pipe at the exit is read within the grace period. *)
GraceTimer(j) ==
  /\ Waits(j) /\ child[j].grace /\ child[j].sent = 0
  /\ child' = [child EXCEPT ![j] = Settle(j, [child[j] EXCEPT !.grace = FALSE])]

(* One data event takes all that is in the pipe.  A prefix up to the ceiling *)
(* is kept; what does not fit, or arrives when nothing fits any more, is an  *)
(* overflow, on which an agent is killed.                                    *)
Room(c) == Ceiling - c.kept
Kept(c) == [c EXCEPT !.sent = 0, !.kept = Min({Ceiling, c.kept + c.sent}),
                     !.overflow = @ \/ c.sent > Room(c)]

AgentReads(j) ==
  /\ j \in Agents /\ Waits(j) /\ child[j].sent > 0
  /\ LET c == child[j]
         next == IF c.sent <= Room(c) THEN {Kept(c)} ELSE Timeout(j, Kept(c))
     IN \E d \in next :
          child' = [child EXCEPT ![j] =
                      IF Room(c) > 0 /\ d.at = "running" THEN [d EXCEPT !.idle = TRUE] ELSE d]

(* A command is killed for filling its evidence file.  Once that file has    *)
(* been ended a write to it is an error of the file.                         *)
CommandReads(j) ==
  /\ j \in Commands /\ child[j].at \in {"running", "ending"} /\ child[j].sent > 0
  /\ LET c == child[j]
         full == c.wrote >= Retention /\ c.wrote - c.sent < Retention
     IN \E d \in IF full /\ ~c.evidenceError THEN KillForRetention(j, Kept(c)) ELSE {Kept(c)} :
          child' = [child EXCEPT ![j] =
                      [d EXCEPT !.evidenceError = d.evidenceError \/ c.at = "ending"]]

EvidenceFails(j) ==
  /\ j \in Commands /\ child[j].at \in {"running", "ending"} /\ "disk" \in Faults[j]
  /\ child' = [child EXCEPT ![j].evidenceError = TRUE]

EvidenceCloses(j) ==
  /\ j \in Commands /\ child[j].at = "ending"
  /\ child' = [child EXCEPT ![j] = Ended(child[j])]

-----------------------------------------------------------------------------
(* The loop of Node delivers each event and timer; the child owes nothing. *)
LoopStep(j) ==
  \/ ExitEvent(j) \/ CloseEvent(j) \/ LimitTimer(j) \/ IdleTimer(j) \/ GraceTimer(j)
  \/ AgentReads(j) \/ CommandReads(j) \/ EvidenceCloses(j)

ChildStep(j) ==
  \/ ChildWrites(j) \/ ChildExits(j) \/ OrphanCloses(j) \/ EvidenceFails(j)

(* What dispatchOnce asks of an agent's outcome before it parses it, and     *)
(* verifyCommit of a command's, in this order.                               *)
InTime(c) == ~c.spawnError /\ ~c.overflow /\ ~c.timedOut /\ c.code = "zero"
=============================================================================
