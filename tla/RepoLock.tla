------------------------------ MODULE RepoLock ------------------------------
(***************************************************************************)
(* The repository lock of src/lock.ts.                                     *)
(*                                                                         *)
(* An invocation is one pass through acquireLock and the release function  *)
(* it returns.  Several invocations can belong to one operating-system     *)
(* process (the dashboard server, the guided mode), so the pid an          *)
(* invocation writes is that of its process, while its token is its own.   *)
(*                                                                         *)
(* Every file-system call is an action of its own: between two of them     *)
(* any other process may run, end or be killed.                            *)
(***************************************************************************)
EXTENDS FiniteSets

CONSTANTS Invocations,   \* one pass through acquireLock each
          Processes,     \* operating-system processes, named by their pid
          PidOf          \* the process an invocation runs in

ASSUME PidAssumption == PidOf \in [Invocations -> Processes]

VARIABLES
  file,      \* the file at the lock path, named by the invocation that created
             \* it: {} (ENOENT) or a singleton
  written,   \* the invocations whose created file holds its pid and token
  alive,     \* the processes process.kill(pid, 0) finds
  pc,        \* where each invocation is
  seen,      \* whose content inspectLock read: {} or a singleton
  stolen     \* history: a takeover unlinked the file of a live invocation

vars == <<file, written, alive, pc, seen, stolen>>

Steps == {"idle",      \* not in acquireLock, holds nothing
          "open",      \* about to openSync(lockPath, "wx")
          "write",     \* has created the file, about to write its content
          "inspect",   \* EEXIST: about to read the file in inspectLock
          "check",     \* has read a pid, about to ask whether it is alive
          "takeover",  \* saw a dead holder, about to unlink the file
          "held",      \* acquireLock returned
          "release",   \* in the release function, about to read the file
          "unlink",    \* read its own token, about to unlink the file
          "dead"}      \* its process has ended

(* The steps at which an invocation relies on the file at the path being its own. *)
Owning == {"write", "held", "release", "unlink"}

TypeOK ==
  /\ file \in SUBSET Invocations
  /\ \A i, j \in file : i = j
  /\ written \in SUBSET Invocations
  /\ alive \in SUBSET Processes
  /\ pc \in [Invocations -> Steps]
  /\ seen \in [Invocations -> SUBSET Invocations]
  /\ stolen \in BOOLEAN

Init ==
  /\ file = {}
  /\ written = {}
  /\ alive = Processes
  /\ pc = [i \in Invocations |-> "idle"]
  /\ seen = [i \in Invocations |-> {}]
  /\ stolen = FALSE

Goto(i, step) == pc' = [pc EXCEPT ![i] = step]

-----------------------------------------------------------------------------
(* Both functions are synchronous: one runs to its end before anything else  *)
(* in its process does.                                                      *)
ProcessIsFree(i) ==
  \A j \in Invocations : PidOf[j] = PidOf[i] => pc[j] \in {"idle", "held"}

(* acquireLock *)

Begin(i) ==
  /\ pc[i] = "idle"
  /\ PidOf[i] \in alive
  /\ ProcessIsFree(i)
  /\ Goto(i, "open")
  /\ UNCHANGED <<file, written, alive, seen, stolen>>

(* Not the code: the flag "w" in place of "wx". *)
CreateOverwriting(i) ==
  /\ pc[i] = "open"
  /\ file' = {i}
  /\ written' = written \ {i}
  /\ Goto(i, "write")
  /\ UNCHANGED <<alive, seen, stolen>>

(* Not the code: a lock file of its own for every invocation. *)
CreateBeside(i) ==
  /\ pc[i] = "open"
  /\ file' = file \cup {i}
  /\ written' = written \ {i}
  /\ Goto(i, "write")
  /\ UNCHANGED <<alive, seen, stolen>>

(* openSync(lockPath, "wx") creates the file; its content is not there yet. *)
Create(i) ==
  /\ pc[i] = "open"
  /\ file = {}
  /\ file' = {i}
  /\ written' = written \ {i}
  /\ Goto(i, "write")
  /\ UNCHANGED <<alive, seen, stolen>>

(* openSync fails with EEXIST. *)
Exists(i) ==
  /\ pc[i] = "open"
  /\ file # {}
  /\ Goto(i, "inspect")
  /\ UNCHANGED <<file, written, alive, seen, stolen>>

(* The write goes to the open descriptor, wherever the path points by now. *)
Write(i) ==
  /\ pc[i] = "write"
  /\ written' = written \cup {i}
  /\ Goto(i, "held")
  /\ UNCHANGED <<file, alive, seen, stolen>>

(* inspectLock reads the file: absent is tried again, a file without a pid   *)
(* makes acquireLock throw, and a pid is looked up by the next step.         *)
Inspect(i) ==
  /\ pc[i] = "inspect"
  /\ \/ file = {} /\ Goto(i, "open") /\ UNCHANGED seen
     \/ file # {} /\ file \cap written = {} /\ Goto(i, "idle") /\ UNCHANGED seen
     \/ file # {} /\ file \subseteq written /\ Goto(i, "check")
        /\ seen' = [seen EXCEPT ![i] = file]
  /\ UNCHANGED <<file, written, alive, stolen>>

(* Not the code: a dead holder is refused like a live one. *)
CheckWithoutTakeover(i) ==
  /\ pc[i] = "check"
  /\ Goto(i, "idle")
  /\ seen' = [seen EXCEPT ![i] = {}]
  /\ UNCHANGED <<file, written, alive, stolen>>

(* isAlive of the pid that was read: a live holder makes acquireLock throw. *)
Check(i) ==
  /\ pc[i] = "check"
  /\ Goto(i, IF \E h \in seen[i] : PidOf[h] \in alive THEN "idle" ELSE "takeover")
  /\ seen' = [seen EXCEPT ![i] = {}]
  /\ UNCHANGED <<file, written, alive, stolen>>

(* unlinkSync removes whatever file is at the path now; ENOENT is ignored. *)
TakeOver(i) ==
  /\ pc[i] = "takeover"
  /\ file' = {}
  /\ stolen' = (stolen \/ \E h \in file : pc[h] \in Owning)
  /\ Goto(i, "open")
  /\ UNCHANGED <<written, alive, seen>>

-----------------------------------------------------------------------------
(* the release function *)

BeginRelease(i) ==
  /\ pc[i] = "held"
  /\ ProcessIsFree(i)
  /\ Goto(i, "release")
  /\ UNCHANGED <<file, written, alive, seen, stolen>>

(* Only a file with this invocation's own token is unlinked. *)
ReadToken(i) ==
  /\ pc[i] = "release"
  /\ Goto(i, IF file = {i} THEN "unlink" ELSE "idle")
  /\ UNCHANGED <<file, written, alive, seen, stolen>>

Unlink(i) ==
  /\ pc[i] = "unlink"
  /\ file' = {}
  /\ Goto(i, "idle")
  /\ UNCHANGED <<written, alive, seen, stolen>>

-----------------------------------------------------------------------------
(* A process ends: killed at any point, or at its own exit; an invocation of  *)
(* it that had not released leaves its file behind.                           *)
Die(p) ==
  /\ p \in alive
  /\ alive' = alive \ {p}
  /\ pc' = [i \in Invocations |-> IF PidOf[i] = p THEN "dead" ELSE pc[i]]
  /\ UNCHANGED <<file, written, seen, stolen>>

Step(i) ==
  \/ Create(i) \/ Exists(i) \/ Write(i)
  \/ Inspect(i) \/ Check(i) \/ TakeOver(i)
  \/ ReadToken(i) \/ Unlink(i)

Next ==
  \/ \E i \in Invocations : Begin(i) \/ BeginRelease(i) \/ Step(i)
  \/ \E p \in Processes : Die(p)

Spec == Init /\ [][Next]_vars

(* A process that is alive is scheduled; nothing makes it begin or die. *)
FairSpec == Spec /\ \A i \in Invocations : WF_vars(Step(i))

-----------------------------------------------------------------------------
(* lock.ts:48 "One writer per repository": no two invocations are past       *)
(* acquireLock and not yet through with the release function.                *)
Holding(i) == pc[i] \in {"held", "release", "unlink"}

OneWriter == \A i, j \in Invocations : Holding(i) /\ Holding(j) => i = j

(* The takeover is the only hole: as long as no takeover has unlinked a file *)
(* that a live invocation created, the open-exclusive flag and the token     *)
(* check of the release function keep the repository to one writer.          *)
OneWriterUnlessStolen == stolen \/ OneWriter

(* The inductive strengthening: an invocation that relies on the lock file   *)
(* finds its own at the path.                                                *)
OwnsFile == stolen \/ \A i \in Invocations : pc[i] \in Owning => file = {i}

(* A dead invocation's lock file does not outlive an attempt to acquire the  *)
(* lock: "a dead holder's file is stale and gets taken over" (lock.ts:51),   *)
(* unless the attempt dies too.                                              *)
DeadLock(d) == file = {d} /\ d \in written /\ pc[d] = "dead"

StaleLockClears ==
  \A d, i \in Invocations :
    DeadLock(d) /\ pc[i] = "open" ~> file # {d} \/ pc[i] = "dead"

=============================================================================
