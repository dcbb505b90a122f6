--------------------------- MODULE ApprovalHandoff ---------------------------
(* approvalHandoff of src/src/guided-command.ts and approveRun of             *)
(* src/src/approval-stage.ts: a directory in which the payload waits for a    *)
(* signature made elsewhere, shared by every session of a run.  A payload is  *)
(* identified by its expiry: buildBinding refuses unless all else it binds is *)
(* what the gates passed.                                                     *)
EXTENDS AdvanceRun

CONSTANTS MaxClock,   \* bound: the clock stops here
          Life        \* APPROVAL_DEFAULT_LIFETIME_SECONDS, in ticks

ASSUME ClockBounds == MaxClock \in Nat /\ Life \in Nat \ {0}

VARIABLES now,      \* the clock
          dir,      \* the handoff directory of each run: [payload, sig], 0 a missing file
          rotating, \* .rotating-expired-e, by run and e
          archive,  \* .expired-e, by run and e
          written,  \* payloads a session has written
          putBack,  \* history: what was put back while another was to archive it
          signed    \* payloads the approver has signed

dirVars == <<dir, rotating, archive, written, putBack>>
handoffVars == <<now, dirVars, signed>>

Times == 0 .. MaxClock + Life
None == [there |-> FALSE, payload |-> 0, sig |-> 0]
Empty == [None EXCEPT !.there = TRUE]

(* The first run may have a payload that an earlier session left. *)
HandoffInit(time, left) ==
  /\ now = time
  /\ dir = [r \in RunIds |-> IF r = 1 /\ left # 0 THEN [Empty EXCEPT !.payload = left] ELSE None]
  /\ rotating = [r \in RunIds |-> [e \in Times |-> None]]
  /\ archive = [r \in RunIds |-> [e \in Times |-> None]]
  /\ written = IF left = 0 THEN {} ELSE {<<1, left>>}
  /\ putBack = {}
  /\ signed = {}

Tick == /\ now < MaxClock
        /\ now' = now + 1
        /\ UNCHANGED <<dirVars, signed, opVars>>

(* buildBinding: the run waits for its approval and the reviewed spec is on disk. *)
Bindable(row) ==
  /\ row.status = "in_progress" /\ row.frozen
  /\ row.stages = 3 /\ row.intact
  /\ "spec" \in held

Expired(e) == e <= now

Stays(i, to) == Goto(i, to) /\ UNCHANGED <<runs, lock, held, job>>
Throw(i) == Return(i, "error") /\ UNCHANGED <<runs, held>>

(* The retained payload, if there is one, is shown again, or rotated away. *)
ReadHandoff(i) ==
  LET r == job[i].run
      e == dir[r].payload
  IN  /\ pc[i] = "handoff"
      /\ \/ e = 0 /\ Stays(i, "mint")
         \/ e # 0 /\ ~Bindable(runs[r]) /\ Throw(i)
         \/ /\ e # 0 /\ Bindable(runs[r])
            /\ job' = [job EXCEPT ![i].payload = e]
            /\ Goto(i, IF Expired(e) THEN "rotate_check" ELSE "wait")
            /\ UNCHANGED <<runs, lock, held>>
      /\ UNCHANGED handoffVars

(* rotateExpiredHandoffDirectory never replaces an earlier archive. *)
RotateCheck(i) ==
  LET r == job[i].run
      e == job[i].payload
  IN  /\ pc[i] = "rotate_check"
      /\ IF rotating[r][e].there \/ archive[r][e].there THEN Throw(i) ELSE Stays(i, "rotate")
      /\ UNCHANGED handoffVars

(* rename(2) of a directory: over nothing, or over an empty directory. *)
Replaceable(d) == d \in {None, Empty}

MoveAside(i) ==
  LET r == job[i].run
      e == job[i].payload
  IN  /\ pc[i] = "rotate"
      /\ IF dir[r].there /\ Replaceable(rotating[r][e])
           THEN /\ rotating' = [rotating EXCEPT ![r][e] = dir[r]]
                /\ dir' = [dir EXCEPT ![r] = None]
                /\ Stays(i, "rotate_read")
           ELSE Stays(i, "restore_check") /\ UNCHANGED <<dir, rotating>>
      /\ UNCHANGED <<now, archive, written, putBack, signed>>

(* Not the code: what was moved is archived unread. *)
MovedUnread(i) ==
  /\ pc[i] = "rotate_read"
  /\ Stays(i, "archive")
  /\ UNCHANGED handoffVars

(* The directory that was moved is the one that was read. *)
MovedIsExpired(i) ==
  LET r == job[i].run
      e == job[i].payload
  IN  /\ pc[i] = "rotate_read"
      /\ Stays(i, IF rotating[r][e].payload = e THEN "archive" ELSE "restore_check")
      /\ UNCHANGED handoffVars

ArchiveExpired(i) ==
  LET r == job[i].run
      e == job[i].payload
  IN  /\ pc[i] = "archive"
      /\ IF rotating[r][e].there /\ Replaceable(archive[r][e])
           THEN /\ archive' = [archive EXCEPT ![r][e] = rotating[r][e]]
                /\ rotating' = [rotating EXCEPT ![r][e] = None]
                /\ Stays(i, "mint")
           ELSE Stays(i, "restore_check") /\ UNCHANGED <<archive, rotating>>
      /\ UNCHANGED <<now, dir, written, putBack, signed>>

(* The catch block puts back what it finds aside, if nothing took its place. *)
RestoreCheck(i) ==
  LET r == job[i].run
  IN  /\ pc[i] = "restore_check"
      /\ IF rotating[r][job[i].payload].there /\ ~dir[r].there THEN Stays(i, "restore") ELSE Throw(i)
      /\ UNCHANGED handoffVars

(* Others that have read what lies aside under a name, and go on to archive it. *)
ToArchive(i, r, e) ==
  {k \in Invocations \ {i} : pc[k] = "archive" /\ job[k].run = r /\ job[k].payload = e}

Restore(i) ==
  LET r == job[i].run
      e == job[i].payload
  IN  /\ pc[i] = "restore"
      /\ IF rotating[r][e].there /\ Replaceable(dir[r])
           THEN /\ dir' = [dir EXCEPT ![r] = rotating[r][e]]
                /\ rotating' = [rotating EXCEPT ![r][e] = None]
                /\ putBack' = IF ToArchive(i, r, e) = {} THEN putBack ELSE putBack \cup {<<r, e>>}
           ELSE UNCHANGED <<dir, rotating, putBack>>
      /\ Throw(i)
      /\ UNCHANGED <<now, archive, written, signed>>

(* A fresh expiry, and the directory for it. *)
Mint(i) ==
  LET r == job[i].run
  IN  /\ pc[i] = "mint"
      /\ IF Bindable(runs[r])
           THEN /\ dir' = [dir EXCEPT ![r].there = TRUE]
                /\ job' = [job EXCEPT ![i].payload = now + Life]
                /\ Goto(i, "write")
                /\ UNCHANGED <<runs, lock, held>>
           ELSE Throw(i) /\ UNCHANGED dir
      /\ UNCHANGED <<now, rotating, archive, written, putBack, signed>>

(* Not the code: the payload file is written without the exclusive flag. *)
Overwrite(i) ==
  LET r == job[i].run
  IN  /\ pc[i] = "write"
      /\ IF dir[r].there
           THEN /\ dir' = [dir EXCEPT ![r].payload = job[i].payload]
                /\ written' = written \cup {<<r, job[i].payload>>}
                /\ Stays(i, "wait")
           ELSE Throw(i) /\ UNCHANGED <<dir, written>>
      /\ UNCHANGED <<now, rotating, archive, putBack, signed>>

(* writeFileSync with "wx": the file is created, never replaced. *)
WritePayload(i) ==
  LET r == job[i].run
  IN  /\ pc[i] = "write"
      /\ IF dir[r].there /\ dir[r].payload = 0
           THEN /\ dir' = [dir EXCEPT ![r].payload = job[i].payload]
                /\ written' = written \cup {<<r, job[i].payload>>}
                /\ Stays(i, "wait")
           ELSE Throw(i) /\ UNCHANGED <<dir, written>>
      /\ UNCHANGED <<now, rotating, archive, putBack, signed>>

(* Elsewhere: the approver signs what lies in the directory, and puts this or *)
(* an older signature beside it.                                              *)
Sign ==
  /\ \E r \in RunIds :
       /\ dir[r].payload # 0
       /\ signed' = signed \cup {dir[r].payload}
       /\ \E s \in signed' \ {dir[r].sig} : dir' = [dir EXCEPT ![r].sig = s]
  /\ UNCHANGED <<now, rotating, archive, written, putBack, opVars>>

(* Somebody clears the handoff directory away. *)
Discard ==
  /\ \E r \in RunIds :
       /\ dir[r].there
       /\ dir' = [dir EXCEPT ![r] = None]
       /\ written' = written \ {<<r, dir[r].payload>>}
  /\ UNCHANGED <<now, rotating, archive, putBack, signed, opVars>>

(* The session waits: the operator leaves, rejects, or a signature is there. *)
AwaitSignature(i) ==
  LET sig == dir[job[i].run].sig
  IN  /\ pc[i] = "wait"
      /\ \/ sig = 0 /\ Return(i, "paused") /\ UNCHANGED <<runs, held>>
         \/ sig = 0 /\ Stays(i, "reject")
         \/ /\ sig # 0
            /\ job' = [job EXCEPT ![i].sig = sig]
            /\ Goto(i, "confirm")
            /\ UNCHANGED <<runs, lock, held>>
      /\ UNCHANGED handoffVars

(* Under the lock: the refusal is an audit event of the run. *)
RecordReject(i) ==
  /\ pc[i] = "rejecting"
  /\ Write(job[i].run, runs[job[i].run])
  /\ Return(i, "paused")
  /\ UNCHANGED <<held, handoffVars>>

ConfirmSubmit(i) ==
  /\ pc[i] = "confirm"
  /\ Stays(i, "submit_lock") \/ Throw(i)
  /\ UNCHANGED handoffVars

(* approveRun: unexpired, bound to what the gates passed, and signed. *)
Grants(row, e, sig) == ~Expired(e) /\ Bindable(row) /\ sig = e

(* The approval, its stage and its events in one transaction; or the refusal's event. *)
ApproveRun(r, e, sig) ==
  LET row == runs[r]
  IN  Write(r, IF Grants(row, e, sig)
                 THEN [row EXCEPT !.stages = 4, !.approval = e]
                 ELSE row)

(* Under the lock: binding, payload and signature are still the confirmed ones. *)
Submit(i) ==
  LET r == job[i].run
  IN  /\ pc[i] = "submit"
      /\ IF /\ Bindable(runs[r])
            /\ dir[r].payload = job[i].payload
            /\ dir[r].sig = job[i].sig
           THEN /\ ApproveRun(r, job[i].payload, job[i].sig)
                /\ Return(i, IF Grants(runs[r], job[i].payload, job[i].sig) THEN "approved" ELSE "error")
           ELSE Return(i, "error") /\ UNCHANGED runs
      /\ UNCHANGED <<held, handoffVars>>

HandoffStep(i) ==
  \/ ReadHandoff(i)
  \/ RotateCheck(i) \/ MoveAside(i) \/ MovedIsExpired(i) \/ ArchiveExpired(i)
  \/ RestoreCheck(i) \/ Restore(i)
  \/ Mint(i) \/ WritePayload(i)
  \/ AwaitSignature(i)
  \/ TakeLock(i, "reject", "rejecting") /\ UNCHANGED handoffVars
  \/ RecordReject(i)
  \/ ConfirmSubmit(i)
  \/ TakeLock(i, "submit_lock", "submit") /\ UNCHANGED handoffVars
  \/ Submit(i)
=============================================================================
