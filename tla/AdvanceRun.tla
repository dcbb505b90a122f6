----------------------------- MODULE AdvanceRun -----------------------------
(* advanceRun of src/src/run-command.ts: what is shown to the operator is     *)
(* read without the lock, what is executed is read again with it.             *)
EXTENDS OperatorState

(* remainingGroups: a group before the approval stands alone, one after it is *)
(* consented to together with all that follow.                                *)
RemainingGroups(action) ==
  IF action \in {"spec", "decision"} THEN <<action>>
  ELSE LET at == CHOOSE k \in DOMAIN Groups : Groups[k] = action
       IN  SubSeq(Groups, at, Len(Groups))

(* boundaryResult: the outcome of a boundary at which nothing can be executed. *)
Stopped(i) ==
  LET row == job[i].seen
  IN  CASE row.status = "completed" /\ Intact(row) -> "completed"
        [] row.status = "blocked" -> "blocked"
        [] ~Eligible(i) -> "refused"
        [] Action(row) = "approval" -> "awaiting_approval"
        [] Action(row) = "decide" -> "awaiting_decision"
        [] OTHER -> "none"

(* The preview: the groups and the fingerprint the operator is asked about. *)
Preview(i) ==
  /\ pc[i] = "preview"
  /\ IF Stopped(i) # "none"
       THEN Return(i, Stopped(i))
       ELSE /\ job' = [job EXCEPT ![i].rest = RemainingGroups(Action(job[i].seen)),
                 ![i].preview = {[version |-> job[i].seen.version, groups |-> RemainingGroups(Action(job[i].seen))]}]
            /\ Goto(i, "consent")
            /\ UNCHANGED lock
  /\ UNCHANGED <<runs, held>>

(* The operator says yes, or the invocation ends without any work. *)
Consent(i) ==
  /\ pc[i] = "consent"
  /\ \/ Goto(i, "lock") /\ UNCHANGED <<lock, job>>
     \/ Return(i, "consent_required")
  /\ UNCHANGED <<runs, held>>

(* Not the code: only the group is compared, not the fingerprint. *)
SameGroup(i) == Action(job[i].seen) = Head(job[i].rest)

(* Under the lock: refused unless the fingerprint and the group are those of the preview. *)
SamePreview(i) ==
  /\ \E p \in job[i].preview : p.version = job[i].seen.version
  /\ Action(job[i].seen) = Head(job[i].rest)

Recheck(i) ==
  /\ pc[i] = "recheck"
  /\ IF SamePreview(i) THEN Goto(i, "loop") /\ UNCHANGED <<lock, job>>
                       ELSE Return(i, "observation_changed")
  /\ UNCHANGED <<runs, held>>

(* The loop's head: stop at a boundary, or go on with the next consented group. *)
NextGroup(i) ==
  /\ pc[i] = "loop"
  /\ CASE Stopped(i) # "none" -> Return(i, Stopped(i))
       [] Stopped(i) = "none" /\ (job[i].rest = <<>> \/ Action(job[i].seen) # Head(job[i].rest)) ->
            Return(i, "observation_changed")
       [] OTHER -> Goto(i, "group") /\ UNCHANGED <<lock, job>>
  /\ UNCHANGED <<runs, held>>

(* The group writes its first row, or refuses before it: from here on the chain is partial. *)
StartGroup(i) ==
  /\ pc[i] = "group"
  /\ \/ /\ Write(job[i].run, [runs[job[i].run] EXCEPT !.intact = FALSE])
        /\ Goto(i, "running")
        /\ UNCHANGED <<job, lock>>
     \/ /\ Return(i, "failed")
        /\ UNCHANGED runs
  /\ UNCHANGED held

Added(group) == CASE group = "spec" -> {2, 3} [] group = "plan" -> {2} [] OTHER -> {1}

(* What a group has just written is as its rows say. *)
Produced(group) ==
  CASE group \in {"spec", "decision"} -> {"spec"}
    [] group = "implementation" -> {"records", "worktree"}
    [] OTHER -> {"records"}

(* callGroup returns ok: the group has passed its gate. *)
FinishGroup(i) ==
  LET r == job[i].run
      group == Head(job[i].rest)
  IN  /\ pc[i] = "running"
      /\ \E n \in Added(group), q \in SUBSET Questions :
           /\ (group = "spec" /\ n = 2) <=> q # {}
           /\ Write(r, [runs[r] EXCEPT !.stages = @ + n, !.intact = TRUE, !.open = q,
                          !.status = IF group = "delivery_check" THEN "completed" ELSE @])
      /\ held' = held \cup Produced(group)
      /\ Goto(i, "observe_after")
      /\ UNCHANGED <<lock, job>>

(* callGroup returns a reason or throws: the run is blocked, or not even that. *)
FailGroup(i) ==
  /\ pc[i] = "running"
  /\ \/ Write(job[i].run, [runs[job[i].run] EXCEPT !.status = "blocked"])
     \/ UNCHANGED runs
  /\ Return(i, "failed")
  /\ UNCHANGED held

(* readRunSnapshot again, over the boundary the group left. *)
ObserveAfter(i) ==
  /\ pc[i] = "observe_after"
  /\ job' = [job EXCEPT ![i].before = {job[i].seen}, ![i].seen = runs[job[i].run]]
  /\ Goto(i, "after")
  /\ UNCHANGED rowVars

(* expectedBoundary: the group's own stages were added, nothing else, and they hold. *)
ExpectedBoundary(i) ==
  LET row == job[i].seen
      group == Head(job[i].rest)
      next == CASE group = "spec" -> {"approval", "decide"}
                [] group = "decision" -> {"approval"}
                [] group = "delivery_check" -> {"none"}
                [] OTHER -> {job[i].rest[2]}
  IN  /\ \E b \in job[i].before : /\ row.version # b.version
                                  /\ row.stages - b.stages \in Added(group)
      /\ Intact(row)
      /\ Action(row) \in next
      /\ SpecHolds(row) /\ RecordsHold(row) /\ WorktreeHolds(row)
      /\ row.version = runs[job[i].run].version

AfterGroup(i) ==
  /\ pc[i] = "after"
  /\ IF ExpectedBoundary(i)
       THEN /\ job' = [job EXCEPT ![i].rest = Tail(@), ![i].before = {}]
            /\ Goto(i, "loop")
            /\ UNCHANGED lock
       ELSE Return(i, "failed")
  /\ UNCHANGED <<runs, held>>

AdvanceStep(i) ==
  \/ ObserveRows(i, "advance", "preview")
  \/ Preview(i)
  \/ Consent(i)
  \/ TakeLock(i, "lock", "reobserve")
  \/ ObserveRows(i, "reobserve", "recheck")
  \/ Recheck(i)
  \/ NextGroup(i)
  \/ StartGroup(i)
  \/ FinishGroup(i)
  \/ FailGroup(i)
  \/ ObserveAfter(i)
  \/ AfterGroup(i)
=============================================================================
