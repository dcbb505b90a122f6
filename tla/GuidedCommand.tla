---------------------------- MODULE GuidedCommand ----------------------------
(* The commands that start, continue and answer for a run: the guided session *)
(* (src/src/guided-command.ts) from the selection of its run to its end, with *)
(* the intake of a new one (src/src/run-intake.ts); bw run and bw new-run; and *)
(* the requests of the dashboard (src/src/dashboard-server.ts, dashboard-approval.ts,      *)
(* dashboard-decision.ts).  All of them are for one run identity.             *)
EXTENDS ApprovalHandoff

CONSTANT Scenes  \* bound: the rows a behaviour starts from

VARIABLE byHand  \* history: the rows that bw new-run created

Row == [status : {"absent", "in_progress", "blocked", "completed"}, frozen : BOOLEAN,
        stages : 0 .. 10, intact : BOOLEAN, open : SUBSET Questions, approval : Times,
        version : Nat]

(* A behaviour starts from rows that earlier commands can have left: of those *)
(* that sessions created one is open at most, bw new-run may have left any     *)
(* number, and only a row that has a profile has stages.                       *)
ASSUME ScenesAreLeft ==
  \A s \in Scenes :
    /\ s.rows \in [RunIds -> Row]
    /\ s.now \in 0 .. MaxClock /\ s.payload \in Times
    /\ Cardinality({r \in RunIds : s.rows[r].status = "in_progress"} \ s.byHand) <= 1
    /\ \A r \in RunIds :
         IF s.rows[r].frozen THEN s.rows[r].status # "absent"
                             ELSE s.rows[r].stages = 0 /\ s.rows[r].intact

vars == <<opVars, handoffVars, byHand>>

(* A scene: the rows, who acts, the time, and a payload left in the handoff. *)
Init ==
  \E s \in Scenes :
    /\ runs = s.rows
    /\ lock = {}
    /\ held = {"spec", "records", "worktree"}
    /\ pc = [i \in Invocations |-> IF i \in s.who THEN "idle" ELSE "ended"]
    /\ job = [i \in Invocations |-> Idle]
    /\ HandoffInit(s.now, s.payload)
    /\ byHand = s.byHand

(* The first steps of an invocation touch no file of the handoff. *)
Resume(i, r, to) ==
  /\ job' = [job EXCEPT ![i].run = r]
  /\ Goto(i, to)
  /\ UNCHANGED <<runs, lock, held>>

Rows(status) == {r \in RunIds : runs[r].status \in status}
Nonterminal == Rows({"in_progress"})
Terminal == Rows({"blocked", "completed"})

(* Several runs of the identity, of which none is the one to go on with. *)
Several == Cardinality(Nonterminal) > 1 \/ (Nonterminal = {} /\ Cardinality(Terminal) > 1)

(* One open run is resumed, one closed run is reported, several are refused.  *)
SelectRun(i) ==
  \/ \E r \in Nonterminal : Nonterminal = {r} /\ Resume(i, r, "snapshot")
  \/ /\ Nonterminal = {}
     /\ \E r \in Terminal : Terminal = {r} /\ Resume(i, r, "snapshot")
  \/ Several /\ Throw(i)

(* Read without the lock; with no run at all, one is created. *)
StartSession(i) ==
  /\ i \in Sessions
  /\ pc[i] = "idle"
  /\ \/ SelectRun(i)
     \/ Nonterminal \cup Terminal = {} /\ Stays(i, "create_lock")
  /\ UNCHANGED handoffVars

(* insertRun. *)
NewRun(i) ==
  /\ \E r \in Rows({"absent"}) :
       /\ \A q \in Rows({"absent"}) : r <= q
       /\ runs' = [runs EXCEPT ![r] = [Absent EXCEPT !.status = "in_progress"]]
       /\ job' = [job EXCEPT ![i].run = r]
  /\ Goto(i, "created")
  /\ UNCHANGED <<lock, held>>

(* Not the code: the selection is not repeated under the lock. *)
CreateUnchecked(i) ==
  /\ pc[i] = "create"
  /\ NewRun(i)
  /\ UNCHANGED handoffVars

(* The selection again, under the lock, and only then a new row: or none, if  *)
(* the repository or the approver's key is refused.                           *)
Create(i) ==
  /\ pc[i] = "create"
  /\ \/ Nonterminal \cup Terminal = {} /\ (NewRun(i) \/ Throw(i))
     \/ Several /\ Throw(i)
     \/ \E r \in RunIds :
          /\ \/ Nonterminal = {r}
             \/ Nonterminal = {} /\ Terminal = {r}
          /\ job' = [job EXCEPT ![i].run = r]
          /\ Goto(i, "snapshot")
          /\ lock' = {}
          /\ UNCHANGED <<runs, held>>
  /\ UNCHANGED handoffVars

(* The run.create event; a throw here is before createRunIntake's catch. *)
RecordCreate(i) ==
  /\ pc[i] = "created"
  /\ \/ Write(job[i].run, runs[job[i].run]) /\ Goto(i, "freeze") /\ UNCHANGED <<lock, held, job>>
     \/ Throw(i)
  /\ UNCHANGED handoffVars

(* freezeProfile and setProfileRef, then the event. *)
Freeze(i) ==
  LET r == job[i].run
  IN  /\ pc[i] = "freeze"
      /\ \/ /\ Write(r, [runs[r] EXCEPT !.frozen = TRUE])
            /\ Goto(i, "frozen")
         \/ Goto(i, "freeze_failed") /\ UNCHANGED runs
      /\ UNCHANGED <<lock, held, job, handoffVars>>

(* A session goes on with its run, bw new-run prints its number. *)
RecordFreeze(i) ==
  LET r == job[i].run
  IN  /\ pc[i] = "frozen"
      /\ \/ /\ Write(r, runs[r])
            /\ IF i \in Sessions THEN Goto(i, "snapshot") /\ lock' = {} /\ UNCHANGED job
                                 ELSE Return(i, "done")
         \/ Goto(i, "freeze_failed") /\ UNCHANGED <<runs, lock, job>>
      /\ UNCHANGED <<held, handoffVars>>

(* The catch block: its event, then blocked; the event can throw too. *)
FailFreeze(i) ==
  LET r == job[i].run
  IN  /\ pc[i] = "freeze_failed"
      /\ \/ Write(r, [runs[r] EXCEPT !.status = "blocked"])
         \/ UNCHANGED runs
      /\ Return(i, "error")
      /\ UNCHANGED <<held, handoffVars>>

(* The first snapshot of a closed run ends the session. *)
ReportClosed(i) ==
  /\ pc[i] = "dispatch"
  /\ job[i].seen.status # "in_progress" /\ job[i].handed = {}
  /\ Return(i, job[i].seen.status)
  /\ UNCHANGED <<runs, held, handoffVars>>

(* The human boundaries of the opening, each at most once and in order. *)
Boundary(i) == {Action(job[i].seen)} \cap ({"decide", "approval"} \ job[i].handed)

HandOver(i) ==
  /\ pc[i] = "dispatch"
  /\ job[i].seen.status = "in_progress"
  /\ \E b \in Boundary(i) :
       /\ job' = [job EXCEPT ![i] = [Idle EXCEPT !.run = job[i].run, !.then = "snapshot",
                    !.handed = IF b = "decide" THEN {b} ELSE {"decide", "approval"}]]
       /\ Goto(i, IF b = "decide" THEN "ask" ELSE "handoff")
  /\ UNCHANGED <<runs, lock, held, handoffVars>>

(* advanceRun, after which each boundary may be handed over once more. *)
EnterGroups(i) ==
  /\ pc[i] = "dispatch"
  /\ job[i].seen.status = "in_progress" \/ job[i].handed # {}
  /\ Boundary(i) = {}
  /\ job' = [job EXCEPT ![i] = [Idle EXCEPT !.run = job[i].run, !.then = "advance"]]
  /\ Goto(i, "advance")
  /\ UNCHANGED <<runs, lock, held, handoffVars>>

(* decisionHandoff: nothing is asked on a boundary that cannot continue. *)
Ask(i) ==
  /\ pc[i] = "ask_check"
  /\ IF Eligible(i)
       THEN /\ job' = [job EXCEPT ![i].todo = job[i].seen.open, ![i].seen = Absent]
            /\ Goto(i, "question")
            /\ UNCHANGED <<runs, lock, held>>
       ELSE Throw(i)
  /\ UNCHANGED handoffVars

(* The operator decides the next question, or leaves the run paused. *)
Decide(i) ==
  /\ pc[i] = "question"
  /\ \/ job[i].todo # {} /\ Stays(i, "answer_lock")
     \/ job[i].todo # {} /\ Return(i, "paused") /\ UNCHANGED <<runs, held>>
     \/ job[i].todo = {} /\ Return(i, "answered") /\ UNCHANGED <<runs, held>>
  /\ UNCHANGED handoffVars

(* answerQuestion: only an open question of a review whose fold has not begun. *)
Accepts(row, q) ==
  /\ row.status = "in_progress"
  /\ row.stages = 2 /\ row.intact
  /\ q \in row.open

AnswerQuestion(r, q) ==
  LET row == runs[r]
  IN  Write(r, IF Accepts(row, q) THEN [row EXCEPT !.open = @ \ {q}] ELSE row)

Answer(i) ==
  LET q == Min(job[i].todo)
      r == job[i].run
  IN  /\ pc[i] = "answer"
      /\ AnswerQuestion(r, q)
      /\ IF Accepts(runs[r], q)
           THEN /\ job' = [job EXCEPT ![i].todo = @ \ {q}]
                /\ Goto(i, "question")
                /\ lock' = {}
           ELSE Return(i, "error")
      /\ UNCHANGED <<held, handoffVars>>

(* A handoff is over, or advanceRun stopped at a boundary not yet handed over. *)
Continue(i) ==
  LET out == job[i].outcome
  IN  /\ i \in Sessions
      /\ pc[i] = "returned"
      /\ \/ out \in {"answered", "approved"} /\ Goto(i, job[i].then) /\ UNCHANGED job
         \/ /\ out = "awaiting_decision" /\ job[i].handed = {}
            /\ job' = [job EXCEPT ![i].handed = {"decide"}]
            /\ Goto(i, "ask")
         \/ /\ out = "awaiting_approval" /\ "approval" \notin job[i].handed
            /\ job' = [job EXCEPT ![i].handed = {"decide", "approval"}]
            /\ Goto(i, "handoff")
      /\ UNCHANGED <<runs, lock, held, handoffVars>>

SessionStep(i) ==
  \/ StartSession(i)
  \/ TakeLock(i, "create_lock", "create") /\ UNCHANGED handoffVars
  \/ Create(i) \/ RecordCreate(i) \/ Freeze(i) \/ RecordFreeze(i) \/ FailFreeze(i)
  \/ ObserveRows(i, "snapshot", "dispatch") /\ UNCHANGED handoffVars
  \/ ReportClosed(i) \/ HandOver(i) \/ EnterGroups(i)
  \/ ObserveRows(i, "ask", "ask_check") /\ UNCHANGED handoffVars
  \/ Ask(i) \/ Decide(i) \/ Answer(i)
  \/ TakeLock(i, "answer_lock", "answer") /\ UNCHANGED handoffVars
  \/ HandoffStep(i)
  \/ Continue(i)

(* bw run --run N. *)
StartRunner(i) ==
  /\ i \in Runners
  /\ pc[i] = "idle"
  /\ \E r \in RunIds : runs[r].status # "absent" /\ Resume(i, r, "advance")
  /\ UNCHANGED handoffVars

(* bw new-run, under the lock: no other run of the identity is looked for. *)
Intake(i) ==
  /\ pc[i] = "intake"
  /\ \/ NewRun(i) /\ byHand' = byHand \cup {job'[i].run}
     \/ Throw(i) /\ UNCHANGED byHand
  /\ UNCHANGED handoffVars

(* readApprovalRequest and the approver: a payload of the page is signed. *)
RequestApproval(i) ==
  /\ i \in Requests
  /\ pc[i] = "idle"
  /\ \E r \in RunIds :
       /\ Bindable(runs[r])
       /\ signed' = signed \cup {now + Life}
       /\ job' = [job EXCEPT ![i].run = r, ![i].payload = now + Life, ![i].sig = now + Life]
  /\ Goto(i, "post_approval")
  /\ UNCHANGED <<runs, lock, held, now, dirVars>>

(* A submitted expiry and signature, of that page or of anything signed. *)
PostApproval(i) ==
  /\ i \in Requests
  /\ pc[i] = "idle"
  /\ \E r \in RunIds, s \in signed :
       /\ runs[r].status # "absent"
       /\ \E e \in {s, now + Life} :
            job' = [job EXCEPT ![i].run = r, ![i].payload = e, ![i].sig = s]
  /\ Goto(i, "post_approval")
  /\ UNCHANGED <<runs, lock, held, handoffVars>>

PostDecision(i) ==
  /\ i \in Requests
  /\ pc[i] = "idle"
  /\ \E r \in RunIds, q \in Questions :
       /\ runs[r].status # "absent"
       /\ job' = [job EXCEPT ![i].run = r, ![i].todo = {q}]
  /\ Goto(i, "post_decision")
  /\ UNCHANGED <<runs, lock, held, handoffVars>>

(* submitApproval: lock, approveRun, release; the answer is 200, 422 or 409. *)
SubmitApproval(i) ==
  /\ pc[i] = "approving"
  /\ ApproveRun(job[i].run, job[i].payload, job[i].sig)
  /\ Return(i, "done")
  /\ UNCHANGED <<held, handoffVars>>

(* submitDecisionAnswer. *)
SubmitDecision(i) ==
  /\ pc[i] = "deciding"
  /\ \E q \in job[i].todo : AnswerQuestion(job[i].run, q)
  /\ Return(i, "done")
  /\ UNCHANGED <<held, handoffVars>>

RequestStep(i) ==
  \/ RequestApproval(i) \/ PostApproval(i) \/ PostDecision(i)
  \/ TakeLock(i, "post_approval", "approving") /\ UNCHANGED handoffVars
  \/ TakeLock(i, "post_decision", "deciding") /\ UNCHANGED handoffVars
  \/ SubmitApproval(i) \/ SubmitDecision(i)

Step ==
  \/ \E i \in Invocations :
       \/ SessionStep(i) \/ StartRunner(i) \/ RequestStep(i)
       \/ i \in Runners /\ TakeLock(i, "idle", "intake") /\ UNCHANGED handoffVars
       \/ AdvanceStep(i) /\ UNCHANGED handoffVars
       \/ Die(i) /\ UNCHANGED handoffVars
  \/ EditFile /\ UNCHANGED handoffVars
  \/ Sign \/ Discard
  \/ Tick

Next == (Step /\ UNCHANGED byHand) \/ \E i \in Invocations : Intake(i)

Spec == Init /\ [][Next]_vars

-----------------------------------------------------------------------------
TypeOK ==
  /\ runs \in [RunIds -> Row]
  /\ lock \subseteq Invocations /\ Cardinality(lock) <= 1
  /\ held \subseteq {"spec", "records", "worktree"}
  /\ \A i \in Invocations :
       /\ job[i].run \in {0} \cup RunIds
       /\ lock = {i} => pc[i] \notin {"idle", "returned", "ended"}
  /\ now \in 0 .. MaxClock
  /\ signed \subseteq Times

(* While a group is at work, it is the next of the range the operator was     *)
(* shown, and since the preview nobody but this invocation has written to the *)
(* run: not its rows, not its audit events.                                   *)
ConsentedWorkOnly ==
  \A i \in Invocations : pc[i] = "running" =>
    \E p \in job[i].preview :
      LET done == Len(p.groups) - Len(job[i].rest)
      IN  /\ job[i].rest = SubSeq(p.groups, done + 1, Len(p.groups))
          /\ runs[job[i].run].version = p.version + 2 * done + 1

(* However many sessions find no run and create one, one identity has one: not *)
(* counting the rows of bw new-run, which looks for no other.                  *)
OneOpenRun == Cardinality(Nonterminal \ byHand) <= 1

(* A run whose profile was never frozen does no work, whoever was killed or   *)
(* failed between its row and its profile, and whoever resumes it.            *)
UnfrozenRunIsInert ==
  \A r \in RunIds : ~runs[r].frozen => runs[r].stages = 0 /\ runs[r].intact

(* The rotation "validates the exact moved payload, and only then promotes     *)
(* that directory to its deterministic expired archive. A failed validation    *)
(* restores the provisional directory when safe and never labels it archived"  *)
(* (docs/features/guided-project-bootstrap/2026-09-13-code-review.md:110): so  *)
(* every archive holds the payload it is named after.                          *)
ArchivesAreExact ==
  \A r \in RunIds, e \in Times : archive[r][e].there => archive[r][e].payload = e

(* It does unless a session whose own rename failed put back the directory     *)
(* that another had already validated: however many sessions rotate, restore,  *)
(* mint, archive and are killed, and whatever is signed or cleared meanwhile.  *)
ArchivesAreExactUnlessPutBack ==
  \A r \in RunIds, e \in Times :
    archive[r][e].there => archive[r][e].payload = e \/ <<r, e>> \in putBack

(* No payload that was shown to an approver is overwritten or lost, so a      *)
(* signature made over it can always be traced to its bytes.                  *)
PayloadsAreKept ==
  \A w \in written :
    w[2] \in {d.payload : d \in {dir[w[1]]} \cup {f[e] : f \in {rotating[w[1]], archive[w[1]]}, e \in Times}}
=============================================================================
