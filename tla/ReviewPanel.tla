---------------------------- MODULE ReviewPanel ----------------------------
(***************************************************************************)
(* What happens inside runCodeReviewStage (src/code-review-stage.ts), down *)
(* to its child processes and up to the delivery that reads its record:    *)
(* reviewers run concurrently over one worktree, their reports are kept in *)
(* panel order, a round passes, is remediated or blocks, and a remediation *)
(* is committed and verified before the next panel sees it.  CodeReview    *)
(* models the same stage as steps of a run that may crash; here a commit   *)
(* has content and a reviewer has an outcome.                              *)
(***************************************************************************)
EXTENDS ChildProcess, SequencesExt

CONSTANTS Panel,        \* ids of the seated code reviewers, in panel order
          Author,       \* the implementer, an agent
          Command,      \* the frozen verification command
          MaxRounds,    \* codeReviewMaxRounds
          Paths,        \* files a commit may hold
          Scope,        \* the approved scope, which is what is to be delivered
          MaxContent,   \* bound on the contents of a file; 0 is the base's
          Severities,   \* the frozen vocabulary, in rising order
          Threshold,    \* codeReviewBlockingSeverity
          Answers,      \* sets of reports a reviewer may return
          Leaves        \* [Jobs -> states a job may leave the worktree in]

ASSUME PanelAssumption ==
  /\ Jobs = Range(Panel) \cup {Author, Command} /\ Commands = {Command}
  /\ Panel \in Seq(Agents) /\ IsInjective(Panel)
  /\ Author \in Agents
  /\ MaxRounds \in 1..5
  /\ Scope \subseteq Paths
  /\ Severities \in Seq(Range(Severities)) /\ Threshold \in Range(Severities)

VARIABLES
  at,        \* where the stage is
  round,     \* the round of the loop
  commit,    \* currentCommit: 0 is the initial verified commit
  files,     \* content of each path at the head of the branch
  tree,      \* the worktree against that head
  outcome,   \* what became of each agent's dispatch, in memory
  runs,      \* agent_run rows
  findings,  \* finding_report rows, in the order of their insertion
  rounds,    \* the record's rounds, in memory
  record,    \* result.json, none or one
  gate       \* code_review.gate.pass, none or one

stage == <<at, round, commit, files, tree>>
evidence == <<outcome, runs, findings, rounds, record, gate>>
vars == <<stage, evidence, child>>

Seats == Range(Panel)
Contents == 0..MaxContent
Index(s) == CHOOSE i \in DOMAIN Severities : Severities[i] = s

(* git diff --name-only patchBase..currentCommit *)
Changed(fs) == {p \in Paths : fs[p] # 0}

(* deliveryCoverage over the range: what of the scope is not in it. *)
Missing(changed) == Scope \ changed

Report == [path : Paths, severity : Range(Severities) \cup {"unknown"}]

ASSUME AnswersAreReports ==
  \A a \in Agents : \A answer \in Answers[a] : answer \subseteq Report /\ IsFiniteSet(answer)

Valid(reports) == [is |-> "valid", reports |-> reports]
Failed(why) == [is |-> why, reports |-> {}]
Waiting == Failed("waiting")
Stopped == {"refused", "blocked", "failed", "delivered", "undelivered"}

Init ==
  /\ at = "entry"
  /\ round = 0
  /\ commit = 0
  /\ files \in [Paths -> Contents]
  /\ tree \in {"clean", "ignored"}
  /\ child = [j \in Jobs |-> Idle]
  /\ outcome = [a \in Agents |-> Failed("none")]
  /\ runs = {}
  /\ findings = <<>>
  /\ rounds = <<>>
  /\ record = {}
  /\ gate = {}

Block == at' = "blocked"

(* Nothing to review, or a worktree that is not clean down to its ignored    *)
(* files, refuses before the stage exists; a declared artifact that the      *)
(* range lacks blocks it.                                                    *)
Enter ==
  /\ at = "entry"
  /\ at' = IF tree # "clean" \/ Changed(files) = {} THEN "refused"
           ELSE IF Missing(Changed(files)) # {} THEN "blocked" ELSE "round"
  /\ UNCHANGED <<round, commit, files, tree, evidence, child>>

(* Each dispatch runs to its spawn before the next one starts; one whose     *)
(* executor does not answer the probe fails there.                           *)
Launch(agents) ==
  \E probed \in SUBSET agents :
    /\ \A a \in agents \ probed : "spawn" \in Faults[a]
    /\ outcome' = [a \in Agents |-> IF a \in probed THEN Waiting
                                    ELSE IF a \in agents THEN Failed("dispatch_failed")
                                    ELSE outcome[a]]
    /\ \E new \in [probed -> UNION {Launched(a) : a \in probed}] :
         /\ \A a \in probed : new[a] \in Launched(a)
         /\ child' = [j \in Jobs |-> IF j \in probed THEN new[j] ELSE child[j]]

StartRound ==
  /\ at = "round"
  /\ IF Changed(files) = {}
     THEN Block /\ UNCHANGED <<round, outcome, child>>
     ELSE /\ at' = "panel"
          /\ round' = round + 1
          /\ Launch(Seats)
  /\ UNCHANGED <<commit, files, tree, runs, findings, rounds, record, gate>>

-----------------------------------------------------------------------------
(* A reviewer's answer is refused as a whole: for a report outside the       *)
(* changed paths, or of a severity that is not in the frozen vocabulary.     *)
Judged(reports) ==
  IF \A r \in reports : r.path \in Changed(files) /\ r.severity \in Range(Severities)
  THEN Valid(reports) ELSE Failed("output_invalid")

(* Not the code: the time limit is not looked at. *)
AcceptsLate(c) == InTime([c EXCEPT !.timedOut = FALSE])

Accepts(c) == InTime(c)

(* dispatchOnce after its await: a clean outcome whose envelope parses, as   *)
(* no truncated one does, becomes an agent_run row.  A store that fails      *)
(* rejects the promise, which allSettled turns into a failed dispatch.       *)
Dispatched(a) ==
  /\ a \in Agents
  /\ outcome[a] = Waiting
  /\ child[a].at = "settled"
  /\ child' = [child EXCEPT ![a] = Idle]
  /\ \/ /\ ~Accepts(child[a]) \/ child[a].lost \/ "fails" \in Faults[a]
        /\ outcome' = [outcome EXCEPT ![a] = Failed("dispatch_failed")]
        /\ UNCHANGED runs
     \/ /\ Accepts(child[a]) /\ ~child[a].lost
        /\ runs' = runs \cup {[round |-> round, agent |-> a]}
        /\ \/ /\ "disk" \in Faults[a]
              /\ outcome' = [outcome EXCEPT ![a] = Failed("dispatch_failed")]
           \/ "fails" \in Faults[a] /\ outcome' = [outcome EXCEPT ![a] = Failed("output_invalid")]
           \/ \E answer \in Answers[a] : outcome' = [outcome EXCEPT ![a] = Judged(answer)]
  /\ UNCHANGED <<stage, findings, rounds, record, gate>>

-----------------------------------------------------------------------------
(* The rows of the valid outcomes, seat by seat. *)
Rows(seats, got) ==
  FlattenSeq([i \in DOMAIN seats |->
    LET s == seats[i]
    IN SetToSeq({[round |-> round, seat |-> s, path |-> r.path, severity |-> r.severity] :
                  r \in got[s].reports})])

(* Not the code: the first failure loses what the others reported. *)
RowsUnlessFailed(seats, got) ==
  IF \E s \in Range(seats) : got[s].is # "valid" THEN <<>> ELSE Rows(seats, got)

RecordedRows(seats, got) == Rows(seats, got)

InRound(rows, n) == {r \in Range(rows) : r.round = n}
Located(rows) == {r.path : r \in rows}

(* Not the code: only what is above the threshold blocks. *)
BlockingAbove(rows) ==
  {p \in Located(rows) :
     Max({Index(r.severity) : r \in {x \in rows : x.path = p}}) > Index(Threshold)}

(* codeReviewGate: a finding blocks by the highest severity reported of it. *)
Blocking(rows) ==
  {p \in Located(rows) :
     Max({Index(r.severity) : r \in {x \in rows : x.path = p}}) >= Index(Threshold)}

(* decideCodeReviewRound: a finding of any severity is remediated while      *)
(* rounds remain; the threshold only decides the last one.                   *)
Decision(rows) ==
  IF rows = {} THEN "pass"
  ELSE IF round < MaxRounds THEN "remediate"
  ELSE IF Blocking(rows) = {} THEN "pass" ELSE "block"

RoundRecord(rows, decision) ==
  [round |-> round, commit |-> commit, changed |-> Changed(files),
   findings |-> Cardinality(Located(rows)),
   blocking |-> IF decision = "block" THEN Blocking(rows) ELSE {}, remedy |-> {}]

(* Not the code: the record leaves out the last panel's own round. *)
PassRecordEarly(all) ==
  [initial |-> 0, final |-> commit, rounds |-> Front(all), passed |-> TRUE]

(* writeRecord, then completeStage, then the gate event. *)
PassRecord(all) == [initial |-> 0, final |-> commit, rounds |-> all, passed |-> TRUE]

AllSettled == at = "panel" /\ \A s \in Seats : outcome[s] # Waiting

(* A store that fails between two rows leaves those before it. *)
RecordingFails ==
  /\ AllSettled /\ tree = "clean"
  /\ LET rows == RecordedRows(Panel, outcome)
     IN \E n \in 0..(Len(rows) - 1) : findings' = findings \o SubSeq(rows, 1, n)
  /\ at' = "failed"
  /\ UNCHANGED <<round, commit, files, tree, outcome, runs, rounds, record, gate, child>>

PanelFails ==
  /\ AllSettled
  /\ tree # "clean" \/ \E s \in Seats : outcome[s].is # "valid"
  /\ findings' = IF tree = "clean" THEN findings \o RecordedRows(Panel, outcome) ELSE findings
  /\ Block
  /\ UNCHANGED <<round, commit, files, tree, outcome, runs, rounds, record, gate, child>>

PanelDecides ==
  /\ AllSettled
  /\ tree = "clean" /\ \A s \in Seats : outcome[s].is = "valid"
  /\ findings' = findings \o RecordedRows(Panel, outcome)
  /\ LET rows == InRound(findings', round)
         decision == Decision(rows)
         all == Append(rounds, RoundRecord(rows, decision))
     IN /\ rounds' = all
        /\ \/ /\ decision = "pass"
              /\ at' = "passed"
              /\ record' = {PassRecord(all)}
              /\ gate' = {[round |-> round, commit |-> commit,
                           findings |-> Cardinality(Located(rows))]}
              /\ UNCHANGED <<outcome, child>>
           \/ /\ decision = "block"
              /\ Block /\ UNCHANGED <<record, gate, outcome, child>>
           \/ /\ decision = "remediate"
              /\ at' = "remedy" /\ Launch({Author}) /\ UNCHANGED <<record, gate>>
  /\ UNCHANGED <<round, commit, files, tree, runs>>

-----------------------------------------------------------------------------
(* applyProposedPatches: every path of a patch is in the scope and changes.  *)
Patches == {fs \in [Paths -> Contents] :
              fs # files /\ \A p \in Paths : fs[p] # files[p] => p \in Scope}

RemediationFails ==
  /\ at = "remedy" /\ outcome[Author] # Waiting
  /\ outcome[Author].is # "valid" \/ tree # "clean" \/ "fails" \in Faults[Author]
  /\ Block
  /\ UNCHANGED <<round, commit, files, tree, evidence, child>>

(* The patches are committed on the reviewed commit, and the command that    *)
(* verifies the new one is started in the same worktree.                     *)
Remediate ==
  /\ at = "remedy" /\ outcome[Author].is = "valid" /\ tree = "clean"
  /\ files' \in Patches
  /\ commit' = commit + 1
  /\ rounds' = [rounds EXCEPT ![Len(rounds)].remedy = {[base |-> commit, commit |-> commit + 1]}]
  /\ \E c \in Launched(Command) : child' = [child EXCEPT ![Command] = c]
  /\ at' = "verify"
  /\ UNCHANGED <<round, tree, outcome, runs, findings, record, gate>>

(* verifyCommit: the outcome, then the state the command left, in which      *)
(* ignored files are tolerated.  A rejected evidence file ends the stage.    *)
Verified(c) == ~c.evidenceError /\ InTime(c) /\ tree \in {"clean", "ignored"}

Verify ==
  /\ at = "verify" /\ child[Command].at = "settled"
  /\ at' = IF Verified(child[Command]) THEN "round"
           ELSE IF child[Command].evidenceError THEN "failed" ELSE "blocked"
  /\ child' = [child EXCEPT ![Command] = Idle]
  /\ UNCHANGED <<round, commit, files, tree, evidence>>

(* A running child may write to the worktree or move its head. *)
Disturb(j) ==
  /\ child[j].os = "alive"
  /\ tree = "clean"
  /\ tree' \in Leaves[j]
  /\ UNCHANGED <<at, round, commit, files, evidence, child>>

-----------------------------------------------------------------------------
(* parsePassedCodeReviewRecord: the rounds form a chain from the initial to  *)
(* the final commit, whose last panel remediates and blocks nothing.         *)
ParsePassed(r) ==
  /\ r.passed
  /\ Len(r.rounds) \in 1..MaxRounds
  /\ \A i \in DOMAIN r.rounds :
       LET n == r.rounds[i]
       IN /\ n.round = i /\ n.changed # {}
          /\ n.commit = IF i = 1 THEN r.initial
                        ELSE (CHOOSE m \in r.rounds[i - 1].remedy : TRUE).commit
          /\ IF i = Len(r.rounds) THEN n.remedy = {} /\ n.blocking = {}
             ELSE \E m \in n.remedy : m.base = n.commit
  /\ Last(r.rounds).commit = r.final

(* runDeliveryStage: the record, the gate event that extends it, a head and  *)
(* tracked files as they were reviewed, and the net range.                   *)
Agrees(r, g) ==
  g = [round |-> Len(r.rounds), commit |-> r.final, findings |-> Last(r.rounds).findings]

NetChanged == Changed(files)

Deliver ==
  /\ at = "passed"
  /\ at' = IF ~\E r \in record, g \in gate : ParsePassed(r) /\ Agrees(r, g)
           THEN "refused"
           ELSE IF Missing(NetChanged) = {} THEN "delivered" ELSE "undelivered"
  /\ UNCHANGED <<round, commit, files, tree, evidence, child>>

-----------------------------------------------------------------------------
StageStep ==
  \/ Enter \/ StartRound \/ RecordingFails \/ PanelFails \/ PanelDecides
  \/ RemediationFails \/ Remediate \/ Verify \/ Deliver

Process(j) == (LoopStep(j) \/ ChildStep(j)) /\ UNCHANGED <<stage, evidence>>

Next ==
  \/ StageStep
  \/ \E a \in Agents : Dispatched(a)
  \/ \E j \in Jobs : Process(j) \/ Disturb(j)

(* The event loop runs: what a promise awaits is delivered and its           *)
(* continuation is run.  Nothing is assumed of the children.                 *)
Fairness ==
  /\ WF_vars(StageStep /\ at # "passed")
  /\ \A a \in Agents : WF_vars(Dispatched(a))
  /\ \A j \in Jobs : WF_vars(LoopStep(j) /\ UNCHANGED <<stage, evidence>>)

Spec == Init /\ [][Next]_vars /\ Fairness

-----------------------------------------------------------------------------
(* allSettled, and the recording that follows it: whatever the order in      *)
(* which the reviewers end and whichever of them fail, a panel over an       *)
(* undisturbed worktree keeps every report of every seat that answered, in   *)
(* the order of the seats, each under an agent_run of its round; a disturbed *)
(* worktree keeps none of them; and no row is ever taken back.               *)
NewRows == SubSeq(findings', Len(findings) + 1, Len(findings'))
Seat(r) == CHOOSE i \in DOMAIN Panel : Panel[i] = r.seat

ReportsAreKept ==
  [][/\ IsPrefix(findings, findings')
     /\ \A i, k \in DOMAIN NewRows : i < k => Seat(NewRows[i]) <= Seat(NewRows[k])
     /\ \A r \in Range(NewRows) : [round |-> r.round, agent |-> r.seat] \in runs
     /\ at = "panel" /\ at' \notin {"panel", "failed"} =>
          {[seat |-> r.seat, path |-> r.path, severity |-> r.severity] : r \in Range(NewRows)} =
            IF tree # "clean" THEN {}
            ELSE UNION {{[seat |-> s, path |-> r.path, severity |-> r.severity] :
                           r \in outcome[s].reports} : s \in Seats}]_vars

(* A pass is the verdict of a whole last panel on the commit at the head: no *)
(* seat is missing, none of its reports reaches the threshold, every earlier *)
(* panel that reported anything was answered by a commit of its own, and     *)
(* each panel saw the commit the one before it had led to.                   *)
PassIsDeserved ==
  at \in {"passed", "delivered", "undelivered"} =>
    /\ \A s \in Seats, n \in 1..round : [round |-> n, agent |-> s] \in runs
    /\ \A r \in InRound(findings, round) : Index(r.severity) < Index(Threshold)
    /\ commit = round - 1
    /\ \A n \in 1..round : rounds[n].commit = n - 1
    /\ \A n \in 1..(round - 1) : InRound(findings, n) # {}
    /\ round < MaxRounds => InRound(findings, round) = {}

(* What the stage writes when it passes is what delivery reads: the record   *)
(* parses, and the gate event agrees with it, so that delivery never refuses *)
(* a passed review for its records.                                          *)
PassedRecordParses ==
  at = "passed" => \E r \in record, g \in gate : ParsePassed(r) /\ Agrees(r, g)

(* An outcome that is acted on is true: the process ended by itself, with    *)
(* status 0, before any limit stopped it, and all an agent wrote was read;   *)
(* and no invocation is given up while its process lives unless its kill     *)
(* failed.                                                                   *)
Sound(c) == c.os = "reaped" /\ c.code = "zero" /\ ~c.timedOut /\ ~c.overflow

OutcomesAreTrue ==
  [][/\ \A a \in Agents : outcome[a] = Waiting /\ outcome'[a].is \in {"valid", "output_invalid"}
                          => Sound(child[a]) /\ ~child[a].lost
     /\ at = "verify" /\ at' = "round" => Sound(child[Command])
     /\ \A j \in Jobs : child'[j].at \in {"ending", "settled"} /\ child'[j].os = "alive"
                        => child'[j].killError]_vars

(* The stage comes to an end, whatever its reviewers, its implementer and    *)
(* its command do: hang, flood, leave a descendant that holds their pipe, or *)
(* cannot be killed.                                                         *)
ReviewSettles == <>(at \in Stopped \cup {"passed"})
=============================================================================
