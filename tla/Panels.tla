------------------------------- MODULE Panels -------------------------------
(***************************************************************************)
(* Who reviews: the profile a run freezes (src/profile.ts, src/policy.ts), *)
(* the panel its authors ask for (src/self-critique.ts), and the panels    *)
(* that src/select.ts seats from the frozen agents for spec and plan       *)
(* reviews (src/spec-stage.ts, src/plan-stage.ts) and for code review      *)
(* (src/code-review-stage.ts).  A profile may have been frozen by an       *)
(* earlier build, whose checks were not these.                             *)
(***************************************************************************)
EXTENDS Integers, FiniteSetsExt, SequencesExt

CONSTANTS Registries,  \* agents of the installation, sequences of records
          Policies,    \* what buildPolicy of this build may return
          Flags,       \* model and effort flags of new-run
          Inherited,   \* profiles that an earlier build froze
          Requests,    \* panel requests of an author
          Executor,    \* CLAUDE_CODE, with its id and capabilities
          Implementer, \* the id of the agent that writes patches
          Seeded,      \* names with default settings
          Reconciler,  \* the setting that is not an agent's
          None         \* no specialty

(* A list of agents; ids are compared as strings are. *)
IsListing(agents) ==
  agents \in Seq(Range(agents)) /\ \A a \in Range(agents) : a.id \in Int

(* AGENTS: every id is registered once, and one agent is the implementer. *)
ASSUME AgentsAreRegistered ==
  \A r \in Registries :
    /\ IsListing(r)
    /\ \A i, k \in DOMAIN r : r[i].id = r[k].id => i = k
    /\ \E a \in Range(r) : a.id = Implementer /\ a.role = "author"
                          /\ a.executor = Executor.id /\ "patches" \in a.outputs

ASSUME ExecutorReviews == "review" \in Executor.capabilities

(* The author's answer and the frozen files have the shape their validators   *)
(* ask for before anything else: numbers are integers and lists are lists.    *)
IsShaped(p) ==
  /\ p.min \in Int /\ p.max \in Int /\ p.codeSize \in Int
  /\ p.required \in Seq(Range(p.required))

ASSUME PoliciesAreShaped == \A p \in Policies : IsShaped(p)
ASSUME InheritedAreShaped ==
  \A p \in Inherited : IsListing(p.agents) /\ IsShaped(p.policy) /\ ~p.here
ASSUME RequestsAreShaped ==
  \A r \in Requests : r.size \in Int /\ r.specialties \in Seq(Range(r.specialties))

VARIABLES
  at,        \* where the run is
  registry,  \* agents of this installation
  policy,    \* policy of this build
  flags,     \* the operator's flags
  profile,   \* the frozen profile, none or one
  request,   \* the author's validated request, none or one
  panel      \* the seated reviewers

vars == <<at, registry, policy, flags, profile, request, panel>>

SizeFloor == 2
SizeCeiling == 5
RoundsCeiling == 5

-----------------------------------------------------------------------------
(* invalidPolicyReason.  The threshold is looked up in the frozen list. *)
ValidPolicy(p) ==
  /\ Cardinality({i \in DOMAIN p.severities : p.severities[i] = p.threshold}) = 1
  /\ p.min >= SizeFloor /\ p.max <= SizeCeiling /\ p.min <= p.max
  /\ IsInjective(p.required) /\ Len(p.required) <= p.max
  /\ p.codeSize \in SizeFloor..SizeCeiling
  /\ p.rounds \in 1..RoundsCeiling

(* buildPolicy's constants are a policy that this build honours. *)
ASSUME PoliciesAreValid == \A p \in Policies : ValidPolicy(p)

Ids(agents) == {a.id : a \in agents}
Lenses(agents) == {a.specialty : a \in agents} \ {None}

(* A reviewer of documents, and one of code. *)
Reviews(a, output, executor) ==
  a.role = "reviewer" /\ output \in a.outputs /\ a.executor = executor

Eligible(agents, output, executor) == {a \in Range(agents) : Reviews(a, output, executor)}

(* No id occurs twice among the entries of the list that may be seated. *)
DistinctIds(agents, output, executor) ==
  \A i, k \in DOMAIN agents :
    /\ Reviews(agents[i], output, executor) /\ Reviews(agents[k], output, executor)
    /\ agents[i].id = agents[k].id
    => i = k

(* In the order of the ids, which is a total one wherever it is asked for. *)
Before(agents, a) == {b \in agents : b.id < a.id}
ById(agents) ==
  [n \in 1..Cardinality(agents) |->
     CHOOSE a \in agents : Cardinality(Before(agents, a)) = n - 1]

(* Not the code: as many reviewers as seats, whatever their lenses. *)
StaffedByHeads(agents, size, required, requested, executor) ==
  LET reviewers == Eligible(agents, "findings", executor)
  IN /\ IsInjective(required) /\ IsInjective(requested)
     /\ Cardinality(Range(required) \cup Range(requested)) <= size
     /\ DistinctIds(agents, "findings", executor)
     /\ Range(required) \cup Range(requested) \subseteq Lenses(reviewers)
     /\ Cardinality(reviewers) >= size

(* staffingShortfall is null.  Lenses are counted, not agents. *)
Staffed(agents, size, required, requested, executor) ==
  LET reviewers == Eligible(agents, "findings", executor)
  IN /\ IsInjective(required) /\ IsInjective(requested)
     /\ Cardinality(Range(required) \cup Range(requested)) <= size
     /\ DistinctIds(agents, "findings", executor)
     /\ Range(required) \cup Range(requested) \subseteq Lenses(reviewers)
     /\ Cardinality(Lenses(reviewers)) >= size

(* codeReviewStaffingShortfall is null. *)
CodeStaffed(agents, size, executor) ==
  LET reviewers == Eligible(agents, "code-findings", executor)
  IN /\ size \in SizeFloor..SizeCeiling
     /\ \A a \in Range(agents) : "code-findings" \in a.outputs <=> a.instructed
     /\ DistinctIds(agents, "code-findings", executor)
     /\ \A a \in reviewers : a.specialty # None
     /\ \A a, b \in reviewers : a.specialty = b.specialty => a = b
     /\ Cardinality(reviewers) >= size

-----------------------------------------------------------------------------
(* selectReviewers: a seat goes to an agent with a lens nobody has yet, while *)
(* there is a seat.                                                           *)
Fits(seats, a, size) ==
  /\ Len(seats) < size /\ a.specialty # None
  /\ \A s \in Range(seats) : s.id # a.id /\ s.specialty # a.specialty

(* The first in the order of the frozen agents, and the first by rank: those  *)
(* without a lens come last, and are never seated.                            *)
First(agents, some) == agents[Min({i \in DOMAIN agents : agents[i] \in some})]
Highest(some) == CHOOSE a \in some : \A b \in some : a.id <= b.id

(* The required lenses in configured order. *)
SeatRequired(agents, pool, size, required) ==
  LET seats[n \in 0..Len(required)] ==
        IF n = 0 THEN <<>>
        ELSE LET fit == {a \in pool : a.specialty = required[n] /\ Fits(seats[n - 1], a, size)}
             IN  IF fit = {} THEN seats[n - 1] ELSE Append(seats[n - 1], First(agents, fit))
  IN  seats[Len(required)]

(* A walk through a pool by rank: whom it passes over never fits again. *)
SeatRanked(seated, pool, size) ==
  LET seats[n \in 0..size] ==
        IF n = 0 THEN seated
        ELSE LET fit == {a \in pool : Fits(seats[n - 1], a, size)}
             IN  IF fit = {} THEN seats[n - 1] ELSE Append(seats[n - 1], Highest(fit))
  IN  seats[size]

Candidates(agents) ==
  {a \in Range(agents) : a.executor = Executor.id /\ a.role = "reviewer" /\ "findings" \in a.outputs}

Asked(pool, requested) == {a \in pool : a.specialty \in Range(requested)}

(* Not the code: the requested lenses are seated in the author's own order. *)
SelectAsListed(agents, size, required, requested) ==
  LET pool == Candidates(agents)
  IN  SeatRanked(SeatRequired(agents, pool, size, required \o requested), pool, size)

(* Required lenses, then the requested ones and then any other by rank. *)
SelectReviewers(agents, size, required, requested) ==
  LET pool == Candidates(agents)
      first == SeatRequired(agents, pool, size, required)
      second == SeatRanked(first, Asked(pool, requested), size)
  IN  SeatRanked(second, pool, size)

(* codeReviewPanel: the eligible in id order, cut to the frozen size. *)
CodePanel(agents, size, executor) ==
  LET ranked == ById(Eligible(agents, "code-findings", executor))
  IN SubSeq(ranked, 1, Min({size, Len(ranked)}))

-----------------------------------------------------------------------------
(* resolveDispatchSettings: a flag names a setting and a valid value, and    *)
(* every setting has a default.                                              *)
Names(agents) == Ids(Range(agents)) \cup {Reconciler}
Resolvable(agents, f) == f.names \subseteq Names(agents) /\ f.valid /\ Names(agents) \subseteq Seeded

Frozen(agents, p) ==
  [agents |-> ById(Range(agents)), policy |-> p, settings |-> Names(agents), executor |-> Executor,
   here |-> TRUE]

(* A run of this installation, or one that was frozen before an upgrade. *)
Init ==
  /\ registry \in Registries
  /\ policy \in Policies
  /\ flags \in Flags
  /\ \/ at = "created" /\ profile = {}
     \/ at = "frozen" /\ \E p \in Inherited : profile = {p}
  /\ request = {}
  /\ panel = <<>>

Refuse(why) == at' = why /\ UNCHANGED <<registry, policy, flags, profile, request, panel>>

(* Not the code: the panel is staffed for the least, not for the most. *)
StaffsTheLeast ==
  /\ Staffed(registry, policy.min, policy.required, <<>>, Executor.id)
  /\ CodeStaffed(registry, policy.codeSize, Executor.id)

StaffsAnyPanel ==
  /\ Staffed(registry, policy.max, policy.required, <<>>, Executor.id)
  /\ CodeStaffed(registry, policy.codeSize, Executor.id)

(* freezeProfile: what the installation cannot staff is refused before       *)
(* anything is written.                                                      *)
Freeze ==
  /\ at = "created"
  /\ IF StaffsAnyPanel /\ Resolvable(registry, flags)
     THEN /\ profile' = {Frozen(registry, policy)}
          /\ at' = "frozen"
          /\ UNCHANGED <<registry, policy, flags, request, panel>>
     ELSE Refuse("unfrozen")

(* invalidProfileReason, and requireFrozenBinding of a review stage. *)
Honoured(p) ==
  /\ p.agents # <<>>
  /\ Names(p.agents) \subseteq p.settings
  /\ ValidPolicy(p.policy)
  /\ p.executor = Executor /\ "review" \in p.executor.capabilities

Load ==
  /\ at = "frozen"
  /\ \E p \in profile : IF Honoured(p) THEN Refuse("loaded") ELSE Refuse("unloaded")

(* validateSelfCritique, which knows no profile. *)
WellFormed(r) == r.size >= 1 /\ IsInjective(r.specialties) /\ Len(r.specialties) <= r.size

(* validatePanelRequest, against the frozen policy. *)
Permitted(r, p) ==
  /\ r.size \in p.min..p.max
  /\ IsInjective(r.specialties)
  /\ Cardinality(Range(p.required) \cup Range(r.specialties)) <= r.size

Ask ==
  /\ at = "loaded"
  /\ \E r \in Requests, p \in profile :
       IF WellFormed(r) /\ Permitted(r, p.policy)
       THEN /\ at' = "asked"
            /\ request' = {r}
            /\ UNCHANGED <<registry, policy, flags, profile, panel>>
       ELSE Refuse("invalid")

(* resolveSettings, for every seat before the first one is dispatched. *)
Set(p, agents) == Ids(Range(agents)) \subseteq p.settings

Take(agents, seated) ==
  /\ at' = seated
  /\ panel' = agents
  /\ UNCHANGED <<registry, policy, flags, profile, request>>

(* The panel of a spec or a plan review, from the agents of the run's executor. *)
SeatDocumentPanel ==
  /\ at = "asked"
  /\ \E r \in request, p \in profile :
       LET picked == SelectReviewers(p.agents, r.size, p.policy.required, r.specialties)
       IN IF ~Staffed(p.agents, r.size, p.policy.required, r.specialties, Executor.id)
          THEN Refuse("unstaffable")
          ELSE IF Len(picked) < r.size THEN Refuse("incomplete")
          ELSE IF ~Set(p, picked) THEN Refuse("unset")
          ELSE Take(picked, "seated")

(* The panel of the code review, which nobody asks for, and the implementer  *)
(* it may call back.                                                         *)
Implements(p) ==
  \E a \in Range(p.agents) :
    a.id = Implementer /\ a.role = "author" /\ a.executor = Executor.id /\ "patches" \in a.outputs

SeatCodePanel ==
  /\ at \in {"loaded", "seated"}
  /\ \E p \in profile :
       LET picked == CodePanel(p.agents, p.policy.codeSize, Executor.id)
       IN IF ~CodeStaffed(p.agents, p.policy.codeSize, Executor.id) THEN Refuse("code unstaffable")
          ELSE IF ~Set(p, picked) \/ ~Implements(p) THEN Refuse("unset")
          ELSE Take(picked, "code seated")

Next == Freeze \/ Load \/ Ask \/ SeatDocumentPanel \/ SeatCodePanel

Spec == Init /\ [][Next]_vars

-----------------------------------------------------------------------------
IsLensed(seats, output) ==
  /\ \A i, k \in DOMAIN seats :
       i # k => seats[i].id # seats[k].id /\ seats[i].specialty # seats[k].specialty
  /\ \A a \in Range(seats) : Reviews(a, output, Executor.id) /\ a.specialty # None

(* A panel is as large as it was to be and every seat is another agent with  *)
(* another lens.  A document panel has the configured lenses first and in    *)
(* order, every lens the author asked for, and is the same whatever order    *)
(* the author listed them in; a code panel is the same for whoever computes  *)
(* it from the frozen agents, in whatever order they come: by id, with nobody *)
(* left out who comes before one that is seated.                              *)
PanelsAreExact ==
  /\ at = "seated" =>
       \A r \in request, p \in profile :
         /\ Len(panel) = r.size /\ IsLensed(panel, "findings")
         /\ \A i \in DOMAIN p.policy.required : panel[i].specialty = p.policy.required[i]
         /\ Range(r.specialties) \subseteq Lenses(Range(panel))
         /\ panel = SelectReviewers(p.agents, r.size, p.policy.required, Reverse(r.specialties))
  /\ at = "code seated" =>
       \A p \in profile :
         /\ Len(panel) = p.policy.codeSize /\ IsLensed(panel, "code-findings")
         /\ \A a \in Range(panel) : a.instructed
         /\ \A i, k \in DOMAIN panel : i < k => panel[i].id < panel[k].id
         /\ \A a \in Eligible(p.agents, "code-findings", Executor.id) \ Range(panel) :
              \A s \in Range(panel) : s.id < a.id

(* staffingShortfall refuses exactly what cannot be seated: no choice among  *)
(* the frozen reviewers has the size and the lenses that were asked for,     *)
(* unless two of them share an id.  What it lets through is never found      *)
(* incomplete by the selection that follows.                                 *)
Seatings(agents, size, lenses) ==
  {S \in SUBSET Eligible(agents, "findings", Executor.id) :
     /\ Cardinality(S) = size
     /\ Cardinality({a.specialty : a \in S}) = size
     /\ lenses \subseteq {a.specialty : a \in S}
     /\ None \notin {a.specialty : a \in S}}

RefusalsAreNeeded ==
  /\ at # "incomplete"
  /\ at = "unstaffable" =>
       \A r \in request, p \in profile :
         \/ ~DistinctIds(p.agents, "findings", Executor.id)
         \/ Seatings(p.agents, r.size, Range(p.policy.required) \cup Range(r.specialties)) = {}

(* A profile that this build froze is never refused later for what could     *)
(* have been seen when it was frozen: it loads, its code panel is seated, no *)
(* seat lacks a setting, and a document panel fails only for a lens that an  *)
(* author asked for and no frozen reviewer has.                              *)
FrozenProfilesSeat ==
  \A p \in profile :
    p.here =>
      /\ at \notin {"unloaded", "unset", "code unstaffable"}
      /\ at = "unstaffable" =>
           \E r \in request : ~(Range(r.specialties) \subseteq
                                 Lenses(Eligible(p.agents, "findings", Executor.id)))
=============================================================================
