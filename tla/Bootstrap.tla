------------------------------ MODULE Bootstrap ------------------------------
(* prepareGuidedProject of src/project-bootstrap.ts, which a guided session   *)
(* runs before it looks for a run: the starter of a new project, written file *)
(* by file, its baseline commit, and the commit of the operator's design.     *)
(* Nothing locks the target: two sessions may prepare it, and the operator    *)
(* edits and stages files while a session prompts.  A design's path is named  *)
(* by its feature slug. Git's author identity and npm's files are left out.   *)
EXTENDS BootstrapState, Naturals, Sequences, FiniteSets, SequencesExt

CONSTANTS Sessions,  \* invocations of buildworks
          Slugs,     \* feature slugs an operator may type
          MaxActs    \* bound: edits and stagings by hand

(* The generated files in the order they are written; one names the feature. *)
Files == <<"readme", "app">>
Starter == ToSet(Files)
Paths == Starter \cup Slugs
Generated(slug, p) == IF p = "readme" THEN slug ELSE "generated"
Texts == {"blank", "text"}
Nothing == [p \in Paths |-> "absent"]

Tracked(p) == IF head = {} THEN "absent" ELSE (CHOOSE h \in head : TRUE)[p]
Present == {p \in Paths : tree[p] # "absent"}
Staged == {<<p, index[p]>> : p \in {q \in Paths : index[q] # Tracked(q)}}

Restful == {"idle", "refused", "stopped"}
Active == {g \in Sessions : prep[g].at \notin Restful \cup {"ready"}}
Idle == [at |-> "idle", slug |-> "none", commits |-> "none", next |-> 1, shown |-> {},
         committed |-> {}, meddled |-> FALSE]

(* Nothing is there yet. Who does not come stays out as if ready. *)
Start(who, done) ==
  /\ git = FALSE /\ dirs = {} /\ head = {} /\ acts = done /\ foul = FALSE
  /\ tree = Nothing /\ index = Nothing
  /\ prep = [g \in Sessions |-> [Idle EXCEPT !.at = IF g \in who THEN "idle" ELSE "ready"]]

Ready ==
  LET s == CHOOSE x \in Slugs : TRUE
  IN  /\ git = TRUE /\ dirs = {s} /\ acts = MaxActs /\ foul = FALSE
      /\ tree = [p \in Paths |-> CASE p \in Starter -> Generated(s, p)
                                  [] p = s -> "text"
                                  [] OTHER -> "absent"]
      /\ index = tree /\ head = {tree}
      /\ prep = [g \in Sessions |-> [Idle EXCEPT !.at = "ready"]]

-----------------------------------------------------------------------------
(* An invocation that stops leaves nothing behind but its files. *)
At(g, to) ==
  prep' = [prep EXCEPT ![g] = IF to \in Restful THEN [Idle EXCEPT !.at = to, !.slug = prep[g].slug]
                              ELSE [@ EXCEPT !.at = to]]
Goto(g, to) == At(g, to) /\ UNCHANGED <<git, dirs, tree, index, head, acts, foul>>
Refuse(g) == Goto(g, "refused")

(* Who stages or commits spoils what the others have checked or shown. *)
Spoilt(s) == IF s.at \in {"stage", "show", "confirm"} THEN [s EXCEPT !.meddled = TRUE] ELSE s
Spoil(g, s) == [h \in Sessions |-> IF h = g THEN s ELSE Spoilt(prep[h])]

(* prepareGuidedProject, which may be run again: a worktree with a commit is  *)
(* recognised, an empty target or a worktree without one is bootstrapped, for *)
(* its only feature directory or for the slug that is typed.                  *)
Inspect(g) ==
  /\ prep[g].at \in Restful
  /\ IF head # {} THEN
       /\ At(g, "recognise")
       /\ foul' = (foul \/ Active # {})
     ELSE IF Cardinality(dirs) > 1 \/ (~git /\ (Present # {} \/ dirs # {})) THEN
       /\ At(g, "refused")
       /\ UNCHANGED foul
     ELSE \E s \in IF dirs = {} THEN Slugs ELSE dirs :
       /\ prep' = [prep EXCEPT ![g] = [Idle EXCEPT !.at = "init", !.slug = s,
                                                  !.commits = "baseline"]]
       /\ foul' = (foul \/ Active # {} \/ \E h \in Sessions : prep[h].slug \in Slugs \ {s})
  /\ UNCHANGED <<git, dirs, tree, index, head, acts>>

InitGit(g) ==
  /\ prep[g].at = "init"
  /\ IF ~git /\ (Present # {} \/ dirs # {})
       THEN Refuse(g)
       ELSE /\ git' = TRUE
            /\ At(g, "validate")
            /\ UNCHANGED <<dirs, tree, index, head, acts, foul>>

(* Not the code: a partial starter is not completed. *)
FitsWhole(slug) == Present \in {{}, Starter} /\ \A p \in Present : tree[p] = Generated(slug, p)

(* validateExistingGeneratedFiles: what exists is generated, to the byte. *)
Fits(slug) == Present \subseteq Starter /\ \A p \in Present : tree[p] = Generated(slug, p)

Validate(g) ==
  /\ prep[g].at = "validate"
  /\ Goto(g, IF Fits(prep[g].slug) THEN "look" ELSE "refused")

(* writeMissingGeneratedFiles: look, then create exclusively. *)
Look(g) ==
  /\ prep[g].at = "look"
  /\ IF prep[g].next > Len(Files) THEN Goto(g, "feature")
     ELSE IF Files[prep[g].next] \in Present
       THEN /\ prep' = [prep EXCEPT ![g].next = @ + 1]
            /\ UNCHANGED <<git, dirs, tree, index, head, acts, foul>>
     ELSE Goto(g, "create")

Create(g) ==
  LET p == Files[prep[g].next]
  IN  /\ prep[g].at = "create"
      /\ IF p \in Present
           THEN Refuse(g)
           ELSE /\ tree' = [tree EXCEPT ![p] = Generated(prep[g].slug, p)]
                /\ prep' = [prep EXCEPT ![g].at = "look", ![g].next = @ + 1]
                /\ UNCHANGED <<git, dirs, index, head, acts, foul>>

(* A kill inside writeFileSync, after the file was created. *)
DieWriting(g) ==
  /\ prep[g].at = "create" /\ Files[prep[g].next] \notin Present
  /\ tree' = [tree EXCEPT ![Files[prep[g].next]] = "blank"]
  /\ At(g, "stopped")
  /\ foul' = TRUE
  /\ UNCHANGED <<git, dirs, index, head, acts>>

MakeFeature(g) ==
  /\ prep[g].at = "feature"
  /\ dirs' = dirs \cup {prep[g].slug}
  /\ At(g, "check")
  /\ UNCHANGED <<git, tree, index, head, acts, foul>>

(* Not the code: a file that is staged as it is does not count as dirty. *)
UnstagedBut(allowed) == {p \in Paths : tree[p] # index[p]} \ allowed

(* requireOnlyPaths, over git status: staged, changed and untracked files. *)
Unrelated(allowed) == {p \in Paths : tree[p] # index[p] \/ index[p] # Tracked(p)} \ allowed

(* npm ci and npm test, then requireOnlyPaths for the baseline commit. *)
Check(g) ==
  /\ prep[g].at = "check"
  /\ IF Unrelated(Starter) = {} THEN Goto(g, "stage") ELSE Refuse(g)

NpmFails(g) ==
  /\ prep[g].at = "check"
  /\ At(g, "refused")
  /\ foul' = TRUE
  /\ UNCHANGED <<git, dirs, tree, index, head, acts>>

Owned(g) == IF prep[g].commits = "baseline" THEN Starter ELSE {prep[g].slug}

(* git add of the owned paths, which fails on one it does not know. *)
Stage(g) ==
  /\ prep[g].at = "stage"
  /\ IF \E p \in Owned(g) : tree[p] = "absent" /\ index[p] = "absent"
       THEN Refuse(g)
       ELSE /\ index' = [p \in Paths |-> IF p \in Owned(g) THEN tree[p] ELSE index[p]]
            /\ prep' = Spoil(g, [prep[g] EXCEPT !.at = "show"])
            /\ UNCHANGED <<git, dirs, tree, head, acts, foul>>

(* The baseline's prompt shows all that is staged, the design's its own path. *)
Show(g) ==
  /\ prep[g].at = "show"
  /\ prep' = [prep EXCEPT ![g].at = "confirm",
                ![g].shown = IF prep[g].commits = "baseline" THEN Staged
                             ELSE {c \in Staged : c[1] = prep[g].slug}]
  /\ UNCHANGED <<git, dirs, tree, index, head, acts, foul>>

Decline(g) == prep[g].at = "confirm" /\ Goto(g, "stopped")

(* git commit takes the whole index, and fails when nothing is staged. *)
Commit(g) ==
  /\ prep[g].at = "confirm"
  /\ IF Staged = {}
       THEN Refuse(g)
       ELSE /\ head' = {index}
            /\ prep' = Spoil(g, [prep[g] EXCEPT !.at = "clean", !.committed = Staged])
            /\ UNCHANGED <<git, dirs, tree, index, acts, foul>>

CheckClean(g) ==
  /\ prep[g].at = "clean"
  /\ Goto(g, IF prep[g].commits = "design" /\ Unrelated({}) = {} THEN "ready" ELSE "stopped")

-----------------------------------------------------------------------------
(* scaffoldSlug: the feature whose starter, and no more than its design, is   *)
(* committed; a file that was changed since is refused when it is reached.    *)
Named == IF dirs = {} THEN {tree["readme"]} \cap Slugs ELSE dirs
Candidates ==
  {s \in Named : /\ Cardinality(Named) = 1
                 /\ \A p \in Starter : Tracked(p) # "absent"
                 /\ \A p \in Paths \ Starter : Tracked(p) # "absent" => p = s}
AsGenerated(s, n) == \A i \in 1..n : Tracked(Files[i]) = Generated(s, Files[i])
Scaffold == {s \in Candidates : AsGenerated(s, Len(Files))}
ChangedSince(s) == \E n \in DOMAIN Files : AsGenerated(s, n) /\ tree[Files[n]] # Tracked(Files[n])

(* committedDesigns *)
Designs == {s \in Slugs : Tracked(s) \notin {"absent", "blank"}}
AsCommitted(p) == tree[p] = Tracked(p) /\ tree[p] \notin {"absent", "blank"}

Recognise(g) ==
  /\ prep[g].at = "recognise"
  /\ IF \E s \in Candidates : ChangedSince(s) THEN At(g, "refused") /\ UNCHANGED dirs
     ELSE IF Scaffold = {} THEN
       /\ \/ Designs = {} /\ At(g, "refused")
          \/ \E s \in Designs : At(g, IF AsCommitted(s) THEN "ready" ELSE "refused")
       /\ UNCHANGED dirs
     ELSE \E s \in Scaffold :
       /\ prep' = [prep EXCEPT ![g].at = "design", ![g].slug = s, ![g].commits = "design"]
       /\ dirs' = dirs \cup {s}
  /\ UNCHANGED <<git, tree, index, head, acts, foul>>

(* commitDesign, up to its git add. *)
Design(g) ==
  LET p == prep[g].slug
  IN  /\ prep[g].at = "design"
      /\ Goto(g, IF Tracked(p) # "absent" THEN IF AsCommitted(p) THEN "ready" ELSE "refused"
                 ELSE IF tree[p] = "absent" THEN "stopped"
                 ELSE IF tree[p] = "blank" \/ Unrelated({p}) # {} THEN "refused"
                 ELSE "stage")

-----------------------------------------------------------------------------
(* The operator authors the design that the baseline waits for. *)
WriteDesign ==
  \E s \in dirs :
    /\ head # {} /\ Tracked(s) = "absent" /\ tree[s] # "text" /\ acts < MaxActs
    /\ tree' = [tree EXCEPT ![s] = "text"]
    /\ acts' = acts + 1
    /\ foul' = (foul \/ Active # {})
    /\ UNCHANGED <<git, dirs, index, head, prep>>

EditFile ==
  \E p \in Paths, text \in Texts \cup {"absent"} :
    /\ acts < MaxActs /\ tree[p] # text
    /\ tree' = [tree EXCEPT ![p] = text]
    /\ dirs' = dirs \cup ({p} \cap Slugs)
    /\ acts' = acts + 1
    /\ foul' = TRUE
    /\ UNCHANGED <<git, index, head, prep>>

StageByHand ==
  \E p \in Paths : \E text \in Texts \cup {tree[p]} :
    /\ git /\ acts < MaxActs /\ text # index[p]
    /\ tree' = [tree EXCEPT ![p] = text]
    /\ index' = [index EXCEPT ![p] = text]
    /\ dirs' = dirs \cup ({p} \cap Slugs)
    /\ prep' = [g \in Sessions |-> Spoilt(prep[g])]
    /\ acts' = acts + 1
    /\ foul' = TRUE
    /\ UNCHANGED <<git, head>>

Die(g) == g \in Active /\ Goto(g, "stopped")

Prepare(g) ==
  \/ Inspect(g) \/ InitGit(g) \/ Validate(g) \/ Look(g) \/ Create(g) \/ MakeFeature(g)
  \/ Check(g) \/ NpmFails(g) \/ Stage(g) \/ Show(g) \/ Decline(g) \/ Commit(g) \/ CheckClean(g)
  \/ Recognise(g) \/ Design(g)

Next ==
  \/ \E g \in Sessions : Prepare(g) \/ Die(g) \/ DieWriting(g)
  \/ WriteDesign \/ EditFile \/ StageByHand

(* Whoever comes, and whatever the operator has left to do by hand. *)
Init == \E who \in SUBSET Sessions, done \in Nat : Start(who, done)

Spec == Init /\ [][Next]_projectVars
=============================================================================
