------------------------------ MODULE MCPanels ------------------------------
(* Panels over every installation of up to four document reviewers with three *)
(* lenses and of up to three code reviewers, and over profiles that an        *)
(* earlier build froze under other rules.                                     *)
EXTENDS Panels

CONSTANTS none, reconciler

MCExecutor == [id |-> "claude", capabilities |-> {"spec", "review", "plan", "implementation"}]

Agent(id, role, lens, executor, output, instructed) ==
  [id |-> id, role |-> role, specialty |-> lens, executor |-> executor,
   outputs |-> {output}, instructed |-> instructed]

Writer == Agent(0, "author", none, "claude", "patches", FALSE)
Reviewer(id, lens) == Agent(id, "reviewer", lens, "claude", "findings", FALSE)
CodeReviewer(id, lens) == Agent(id, "reviewer", lens, "claude", "code-findings", TRUE)

Document(id) ==
  {<<>>, <<Agent(id, "reviewer", "C", "other", "findings", FALSE)>>}
  \cup {<<Reviewer(id, l)>> : l \in {"A", "B", "C", none}}
Code(id) ==
  {<<>>, <<Agent(id, "reviewer", "B", "other", "code-findings", TRUE)>>,
   <<Agent(id, "reviewer", "C", "claude", "code-findings", FALSE)>>}
  \cup {<<CodeReviewer(id, l)>> : l \in {"A", "B", none}}

CodeTwo == <<CodeReviewer(7, "A"), CodeReviewer(8, "B")>>
DocumentThree == <<Reviewer(3, "A"), Reviewer(2, "C"), Reviewer(1, "B")>>

MCRegistries ==
  {<<Writer>> \o CodeTwo \o d \o c \o b \o a :
     a \in Document(1), b \in Document(2), c \in Document(3), d \in Document(4)}
  \cup {<<Writer>> \o DocumentThree \o c \o b \o a : a \in Code(7), b \in Code(8), c \in Code(9)}

Policy(max, required) ==
  [min |-> 2, max |-> max, required |-> required, codeSize |-> 2, rounds |-> 3,
   severities |-> <<"minor", "major">>, threshold |-> "major"]
MCPolicies == {Policy(2, <<>>), Policy(3, <<"A">>), Policy(3, <<"B", "A">>)}

(* Nobody is 5: a flag that names it is refused. *)
MCFlags == {[names |-> {}, valid |-> TRUE], [names |-> {1, 5}, valid |-> TRUE]}

Legacy(agents, rules, settings, executor) ==
  [agents |-> agents, policy |-> rules, settings |-> settings, executor |-> executor,
   here |-> FALSE]
Full == <<Writer, Reviewer(1, "B"), Reviewer(2, "B"), Reviewer(3, "A")>> \o CodeTwo
Usual == Policy(3, <<"A">>)

MCInherited ==
  {Legacy(Full, p, Names(Full), MCExecutor) :
     p \in {Usual, [Usual EXCEPT !.min = 1], [Usual EXCEPT !.max = 6],
            [Usual EXCEPT !.threshold = "grave"], [Usual EXCEPT !.codeSize = 3],
            [Usual EXCEPT !.severities = <<"major", "major">>], [Usual EXCEPT !.rounds = 6],
            [Usual EXCEPT !.required = <<"A", "A">>]}}
  \cup {Legacy(Full, Usual, Names(Full) \ {1}, MCExecutor),
        Legacy(Full, Usual, Names(Full), [MCExecutor EXCEPT !.id = "other"]),
        Legacy(Append(Full, Reviewer(1, "C")), Usual, Names(Full), MCExecutor),
        Legacy(Tail(Full), Usual, Names(Full), MCExecutor)}

MCRequests ==
  [size : 1..3, specialties : {<<>>, <<"A">>, <<"C">>, <<"B", "C">>, <<"C", "B">>, <<"C", "C">>}]
=============================================================================
