--------------------------- MODULE BootstrapState ---------------------------
(* The target of prepareGuidedProject and the sessions that prepare it, see   *)
(* Bootstrap, and what a preparation promises.                                *)
VARIABLES git,    \* is the target a Git worktree
          dirs,   \* directories under docs/features
          tree,   \* the files of the target
          index,  \* what is staged
          head,   \* the committed files, none or one
          prep,   \* each session: where it is, what it chose and showed
          acts,   \* what the operator did by hand
          foul    \* history: something happened that a rerun need not survive

projectVars == <<git, dirs, tree, index, head, prep, acts, foul>>

-----------------------------------------------------------------------------
(* What a session commits is what its prompt showed, unless somebody staged   *)
(* or committed after it had checked that nothing else was dirty: neither an  *)
(* edit, nor what an earlier session or the operator left staged, gets in.    *)
ShownIsCommitted ==
  \A g \in DOMAIN prep :
    prep[g].committed # {} /\ ~prep[g].meddled => prep[g].committed = prep[g].shown

(* Sessions that follow each other resume from wherever the last was killed   *)
(* or declined: none is refused, unless a file was torn, edited or staged by  *)
(* hand, npm failed, two sessions overlapped or another slug was typed.       *)
RerunsResume == (\E g \in DOMAIN prep : prep[g].at = "refused") => foul
=============================================================================
