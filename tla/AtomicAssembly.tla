---------------------------- MODULE AtomicAssembly ----------------------------
(***************************************************************************)
(* What the assembly repository promises, with no runs, pushes, retries or *)
(* API calls in sight.                                                     *)
(*                                                                         *)
(* An integrate is one atomic step from the tree it finds to the tree it   *)
(* leaves: it is computed from nothing older, so no commit made by someone *)
(* else is ever lost to it.  A publisher's commit touches its own project  *)
(* and projects.json.  What goes live is a tree some integrate committed.  *)
(*                                                                         *)
(* What an integrate computes, and what a tree is, are parameters.         *)
(***************************************************************************)
CONSTANTS Start,               \* the tree the site starts with
          Jobs,                \* the jobs that can be integrated
          Rosters,             \* the rosters an operator can commit
          Projects,            \* the projects a publisher can commit for
          Accepts(_, _),       \* an integrate of a job is accepted on a tree
          Integrated(_, _),    \* the tree it leaves
          OnlyOf(_, _, _)      \* one tree differs from another in what is one project's

VARIABLES tree,    \* the tree at the branch head
          staged,  \* trees integrates committed and have yet to deploy
          live     \* the tree being served

Init == tree = Start /\ staged = {} /\ live = Start

\* The run may fail in its push, so staging the tree is optional.
Integrate(job) ==
    /\ Accepts(tree, job)
    /\ tree' = Integrated(tree, job)
    /\ staged' \subseteq staged \cup {tree'}
    /\ live' = live

\* A commit on behalf of project s changes only what is s's.
Publish(s) ==
    /\ OnlyOf(s, tree, tree')
    /\ UNCHANGED <<staged, live>>

Edit(roster) ==
    /\ tree' = [tree EXCEPT !.declared = roster.declared, !.home = roster.home]
    /\ UNCHANGED <<staged, live>>

Deploy ==
    /\ live' \in staged
    /\ staged' \subseteq staged
    /\ tree' = tree

\* A run may also fail between its commit and its deploy.
Abandon ==
    /\ staged' \subseteq staged
    /\ UNCHANGED <<tree, live>>

Next ==
    \/ \E job \in Jobs : Integrate(job)
    \/ \E s \in Projects : Publish(s)
    \/ \E roster \in Rosters : Edit(roster)
    \/ Deploy
    \/ Abandon

Spec == Init /\ [][Next]_<<tree, staged, live>>
=============================================================================
