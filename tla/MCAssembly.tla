----------------------------- MODULE MCAssembly -----------------------------
(***************************************************************************)
(* Small instances of Assembly.  `hub' is the project an instance starts   *)
(* with as home; `lib' and `libx' are ordinary projects, and instances     *)
(* that set Extends to DashExtends spell the latter "lib-x".               *)
(***************************************************************************)
EXTENDS Assembly, TLC

CONSTANTS hub, lib, libx, index, guide, projects, news, talk, root, blog, cv, none

\* Runs are interchangeable, and so are publishers.
Symmetry == Permutations(Runners) \cup Permutations(Publishers)

MCSlugs == {hub, lib, libx}

\* The home project's guide is served from site/cv/.
MCPageDir == [p \in Pages |-> IF p = index THEN root ELSE cv]

NoExtends == [s \in Slugs |-> {}]
NoCut == [s \in Slugs |-> none]
B(pages, posts) == [pages |-> pages, posts |-> posts]
J(slug, scope, build) == [slug |-> slug, scope |-> scope, build |-> build]
C(kind, slug, build) == [kind |-> kind, slug |-> slug, build |-> build]
R(declared, home) == [declared |-> declared, home |-> home]

SharedOnly == J(hub, "shared-only", B({}, {}))

-----------------------------------------------------------------------------
(* Trees to start from, each made by the integrates that would make it.    *)

EmptyTree(home) ==
    [declared |-> {home}, home |-> home,
     site     |-> [path \in Path |-> None],
     kinds    |-> [s \in Slugs |-> {}],
     record   |-> [s \in Slugs |-> NoClaims],
     pages    |-> [s \in Slugs |-> {}],
     posts    |-> [s \in Slugs |-> {}],
     overlay  |-> [s \in Slugs |-> {}],
     member   |-> [s \in Slugs |-> "absent"],
     listed   |-> {}]

Release(t, slug, build) ==
    Integrated([t EXCEPT !.declared = @ \cup {slug}], J(slug, "full", build))

\* The home project and lib, which has published a post.
TwoProjects ==
    Release(Release(EmptyTree(hub), hub, B({index, guide}, {})), lib, B({index}, {news}))

\* libx as well.
ThreeProjects == Release(TwoProjects, libx, B({index}, {}))

-----------------------------------------------------------------------------
(* What each instance offers.                                              *)

Nothing == {}

\* lib releases and builds its posts while libx claims the one post or the
\* other, and a shared rebuild runs in between.
RacingJobs ==
    {J(lib, "full", B({index, guide}, {})), J(lib, "posts", B({}, {talk})),
     J(libx, "full", B({index}, {talk})), J(libx, "full", B({index}, {news})), SharedOnly}

\* A release of lib, before or after what its publishers do: it gains a page and
\* builds no post.
LibJobs == {J(lib, "full", B({index, guide}, {}))}

\* Everything a publisher can do to lib.
LibCommands ==
    {C("docs", lib, B({index, guide}, {news})), C("docs", lib, B({index}, {})),
     C("posts", lib, B({}, {talk}))}

\* lib or libx leaves the roster, or comes back.
DropRosters ==
    {R({hub, lib, libx}, hub), R({hub, lib}, hub), R({hub, libx}, hub), R({hub}, hub)}
DropJobs == {J(libx, "full", B({index}, {talk})), J(libx, "full", B({index}, {})), SharedOnly}
DropCommands == {C("retire", lib, B({}, {}))}

\* Two projects at work next to each other, while a third retires.
TeamCommands ==
    {C("docs", lib, B({index}, {talk})), C("posts", hub, B({}, {news})),
     C("retire", libx, B({}, {}))}
TeamJobs == {J(lib, "full", B({index, guide}, {})), SharedOnly}

\* The home project deploys next to them, once with a page that would land on
\* the generated projects/index.html.
HomeJobs == TeamJobs \cup {J(hub, "full", B({index}, {})), J(hub, "full", B({index, projects}, {}))}

\* The instances below look at one race or one procedure each.
DocsLib == C("docs", lib, B({index}, {news}))
RetireLib == C("retire", lib, B({}, {}))

DocsAndRetire == {DocsLib, RetireLib}
=============================================================================
