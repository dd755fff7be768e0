---------------------------- MODULE AssemblySite ----------------------------
(***************************************************************************)
(* The tree of the assembly repository and the operations selfdoc performs *)
(* on it: what one `assembly integrate' does to a checkout, and what the   *)
(* three publishers that write through the Git Data API put in one commit. *)
(*                                                                         *)
(* A tree is a record:                                                     *)
(*   declared, home   the roster (roster.toml)                             *)
(*   site             which project's bytes stand at each path of site/,   *)
(*                    None where no file is                                *)
(*   kinds            which manifests/<slug>[-<kind>].json exist           *)
(*   record           the published-file record, manifests/<slug>-files    *)
(*   pages, posts     what the base manifest of a slug lists               *)
(*   overlay          what its post overlay lists                          *)
(*   member           what projects.json records of a slug: nothing, an    *)
(*                    entry without a ref, or an entry with one            *)
(*   listed           the addresses the generated shared files link        *)
(*                                                                         *)
(* A path is <<directory, file>>.  Page bytes, versions and formatting are *)
(* abstracted: the properties only ask whose bytes a path holds.           *)
(***************************************************************************)
EXTENDS FiniteSets

CONSTANTS
    Slugs,      \* the slugs a roster can declare
    Pages,      \* documentation pages a build can produce
    Posts,      \* blog posts a build can produce
    Index,      \* the index page, one of Pages
    RootDir,    \* the directory part of a file directly under site/
    BlogDir,    \* site/blog/, the namespace every project's posts share
    HomeDirs,   \* directories only a home project's pages can be in
    PageDir,    \* where under the site root a home project's page lands
    Reserved,   \* pages whose address at the site root is the assembly's own
    Extends,    \* Extends[s]: the slugs whose name begins with "<s>-"
    Cut,        \* Cut[s]: the slug left when the name is cut at its last "-"
    None

Dirs == Slugs \cup HomeDirs \cup {RootDir, BlogDir}
Path == Dirs \X (Pages \cup Posts)

ASSUME NamesAssumption ==
    /\ Index \in Pages
    /\ Pages \cap Posts = {}
    /\ None \notin Slugs
    /\ RootDir # BlogDir
    /\ {RootDir, BlogDir} \cap (Slugs \cup HomeDirs) = {}
    /\ Slugs \cap HomeDirs = {}
    /\ PageDir \in [Pages -> Dirs \ {BlogDir}]
    /\ PageDir[Index] = RootDir
    /\ Reserved \subseteq Pages \ {Index}
    /\ Extends \in [Slugs -> SUBSET Slugs]
    /\ Cut \in [Slugs -> Slugs \cup {None}]
    /\ \A s \in Slugs : s \notin Extends[s] /\ Cut[s] # s

Owners == {"release", "docs", "posts"}
Kinds == {"base", "posts", "files", "listing"}
Scopes == {"full", "posts", "shared-only"}
Membership == {"absent", "unreferenced", "referenced"}

Build == [pages : SUBSET Pages, posts : SUBSET Posts]
Record == [Owners -> SUBSET Path]
Job == [slug : Slugs, scope : Scopes, build : Build]

Tree == [declared : SUBSET Slugs,
         home     : Slugs,
         site     : [Path -> Slugs \cup {None}],
         kinds    : [Slugs -> SUBSET Kinds],
         record   : [Slugs -> Record],
         pages    : [Slugs -> SUBSET Pages],
         posts    : [Slugs -> SUBSET Posts],
         overlay  : [Slugs -> SUBSET Posts],
         member   : [Slugs -> Membership],
         listed   : SUBSET Path]

NoClaims == [o \in Owners |-> {}]

-----------------------------------------------------------------------------
(* Reading a tree.                                                         *)

IsPost(path) == path[1] = BlogDir

Claimed(rec) == UNION {rec[o] : o \in Owners}

Emitted(t) == {path \in Path : t.site[path] # None}

\* The top-level directories that hold a file.
Subtrees(t) == {path[1] : path \in Emitted(t)}

\* Every post path that a record of one of `others' claims.
ForeignPostClaims(t, slug, others) ==
    {path \in Path : /\ IsPost(path)
                     /\ \E x \in others \ {slug} : path \in Claimed(t.record[x])}

\* Top-level directories the home project's own record names.
HomeOwnedRootNames(t) ==
    {path[1] : path \in Claimed(t.record[t.home])} \ {RootDir, BlogDir}

\* The posts the assembly lists for a project: the overlay's, where there is
\* an overlay, else the base manifest's.
ManifestPosts(t, s) == IF "posts" \in t.kinds[s] THEN t.overlay[s] ELSE t.posts[s]

ListedProjects(t) == {s \in Slugs : "base" \in t.kinds[s]}

PageAddress(t, s, page) == <<IF s = t.home THEN PageDir[page] ELSE s, page>>

\* manifests/<x>-<kind>.json belongs to a declared project: its stem, or its
\* stem cut at the last dash, is a declared slug.
ManifestOwned(declared, x, kind) ==
    x \in declared \/ (kind = "base" /\ Cut[x] \in declared)

\* manifests/<x>-<kind>.json is among the files that go with slug s: the rule
\* is the "<s>-" prefix, whatever follows it.
ManifestFileOf(x, s) == x = s \/ x \in Extends[s]

\* The tree when `kept' are the only manifests left: a manifest that is gone
\* claims and lists nothing.
KeepManifests(t, kept) ==
    [t EXCEPT !.kinds   = kept,
              !.record  = [x \in Slugs |-> IF "files" \in kept[x] THEN @[x] ELSE NoClaims],
              !.pages   = [x \in Slugs |-> IF "base" \in kept[x] THEN @[x] ELSE {}],
              !.posts   = [x \in Slugs |-> IF "base" \in kept[x] THEN @[x] ELSE {}],
              !.overlay = [x \in Slugs |-> IF "posts" \in kept[x] THEN @[x] ELSE {}]]

\* A manifest that does not exist claims and lists nothing.
AbsentManifestsAreEmpty(t) ==
    \A x \in Slugs :
        /\ "files" \notin t.kinds[x] => t.record[x] = NoClaims
        /\ "base" \notin t.kinds[x] => t.pages[x] = {} /\ t.posts[x] = {}
        /\ "posts" \notin t.kinds[x] => t.overlay[x] = {}

-----------------------------------------------------------------------------
(* One project's graft.                                                    *)

SplitBuildOutput(build, slug, home) ==
    {<<IF home THEN PageDir[p] ELSE slug, p>> : p \in build.pages}
        \cup {<<BlogDir, q>> : q \in build.posts}

\* A home page may not land at an address the assembly generates, such as
\* projects/index.html.
HomeCollisions(build, home) == home /\ build.pages \cap Reserved # {}

\* Mutants of PrunePlan: the record forgets what the other publishers claim;
\* everything the build did not produce is removed, whoever published it.
ForgetsOtherOwners(rec, owner, produced) ==
    [removed |-> {path \in rec[owner] : /\ path \notin produced
                                        /\ \A o \in Owners \ {owner} : path \notin rec[o]},
     updated |-> [NoClaims EXCEPT ![owner] = produced]]
WipesInstead(rec, owner, produced) ==
    [removed |-> Claimed(rec) \ produced, updated |-> [rec EXCEPT ![owner] = produced]]

\* What `owner' may remove, and the record once it publishes `produced'.
PrunePlan(rec, owner, produced) ==
    [removed |-> {path \in rec[owner] : /\ path \notin produced
                                        /\ \A o \in Owners \ {owner} : path \notin rec[o]},
     updated |-> [rec EXCEPT ![owner] = produced]]

\* The bytes after `produced' is copied in and `removed' deleted.
GraftSubtree(bytes, slug, produced, removed) ==
    [path \in Path |-> CASE path \in removed -> None
                         [] path \in produced -> slug
                         [] OTHER -> bytes[path]]

Owner(job) == IF job.scope = "posts" THEN "posts" ELSE "release"

Outputs(job) ==
    IF job.scope = "posts" THEN [pages |-> {}, posts |-> job.build.posts] ELSE job.build

Produced(t, job) == SplitBuildOutput(Outputs(job), job.slug, job.slug = t.home)

\* A posts build that produced nothing is no instruction to unpublish.
NothingToPublish(job) == job.scope = "posts" /\ job.build.posts = {}

\* Mutant of GraftAllowed: other projects' records are not consulted.
IgnoresForeignClaims(t, job) ==
    NothingToPublish(job) \/ ~HomeCollisions(Outputs(job), job.slug = t.home)

GraftAllowed(t, job) ==
    \/ NothingToPublish(job)
    \/ /\ ~HomeCollisions(Outputs(job), job.slug = t.home)
       /\ Produced(t, job) \cap ForeignPostClaims(t, job.slug, Slugs) = {}

\* Folding a release's posts into the overlay keeps the overlay's own.
FoldPostsIntoOverlay(t, job) ==
    IF "posts" \in t.kinds[job.slug]
      THEN job.build.posts \cup t.overlay[job.slug]
      ELSE {}

ApplyProjectFiles(t, job) ==
    LET s        == job.slug
        produced == Produced(t, job)
        plan     == PrunePlan(t.record[s], Owner(job), produced)
        tree == [t EXCEPT
                    !.site = GraftSubtree(@, s, produced, plan.removed),
                    !.record[s] = plan.updated]
    IN  IF NothingToPublish(job) THEN t
        ELSE IF job.scope = "posts"
          THEN [tree EXCEPT !.kinds[s] = @ \cup {"files", "posts"},
                            !.overlay[s] = job.build.posts]
          ELSE [tree EXCEPT !.kinds[s] = @ \cup {"files", "base"}
                                           \cup (IF s = t.home THEN {"listing"} ELSE {}),
                            !.pages[s] = job.build.pages,
                            !.posts[s] = job.build.posts,
                            !.overlay[s] = FoldPostsIntoOverlay(t, job)]
=============================================================================
