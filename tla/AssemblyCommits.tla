--------------------------- MODULE AssemblyCommits ---------------------------
(***************************************************************************)
(* The commits that reach the assembly repository: those an integrate makes *)
(* in its checkout, and those the publishers push through the API.         *)
(***************************************************************************)
EXTENDS AssemblySite

(***************************************************************************)
(* What one `selfdoc assembly integrate' makes of the tree it re-synced    *)
(* to: reconcile the tree with the roster, graft the dispatched project,   *)
(* record its membership, regenerate the shared files, verify.  All of it  *)
(* happens in one checkout, so it is a function of the tree and the job;   *)
(* Accepts says when it gets to the commit, Integrated what it commits.    *)
(***************************************************************************)

(* Membership reconciliation.                                              *)

\* A directory under site/ that no roster entry, reserved name or home page
\* explains, and a membership record of an undeclared slug.
Retired(t) ==
    (Subtrees(t) \ ({RootDir, BlogDir} \cup t.declared \cup HomeOwnedRootNames(t)))
        \cup {s \in Slugs \ t.declared : t.member[s] # "absent"}

\* Mutant of ClaimsOfRetired: the records are deleted before they are read.
ReadsTooLate(t, retired) == {}

\* A retired project's record is read when its turn comes, in slug order, so
\* after the manifests every shorter slug's prefix covers are gone.
ClaimsOfRetired(t, retired) ==
    UNION {Claimed(t.record[s]) : s \in {x \in retired : \A r \in retired : x \notin Extends[r]}}

KeptKinds(t, retired, x) ==
    {k \in t.kinds[x] : /\ \A r \in retired : ~ManifestFileOf(x, r)
                        /\ ManifestOwned(t.declared, x, k)}

ReconcileMembership(t) ==
    LET dirs    == Retired(t)
        retired == dirs \cap Slugs
        claims  == ClaimsOfRetired(t, retired)
        kept    == [x \in Slugs |-> KeptKinds(t, retired, x)]
    IN  [KeepManifests(t, kept) EXCEPT
            !.site   = [path \in Path |->
                           IF path[1] \in dirs \/ path \in claims THEN None ELSE @[path]],
            !.member = [x \in Slugs |-> IF x \in t.declared THEN @[x] ELSE "absent"]]

RecordMembership(t, slug) == [t EXCEPT !.member[slug] = "referenced"]

-----------------------------------------------------------------------------
(* The shared files.                                                       *)

\* Generation is refused without the home project's curated listing, and when
\* two projects' manifests list one post.
SharedFilesAllowed(t) ==
    /\ "listing" \in t.kinds[t.home]
    /\ \A x, y \in ListedProjects(t) :
          x # y => ManifestPosts(t, x) \cap ManifestPosts(t, y) = {}

\* The sitemap, the listing, the blog index and the feed link these.
SharedLinks(t) ==
    (UNION {{PageAddress(t, s, p) : p \in t.pages[s]} : s \in ListedProjects(t)})
      \cup {<<BlogDir, q>> : q \in UNION {ManifestPosts(t, s) : s \in ListedProjects(t)}}

GenerateSharedFiles(t) == [t EXCEPT !.listed = SharedLinks(t)]

-----------------------------------------------------------------------------
(* Verification of the assembled tree.                                     *)

CheckRosterAgreement(t) ==
    LET subtrees == Subtrees(t) \ ({RootDir, BlogDir} \cup HomeOwnedRootNames(t))
    IN  /\ subtrees \subseteq t.declared
        /\ t.declared \ {t.home} \subseteq subtrees
        /\ \A x \in Slugs : \A k \in t.kinds[x] : ManifestOwned(t.declared, x, k)
        /\ \A s \in t.declared : "base" \in t.kinds[s]
        /\ \A s \in Slugs \ t.declared : t.member[s] = "absent"

CheckHomeProject(t) ==
    /\ t.home \notin Subtrees(t)
    /\ HomeOwnedRootNames(t) \cap t.declared = {}
    /\ \A p \in Reserved : <<PageDir[p], p>> \notin Claimed(t.record[t.home])

CheckManifestPagesEmitted(t) ==
    \A s \in ListedProjects(t) : \A p \in t.pages[s] : t.site[PageAddress(t, s, p)] # None

CheckManifestPostsEmitted(t) ==
    \A s \in ListedProjects(t) : \A q \in ManifestPosts(t, s) : t.site[<<BlogDir, q>>] # None

CheckSharedArtifacts(t) == t.site[<<RootDir, Index>>] # None

CheckReferences(t) == \A path \in t.listed : t.site[path] # None

\* Every page links its siblings and the listing links every project, so a
\* project is reached exactly when its index page is there.
CheckProjectReachability(t) ==
    \A s \in t.declared \ {t.home} : t.site[<<s, Index>>] # None

VerifyAssembly(t) ==
    /\ CheckRosterAgreement(t)
    /\ CheckHomeProject(t)
    /\ CheckManifestPagesEmitted(t)
    /\ CheckManifestPostsEmitted(t)
    /\ CheckSharedArtifacts(t)
    /\ CheckReferences(t)
    /\ CheckProjectReachability(t)

-----------------------------------------------------------------------------
(* The body of the retry loop, from the re-sync to the commit.             *)

Grafted(t, job) ==
    IF job.scope = "shared-only" THEN ReconcileMembership(t)
    ELSE RecordMembership(ApplyProjectFiles(ReconcileMembership(t), job), job.slug)

\* Mutant of Integrated: the shared files are generated before the graft.
SharedFilesFirst(t, job) ==
    [Grafted(t, job) EXCEPT !.listed = SharedLinks(ReconcileMembership(t))]

Integrated(t, job) == GenerateSharedFiles(Grafted(t, job))

\* Mutant of Accepts: the tree is committed and deployed unverified.
SkipsVerification(t, job) ==
    /\ job.scope # "shared-only" => /\ job.slug \in t.declared
                                    /\ GraftAllowed(ReconcileMembership(t), job)
    /\ SharedFilesAllowed(Grafted(t, job))

Accepts(t, job) ==
    /\ job.scope # "shared-only" => /\ job.slug \in t.declared
                                    /\ GraftAllowed(ReconcileMembership(t), job)
    /\ SharedFilesAllowed(Grafted(t, job))
    /\ VerifyAssembly(Integrated(t, job))

-------------------------------------------------------------------------------
(***************************************************************************)
(* The commits of the publishers that never clone the assembly: `docs      *)
(* publish', `post publish' and `assembly retire'.  Each reads what it     *)
(* needs through the API, in several calls, and then pushes one commit on  *)
(* top of the branch head it read last.  A commit writes and deletes whole *)
(* files, so what it puts in the record, the membership file and the       *)
(* roster is what the command read earlier, edited.                        *)
(*                                                                         *)
(* A command c carries what it read and decided:                           *)
(*   kind, slug, build, home    what it publishes, and whether as home     *)
(*   roster, homeSlug           the roster as read                         *)
(*   record, removed            the published-file record to write, and    *)
(*                              the paths it takes down                    *)
(*   files                      for a retirement, the <<slug, kind>> of    *)
(*                              the manifests the repository listed        *)
(*   member                     projects.json as read                      *)
(***************************************************************************)

CommandKinds == {"docs", "posts", "retire"}

CommandOutputs(c) ==
    IF c.kind = "posts" THEN [pages |-> {}, posts |-> c.build.posts] ELSE c.build

CommandProduced(c) == SplitBuildOutput(CommandOutputs(c), c.slug, c.home)

CommandOwner(c) == IF c.kind = "posts" THEN "posts" ELSE "docs"

\* A publish without a tag keeps the ref the last release recorded.
PublishedMember(c) == IF c.member[c.slug] = "referenced" THEN "referenced" ELSE "unreferenced"

\* The paths a retirement takes down: the whole section, and what the record
\* claims outside it, among the paths the repository listed.
RetirePaths(t, slug, claims) ==
    {path \in Emitted(t) : path[1] = slug \/ path \in claims}

\* The manifests a retirement takes down: every file named "<slug>-*".
RetireManifests(t, slug) ==
    {file \in Slugs \X Kinds : ManifestFileOf(file[1], slug) /\ file[2] \in t.kinds[file[1]]}

-----------------------------------------------------------------------------

PushDocs(t, c) ==
    [t EXCEPT !.site = GraftSubtree(@, c.slug, CommandProduced(c), c.removed),
              !.record[c.slug] = c.record,
              !.kinds[c.slug] = @ \cup {"files", "base"}
                                  \cup (IF c.home THEN {"listing"} ELSE {}),
              !.pages[c.slug] = c.build.pages,
              !.posts[c.slug] = c.build.posts,
              !.member = [c.member EXCEPT ![c.slug] = PublishedMember(c)]]

PushPosts(t, c) ==
    [t EXCEPT !.site = GraftSubtree(@, c.slug, CommandProduced(c), c.removed),
              !.record[c.slug] = c.record,
              !.kinds[c.slug] = @ \cup {"files", "posts"},
              !.overlay[c.slug] = c.build.posts]

PushRetire(t, c) ==
    LET kept == [x \in Slugs |-> {k \in t.kinds[x] : <<x, k>> \notin c.files}]
    IN  [KeepManifests(t, kept) EXCEPT
            !.declared = c.roster \ {c.slug},
            !.home     = c.homeSlug,
            !.site     = [path \in Path |-> IF path \in c.removed THEN None ELSE @[path]],
            !.member   = IF c.member[c.slug] = "absent" THEN @
                         ELSE [c.member EXCEPT ![c.slug] = "absent"]]

\* The tree of the commit a command pushes on top of tree t.
Pushed(t, c) == CASE c.kind = "docs" -> PushDocs(t, c)
                  [] c.kind = "posts" -> PushPosts(t, c)
                  [] c.kind = "retire" -> PushRetire(t, c)
===============================================================================
