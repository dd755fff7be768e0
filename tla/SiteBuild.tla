-------------------------------- MODULE SiteBuild ------------------------------
(* Build (internal/build): one documentation site from a working tree, the    *)
(* tags of its superseded versions and the posts beside it.  The posts are     *)
(* written into the docs tree for the time of a build; the superseded versions *)
(* come out of a cache that outlives it; and a build may fail or be killed     *)
(* anywhere in between.                                                        *)
EXTENDS Naturals, Sequences, SequencesExt, FiniteSets, Functions

CONSTANTS
  Tree,               \* [tree ids -> what the tree holds], see TreeOK
  LocaleList,         \* the configured locales, the default one first
  VersionList,        \* the configured versions, oldest first
  PlainDocs,          \* whether docs/ itself holds the pages of a single locale
  Posts, Drafts,      \* the posts of the project, and which of them are drafts
  Sources,            \* source paths a configuration may declare
  Redirects,          \* configured redirects: pairs of page names
  ChangelogDeclared,  \* whether the configuration names the changelog
  None,               \* no tag, no tree, no filter
  MaxMoves            \* bound on what happens between and during builds

Locales  == ToSet(LocaleList)
SiteVersions == ToSet(VersionList)
Latest   == Last(VersionList)
Trees    == DOMAIN Tree

ASSUME TreeOK ==
  \A t \in Trees :
    /\ DOMAIN Tree[t].pages = Locales  \* handwritten pages by locale
    /\ \A f \in {"generated", "unversioned", "needs", "sources"} : IsFiniteSet(Tree[t][f])
    /\ Tree[t].changelog \in BOOLEAN
ASSUME PlainIsSingle == PlainDocs => Len(LocaleList) = 1

(* Neither list is empty, and only an unversioned project has an empty name in *)
(* one, which is its only version.                                             *)
ASSUME ListsAreConfigured ==
  /\ LocaleList \in Seq(Locales) /\ Len(LocaleList) > 0
  /\ VersionList \in Seq(SiteVersions) /\ Len(VersionList) > 0
  /\ "" \notin Locales \cup (SiteVersions \ {Latest})
  /\ None \notin Locales \cup SiteVersions \cup Trees

Listing   == "blog"       \* the page that lists the posts
Changelog == "changelog"

(* No tree has a page where posts go: what an author puts there is in blog,    *)
(* and CheckReservedPagePaths refuses the rest of the reserved names.  No tree *)
(* is called like what else a page may come from.                              *)
ASSUME PagesHaveOneOrigin ==
  /\ "index" \notin Posts \cup {Listing}
  /\ {"posts", "stub"} \cap Trees = {}
  /\ \A t \in Trees : /\ Tree[t].generated \cap (Posts \cup {Listing}) = {}
                      /\ \A l \in Locales : Tree[t].pages[l] \cap (Posts \cup {Listing}) = {}

VARIABLES
  workTree,      \* the tree that is checked out
  posts,     \* the posts in the posts directory
  blog,      \* files on the reserved paths of docs/: who wrote each of them
  tags,      \* the tree each version's tag points at
  declared,  \* the source paths the configuration declares
  cache,     \* the version cache
  out,       \* the output directory
  request,       \* the build that is running
  result,    \* what the last build answered
  spoilt,    \* history: a build was killed, or could not write or remove a post page
  moves

buildVars == <<workTree, posts, blog, tags, declared, cache, out, request, result, spoilt, moves>>

NoOutput == [pages |-> <<>>, sitemap |-> {}, feed |-> {}, manifest |-> {}]
NotBuilding == [phase |-> "idle", target |-> "all", locale |-> None, version |-> None,
         drafts |-> FALSE, next |-> 0, injected |-> {}]

-------------------------------------------------------------------------------
(* What a build works through.                                                *)

(* A filter leaves the one entry that has its name.                           *)
BuildLocales  == IF request.locale = None THEN LocaleList ELSE <<request.locale>>
BuildVersions == IF request.version = None THEN VersionList ELSE <<request.version>>

(* LocaleSegment, and the address of a page: the current version of a page    *)
(* has no version segment.                                                    *)
LocaleSegment(l) == IF Len(LocaleList) > 1 THEN l ELSE ""
PageAddress(l, v, p) ==
  [locale |-> LocaleSegment(l), version |-> IF v = Latest THEN "" ELSE v, page |-> p]
StableAddress(l, p) == PageAddress(l, Latest, p)
SiteAddress(p) == [locale |-> "", version |-> "", page |-> p]

(* The checkout a version is built from: the working tree or the cache.       *)
BuildDir(v) ==
  IF v = Latest THEN [tree |-> workTree, sources |-> declared]
  ELSE [tree |-> cache[v].tree, sources |-> cache[v].sources]

(* ResolveLocaleDocsDir: a locale's directory, or docs/ itself for a single   *)
(* locale, where the build's own post pages count as Markdown too.            *)
ResolveLocaleDocsDir(v, l) ==
  \/ Tree[BuildDir(v).tree].pages[l] # {}
  \/ PlainDocs /\ v = Latest /\ Listing \in DOMAIN blog

(* PostDocsPayloads: a page for every published post, and their listing.      *)
Published(drafts) == IF drafts THEN posts ELSE posts \ Drafts
PostDocsPayloads(drafts) ==
  LET published == Published(drafts)
  IN published \cup (IF published = {} THEN {} ELSE {Listing})

(* ResolveAll: the handwritten root of a locale and the generated root, in    *)
(* one namespace.  The root docs/ of a single plain locale shows the post     *)
(* pages as well.                                                             *)
HandwrittenPages(v, l) ==
  Tree[BuildDir(v).tree].pages[l] \cup (IF PlainDocs /\ v = Latest THEN DOMAIN blog ELSE {})
ResolveAll(v, l) == HandwrittenPages(v, l) \cup Tree[BuildDir(v).tree].generated

(* A walk fails over two pages of one address, or over a directive whose      *)
(* source is not there.                                                       *)
Resolves(v, l) ==
  LET dir == BuildDir(v)
  IN /\ HandwrittenPages(v, l) \cap Tree[dir.tree].generated = {}
     /\ Tree[dir.tree].needs \subseteq dir.sources \cap declared

IsSiteLevelPage(p) == p \in Posts \cup {Listing}

(* PartitionPages, always of the working tree.                                *)
PartitionPages(l) ==
  LET docs == {p \in ResolveAll(Latest, l) : ~IsSiteLevelPage(p)}
  IN [unversioned |-> docs \cap Tree[workTree].unversioned,
      versioned   |-> docs \ Tree[workTree].unversioned]

(* changelogSource: the file is looked for beside docs/, and the archive of a *)
(* tag does not carry it.                                                     *)
HasChangelog(v) == v = Latest /\ Tree[workTree].changelog

(* VersionedHTMLPaths: the pages of a version, as the version picker has it.  *)
VersionedHTMLPaths(v, l) ==
  {p \in Tree[BuildDir(v).tree].pages[l] : p \notin Tree[BuildDir(v).tree].unversioned}
    \cup (IF HasChangelog(v) THEN {Changelog} ELSE {})

(* renderVersionPicker: the versions a page offers; one alone is not offered. *)
Offers(l, p) ==
  LET having == {v \in ToSet(BuildVersions) : p \in VersionedHTMLPaths(v, l)}
  IN IF Cardinality(having) > 1 THEN {PageAddress(l, v, p) : v \in having} ELSE {}

(* BuildSingle: the pages of one pass.  A filter drops every page it does not *)
(* name, the changelog included.                                              *)
VersionedPass(v, l) ==
  LET partition == PartitionPages(l)
      filtered  == partition.unversioned # {}
      all       == ResolveAll(v, l) \cup (IF HasChangelog(v) THEN {Changelog} ELSE {})
  IN IF filtered THEN all \cap partition.versioned ELSE all

(* writePages *)
WritePages(pages, keys, from, offers) ==
  [k \in DOMAIN pages \cup keys |->
     IF k \in keys THEN [from |-> from, offers |-> offers[k]] ELSE pages[k]]

-------------------------------------------------------------------------------
(* The steps of Build.                                                        *)

Ends(answer) == request' = NotBuilding /\ result' = answer
Goes(phase) == request' = [request EXCEPT !.phase = phase, !.next = 1] /\ UNCHANGED result

repository == <<workTree, posts, tags, declared>>

(* Mutant: what sits on the reserved paths is not looked at.                  *)
ChecksNothing == TRUE

(* CheckReservedAuthoredPages, of docs/.                                      *)
CheckReservedAuthoredPages == DOMAIN blog = {}

(* Build up to the point where it touches the output.                         *)
StartBuild(target, locale, version, drafts) ==
  /\ request.phase = "idle"
  /\ IF CheckReservedAuthoredPages
     THEN request' = [NotBuilding EXCEPT !.phase = "clear", !.target = target, !.locale = locale,
                              !.version = version, !.drafts = drafts] /\ result' = "running"
     ELSE Ends("reserved")
  /\ UNCHANGED <<repository, blog, cache, out, spoilt, moves>>

ClearOutput ==
  /\ request.phase = "clear"
  /\ out' = NoOutput
  /\ Goes("inject")
  /\ UNCHANGED <<repository, blog, cache, spoilt, moves>>

(* InjectPostsIntoDocs writes one page after the other, and refuses first     *)
(* what it would overwrite; a write that fails leaves the earlier ones.       *)
InjectPost(p) ==
  /\ request.phase = "inject"
  /\ request.injected = {} => CheckReservedAuthoredPages
  /\ p \in PostDocsPayloads(request.drafts) \ request.injected
  /\ blog' = [q \in DOMAIN blog \cup {p} |-> IF q = p THEN "build" ELSE blog[q]]
  /\ request' = [request EXCEPT !.injected = @ \cup {p}]
  /\ UNCHANGED <<repository, cache, out, result, spoilt, moves>>

InjectionFails ==
  /\ request.phase = "inject" /\ moves < MaxMoves
  /\ request.injected # PostDocsPayloads(request.drafts)
  /\ Ends("failed")
  /\ spoilt' = TRUE /\ moves' = moves + 1
  /\ UNCHANGED <<repository, blog, cache, out>>

(* What follows removes the injected pages when it fails.                     *)
Fails == Goes("failing")

(* Every locale of the build has to have pages, and they have to resolve.     *)
PartitionLocales ==
  /\ request.phase = "inject"
  /\ request.injected = PostDocsPayloads(request.drafts)
  /\ IF request.target = "posts" THEN Goes("site")
     ELSE IF \A l \in ToSet(BuildLocales) : ResolveLocaleDocsDir(Latest, l) /\ Resolves(Latest, l)
     THEN Goes("extract")
     ELSE Fails
  /\ UNCHANGED <<repository, blog, cache, out, spoilt, moves>>

(* ExtractVersionContent, one version after the other: a version whose tag    *)
(* still stands where the cache was filled from is not extracted again.       *)
Extracting(v) ==
  /\ request.phase = "extract" /\ request.next <= Len(BuildVersions)
  /\ v = BuildVersions[request.next]
Extracted == request' = [request EXCEPT !.next = @ + 1]

CacheHit(v) == cache[v].hash = tags[v]

(* RmTree of what another commit left, in the order the directory lists it:   *)
(* the hash or the sources may be gone while the rest still stands.  That     *)
(* some pages go before others is left out: an archive has all or none.       *)
TearArchive(v) ==
  /\ cache[v].hash # None \/ cache[v].sources # {}
  /\ cache' \in {[cache EXCEPT ![v].hash = None], [cache EXCEPT ![v].sources = {}]}
  /\ UNCHANGED <<request, result>>
RemoveArchive(v) ==
  /\ cache' = [cache EXCEPT ![v] = [tree |-> None, sources |-> {}, hash |-> None]]
  /\ request' = [request EXCEPT !.phase = "fill"] /\ UNCHANGED result

EnterCache(v) ==
  /\ Extracting(v)
  /\ \/ v = Latest /\ Extracted /\ UNCHANGED <<cache, result>>
     \/ v # Latest /\ tags[v] = None /\ Fails /\ UNCHANGED cache
     \/ /\ v # Latest /\ tags[v] # None /\ CacheHit(v)
        /\ Extracted /\ UNCHANGED <<cache, result>>
     \/ v # Latest /\ tags[v] # None /\ ~CacheHit(v) /\ TearArchive(v)
     \/ v # Latest /\ tags[v] # None /\ ~CacheHit(v) /\ RemoveArchive(v)
  /\ UNCHANGED <<repository, blog, out, spoilt, moves>>

(* git archive refuses a source path that the tag does not hold.              *)
FillCache(v) ==
  /\ request.phase = "fill" /\ v = BuildVersions[request.next]
  /\ IF cache[v].tree = None
     THEN IF declared \subseteq Tree[tags[v]].sources
          THEN /\ cache' = [cache EXCEPT ![v].tree = tags[v], ![v].sources = declared]
               /\ UNCHANGED <<request, result>>
          ELSE Fails /\ UNCHANGED cache
     ELSE /\ cache' = [cache EXCEPT ![v].hash = tags[v]]
          /\ request' = [request EXCEPT !.phase = "extract", !.next = @ + 1]
          /\ UNCHANGED result
  /\ UNCHANGED <<repository, blog, out, spoilt, moves>>

StartPasses ==
  /\ request.phase = "extract" /\ request.next > Len(BuildVersions)
  /\ Goes("passes")
  /\ UNCHANGED <<repository, blog, cache, out, spoilt, moves>>

(* Locales are the outer loop and versions the inner one.                     *)
LocaleOf(i)  == BuildLocales[((i - 1) \div Len(BuildVersions)) + 1]
VersionOf(i) == BuildVersions[((i - 1) % Len(BuildVersions)) + 1]
PassCount    == Len(BuildLocales) * Len(BuildVersions)

Offering(keys) == [k \in keys |-> {}]

(* One pass: a locale directory or a declared changelog the checkout lacks, a *)
(* directive that does not resolve, and a walk without any page fail it.      *)
BuildVersioned ==
  /\ request.phase = "passes" /\ request.next <= PassCount
  /\ LET l     == LocaleOf(request.next)
         v     == VersionOf(request.next)
         pages == VersionedPass(v, l)
         keys  == {PageAddress(l, v, p) : p \in pages}
     IN IF /\ ResolveLocaleDocsDir(v, l) /\ Resolves(v, l)
           /\ ChangelogDeclared => HasChangelog(v)
           /\ pages = {} => PartitionPages(l).unversioned # {}
        THEN /\ out' = [out EXCEPT
                  !.pages = WritePages(@, keys, BuildDir(v).tree,
                                       [k \in keys |-> Offers(l, k.page)]),
                  !.sitemap = @ \cup (IF v = Latest THEN keys ELSE {})]
             /\ request' = [request EXCEPT !.next = @ + 1] /\ UNCHANGED result
        ELSE Fails /\ UNCHANGED out
  /\ UNCHANGED <<repository, blog, cache, spoilt, moves>>

(* The unversioned pages, once per locale at its version-free mount.          *)
BuildUnversioned ==
  /\ request.phase = "passes" /\ request.next > PassCount
  /\ LET keys == UNION {{StableAddress(l, p) : p \in PartitionPages(l).unversioned} :
                          l \in ToSet(BuildLocales)}
     IN out' = [out EXCEPT !.pages = WritePages(@, keys, workTree, Offering(keys)),
                           !.sitemap = @ \cup keys]
  /\ Goes("site")
  /\ UNCHANGED <<repository, blog, cache, spoilt, moves>>

(* SiteLevelBuildArgs: the post pages, once, with no mount at all; the posts  *)
(* target ends with a manifest of the posts it discovered.                    *)
SiteResolves ==
  /\ Tree[workTree].needs \subseteq declared
  /\ PlainDocs => \A l \in Locales : Resolves(Latest, l)

BuildSiteLevel ==
  /\ request.phase = "site"
  /\ request.injected = {} \/ SiteResolves
  /\ LET keys == {SiteAddress(p) : p \in request.injected}
     IN /\ out' = [out EXCEPT !.pages = WritePages(@, keys, "posts", Offering(keys)),
                              !.sitemap = IF request.target = "posts" THEN {} ELSE
                                          @ \cup {k \in keys : LocaleList[1] \in ToSet(BuildLocales)},
                              !.manifest = IF request.target = "posts"
                                           THEN Published(request.drafts) ELSE {}]
        /\ IF request.target = "posts" THEN Goes("cleanup")
           ELSE IF out.pages = <<>> /\ keys = {} THEN Fails
           ELSE Goes("files")
  /\ UNCHANGED <<repository, blog, cache, spoilt, moves>>

SiteLevelFails ==
  /\ request.phase = "site" /\ request.injected # {} /\ ~SiteResolves
  /\ Fails
  /\ UNCHANGED <<repository, blog, cache, out, spoilt, moves>>

(* The pass the site-level files describe: the current version in the default *)
(* locale, or the last pass when a filter leaves that one out.                *)
latestBuild ==
  LET i == CHOOSE j \in 1 .. PassCount :
             IF \E n \in 1 .. PassCount : LocaleOf(n) = LocaleList[1] /\ VersionOf(n) = Latest
             THEN LocaleOf(j) = LocaleList[1] /\ VersionOf(j) = Latest
             ELSE j = PassCount
  IN [locale |-> LocaleOf(i), version |-> VersionOf(i)]

(* GenerateAtomFeed and GenerateLLMSTxt list stable addresses; the changelog  *)
(* and the listing declare themselves out of the feed.                        *)
FeedEntries ==
  LET l == latestBuild.locale
      versioned   == VersionedPass(latestBuild.version, l) \ {Changelog}
      unversioned == IF LocaleList[1] \in ToSet(BuildLocales)
                     THEN PartitionPages(LocaleList[1]).unversioned ELSE {}
  IN {StableAddress(l, p) : p \in {q \in versioned : ~IsSiteLevelPage(q)}}
       \cup {StableAddress(LocaleList[1], p) : p \in unversioned}
       \cup {SiteAddress(p) : p \in request.injected \ {Listing}}

(* The stub at the root of a site whose pages all have a locale segment.      *)
writeRedirectStubs == IF LocaleSegment(LocaleList[1]) = "" THEN {} ELSE {SiteAddress("index")}

(* A redirect is written in every mount, except over a page.                  *)
writeConfigRedirects ==
  {PageAddress(l, v, r[1]) : l \in ToSet(BuildLocales), v \in ToSet(BuildVersions), r \in Redirects}
    \ DOMAIN out.pages

WriteSiteFiles ==
  /\ request.phase = "files"
  /\ LET stubs == writeRedirectStubs \cup writeConfigRedirects
     IN out' = [out EXCEPT !.pages = WritePages(@, stubs, "stub", Offering(stubs)),
                           !.feed = FeedEntries]
  /\ Goes("index")
  /\ UNCHANGED <<repository, blog, cache, spoilt, moves>>

(* RunPagefind is another program; it runs after the last page.               *)
RunPagefind ==
  /\ request.phase = "index"
  /\ Goes("cleanup") \/ Fails
  /\ UNCHANGED <<repository, blog, cache, out, spoilt, moves>>

(* CleanupInjectedPosts stops at a file it cannot remove.  The full build     *)
(* takes no notice; the posts target fails.                                   *)
Cleanup(left) ==
  /\ request.phase \in {"cleanup", "failing"}
  /\ left \subseteq request.injected
  /\ left # {} => moves < MaxMoves
  /\ blog' = Restrict(blog, DOMAIN blog \ (request.injected \ left))
  /\ spoilt' = (spoilt \/ left # {})
  /\ moves' = IF left = {} THEN moves ELSE moves + 1
  /\ Ends(IF request.phase = "failing" \/ (request.target = "posts" /\ left # {}) THEN "failed"
          ELSE "built")
  /\ UNCHANGED <<repository, cache, out>>

Kill ==
  /\ request.phase # "idle" /\ moves < MaxMoves
  /\ Ends("killed")
  /\ spoilt' = TRUE /\ moves' = moves + 1
  /\ UNCHANGED <<repository, blog, cache, out>>

-------------------------------------------------------------------------------
(* The author, between two builds.                                            *)

Author ==
  /\ request.phase = "idle" /\ moves < MaxMoves
  /\ moves' = moves + 1
  /\ UNCHANGED <<cache, out, request, result>>

Checkout(t) ==
  /\ Author /\ t # workTree /\ workTree' = t
  /\ UNCHANGED <<posts, blog, tags, declared, spoilt>>

MoveTag(v, t) ==
  /\ Author /\ t # tags[v] /\ tags' = [tags EXCEPT ![v] = t]
  /\ UNCHANGED <<workTree, posts, blog, declared, spoilt>>

DeclareSources(paths) ==
  /\ Author /\ paths # declared /\ declared' = paths
  /\ UNCHANGED <<workTree, posts, blog, tags, spoilt>>

ChangePosts(set) ==
  /\ Author /\ set # posts /\ posts' = set
  /\ UNCHANGED <<workTree, blog, tags, declared, spoilt>>

(* An author writes a page where posts go, or removes what sits there.        *)
WriteBlogPage(p) ==
  /\ Author /\ blog' = [q \in DOMAIN blog \cup {p} |-> IF q = p THEN "author" ELSE blog[q]]
  /\ UNCHANGED <<workTree, posts, tags, declared, spoilt>>

ClearBlog ==
  /\ Author /\ blog # <<>> /\ blog' = <<>> /\ spoilt' = FALSE
  /\ UNCHANGED <<workTree, posts, tags, declared>>

BuildInit ==
  /\ workTree \in Trees
  /\ posts \in SUBSET Posts
  /\ blog = <<>>
  /\ tags \in [SiteVersions \ {Latest} -> Trees]
  /\ declared \in SUBSET Sources
  /\ cache = [v \in SiteVersions \ {Latest} |-> [tree |-> None, sources |-> {}, hash |-> None]]
  /\ out = NoOutput
  /\ request = NotBuilding /\ result = "none"
  /\ spoilt = FALSE /\ moves = 0

BuildNext ==
  \/ \E target \in {"all", "posts"}, drafts \in {FALSE, Drafts # {}}, l \in Locales \cup {None},
        v \in SiteVersions \cup {None} : StartBuild(target, l, v, drafts)
  \/ ClearOutput \/ InjectionFails \/ PartitionLocales
  \/ \E p \in Posts \cup {Listing} : InjectPost(p)
  \/ \E v \in SiteVersions : EnterCache(v) \/ FillCache(v)
  \/ StartPasses \/ BuildVersioned \/ BuildUnversioned \/ BuildSiteLevel \/ SiteLevelFails
  \/ WriteSiteFiles \/ RunPagefind \/ Kill
  \/ \E left \in SUBSET request.injected : Cleanup(left)
  \/ \E t \in Trees : Checkout(t)
  \/ \E v \in SiteVersions \ {Latest}, t \in Trees \cup {None} : MoveTag(v, t)
  \/ \E paths \in SUBSET Sources : DeclareSources(paths)
  \/ \E set \in SUBSET Posts : ChangePosts(set)
  \/ \E p \in {Listing} : WriteBlogPage(p)
  \/ ClearBlog

BuildSpec == BuildInit /\ [][BuildNext]_buildVars

-------------------------------------------------------------------------------
(* Properties.                                                                *)

Finished == request.phase = "cleanup"
Full == request.target = "all" /\ request.locale = None /\ request.version = None

BuildTypeOK ==
  /\ workTree \in Trees /\ posts \subseteq Posts /\ declared \subseteq Sources
  /\ DOMAIN blog \subseteq Posts \cup {Listing}
  /\ tags \in [SiteVersions \ {Latest} -> Trees \cup {None}]
  /\ \A v \in SiteVersions \ {Latest} : /\ cache[v].tree \in Trees \cup {None}
                                     /\ cache[v].hash \in {None, cache[v].tree}
  /\ request.injected \subseteq DOMAIN blog
  /\ out.manifest \subseteq Posts

(* Every page of the working tree is at its stable address, in every locale   *)
(* that has it and with the working tree's content, and every published post  *)
(* is at its own (the comments on the locale partitions in Build).            *)
NothingIsLost ==
  Finished /\ Full =>
    /\ \A l \in Locales : \A p \in Tree[workTree].pages[l] \cup Tree[workTree].generated :
         /\ StableAddress(l, p) \in DOMAIN out.pages
         /\ out.pages[StableAddress(l, p)].from = workTree
    /\ \A p \in PostDocsPayloads(request.drafts) :
         SiteAddress(p) \in DOMAIN out.pages /\ out.pages[SiteAddress(p)].from = "posts"

(* A page never offers a version of itself that was not built                 *)
(* (renderVersionPicker: the link would point at a file no build wrote).      *)
PickersLand ==
  Finished => \A k \in DOMAIN out.pages : out.pages[k].offers \subseteq DOMAIN out.pages

(* The pages of an archived version are those of the commit its tag points at *)
(* now, wherever the tag stood when the cache was filled and whatever a build *)
(* stopped before it had filled or emptied the cache (ExtractVersionContent). *)
ArchivesAreOfTheirTags ==
  Finished => \A k \in DOMAIN out.pages :
    k.version # "" /\ out.pages[k].from # "stub" => out.pages[k].from = tags[k.version]

(* The sitemap lists the pages at stable addresses, all of them and nothing   *)
(* else (comment in buildBody).                                               *)
SitemapIsTheSite ==
  Finished /\ Full =>
    out.sitemap = {k \in DOMAIN out.pages : k.version = "" /\ out.pages[k].from # "stub"}

(* Every address in the feed and in llms.txt is a page of this build.         *)
FeedLands == Finished /\ Full => out.feed \subseteq DOMAIN out.pages

(* A build neither overwrites nor deletes a page its author put where posts   *)
(* go (InjectPostsIntoDocs: structurally impossible).                         *)
AuthoredPagesSurvive ==
  [][\A p \in DOMAIN blog : blog[p] = "author" /\ request.phase # "idle"
       => p \in DOMAIN blog' /\ blog'[p] = "author"]_buildVars

(* Once a build has ended, well or not, no page of its own is left in docs/,  *)
(* unless it was killed or could not write or remove one.                     *)
DocsAreLeftClean ==
  request.phase = "idle" /\ ~spoilt => \A p \in DOMAIN blog : blog[p] = "author"

(* A build writes the site of the tree, the tags and the posts it was given,  *)
(* whatever earlier builds left, and gives the docs tree back as it was.      *)
BuildsAreOfTheirSources ==
  /\ []BuildTypeOK
  /\ [](NothingIsLost /\ PickersLand /\ ArchivesAreOfTheirTags /\ SitemapIsTheSite /\ FeedLands)
  /\ []DocsAreLeftClean
  /\ AuthoredPagesSurvive
===============================================================================
