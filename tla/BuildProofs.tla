------------------------------ MODULE BuildProofs ------------------------------
(*****************************************************************************)
(* Why a finished build is of its sources, whatever earlier builds left in   *)
(* the cache, and why docs/ comes back as it was.  The inductive invariant   *)
(* is BuildInv: what each step of Build has established for the next one.    *)
(*****************************************************************************)
EXTENDS SiteBuild, Integers, TLAPS
Phases == {"idle", "clear", "inject", "extract", "fill", "passes", "site", "files", "index",
           "cleanup", "failing"}
Older == SiteVersions \ {Latest}
Reserved == Posts \cup {Listing}

IsOutput(o) == o = [pages |-> o.pages, sitemap |-> o.sitemap, feed |-> o.feed, manifest |-> o.manifest]

IsRequest(r) ==
    r \in [phase : Phases, target : {"all", "posts"}, locale : Locales \cup {None},
           version : SiteVersions \cup {None}, drafts : BOOLEAN, next : Nat, injected : SUBSET Reserved]

KindInv ==
    /\ workTree \in Trees /\ posts \subseteq Posts /\ declared \subseteq Sources
    /\ tags \in [Older -> Trees \cup {None}] /\ spoilt \in BOOLEAN
    /\ cache \in [Older -> [tree : Trees \cup {None}, sources : SUBSET Sources,
                            hash : Trees \cup {None}]]
    /\ \A v \in Older : cache[v].hash \in {None, cache[v].tree}
    /\ IsRequest(request) /\ IsOutput(out) /\ out.manifest \subseteq Posts
    /\ DOMAIN blog \subseteq Reserved

\* While a build runs, what is on the reserved paths is what it put there.
Carrying == {"extract", "fill", "passes", "site", "files", "index", "cleanup"}

DocsInv ==
    /\ request.phase = "idle" =>
         request.injected = {} /\ (~spoilt => \A p \in DOMAIN blog : blog[p] = "author")
    /\ request.phase # "idle" =>
         DOMAIN blog = request.injected /\ \A p \in request.injected : blog[p] = "build"
    /\ request.phase = "clear" => request.injected = {}
    /\ request.phase \in Carrying => request.injected = PostDocsPayloads(request.drafts)

\* An older version is in the cache as its tag has it.
Extant(v) == v # Latest => tags[v] # None /\ cache[v].hash = tags[v]

CacheInv ==
    /\ request.phase \in {"extract", "fill"} =>
         /\ request.next > 0
         /\ \A j \in 1 .. Len(BuildVersions) : j < request.next => Extant(BuildVersions[j])
    /\ request.phase = "fill" =>
         /\ request.next \in 1 .. Len(BuildVersions)
         /\ LET v == BuildVersions[request.next]
            IN /\ v # Latest /\ tags[v] # None
               /\ cache[v].hash = None /\ cache[v].tree \in {None, tags[v]}
    /\ request.phase = "passes" => \A v \in ToSet(BuildVersions) : Extant(v)

\* The output while the passes run: what those before the next one wrote.
PassKeys(i) == {PageAddress(LocaleOf(i), VersionOf(i), p) : p \in VersionedPass(VersionOf(i), LocaleOf(i))}
PageOf(i, k) == [from |-> BuildDir(VersionOf(i)).tree, offers |-> Offers(LocaleOf(i), k.page)]

PassesInv ==
    /\ request.phase \in {"inject", "extract", "fill"} => out = NoOutput
    /\ request.phase = "passes" =>
         /\ request.next \in 1 .. PassCount + 1
         /\ DOMAIN out.pages = UNION {PassKeys(i) : i \in 1 .. request.next - 1}
         /\ \A i \in 1 .. request.next - 1 : \A k \in PassKeys(i) : out.pages[k] = PageOf(i, k)
         /\ out.sitemap = {k \in DOMAIN out.pages : k.version = ""}

\* The output once the passes are done.
Landing ==
    \A k \in DOMAIN out.pages :
      /\ out.pages[k].offers \subseteq DOMAIN out.pages
      /\ k.version # "" /\ out.pages[k].from # "stub" => out.pages[k].from = tags[k.version]

Placed ==
    /\ \A l \in Locales : \A p \in Tree[workTree].pages[l] \cup Tree[workTree].generated :
         /\ StableAddress(l, p) \in DOMAIN out.pages
         /\ out.pages[StableAddress(l, p)].from = workTree
    /\ out.sitemap = {k \in DOMAIN out.pages : k.version = "" /\ out.pages[k].from # "stub"}

\* What the feed will list, and no page where the stub of the root goes.
Listed ==
    /\ \A l \in Locales : \A p \in VersionedPass(Latest, l) \cup PartitionPages(l).unversioned :
         StableAddress(l, p) \in DOMAIN out.pages
    /\ writeRedirectStubs \cap DOMAIN out.pages = {}

PostsPlaced ==
    \A p \in request.injected :
      SiteAddress(p) \in DOMAIN out.pages /\ out.pages[SiteAddress(p)].from = "posts"

Done == {"site", "files", "index", "cleanup"}

SiteInv ==
    /\ request.phase \in Done => Landing
    /\ request.phase \in Done /\ Full => Placed
    /\ request.phase \in {"site", "files"} /\ Full => Listed
    /\ request.phase \in Done \ {"site"} /\ Full => PostsPlaced
    /\ request.phase \in {"index", "cleanup"} /\ Full => out.feed \subseteq DOMAIN out.pages

BuildInv == KindInv /\ DocsInv /\ CacheInv /\ PassesInv /\ SiteInv
-----------------------------------------------------------------------------
\* Passes are pairs of a locale and a version.

LEMMA PairAt ==
    ASSUME NEW m \in Nat, NEW n \in Nat \ {0}, NEW i \in 1 .. m * n
    PROVE  ((i - 1) \div n) + 1 \in 1 .. m /\ ((i - 1) % n) + 1 \in 1 .. n
<1> DEFINE q == (i - 1) \div n
           r == (i - 1) % n
<1>1. i - 1 = n * q + r /\ r \in 0 .. n - 1 /\ q \in Int
  BY Z3
<1> HIDE DEF q, r
<1>2. q >= 0
  <2>1. SUFFICES ASSUME q <= -1 PROVE FALSE
    BY <1>1
  <2>2. n * q <= - n
    BY <1>1, <2>1
  <2> QED
    BY <1>1, <2>2
<1>3. q <= m - 1
  <2>1. SUFFICES ASSUME q >= m PROVE FALSE
    BY <1>1
  <2>2. n * q >= n * m
    BY <1>1, <2>1
  <2> QED
    BY <1>1, <2>2
<1> QED
  BY <1>1, <1>2, <1>3 DEF q, r

Paired(m, n, a, b) == \E i \in 1 .. m * n : ((i - 1) \div n) + 1 = a /\ ((i - 1) % n) + 1 = b

LEMMA PairFor ==
    ASSUME NEW m \in Nat, NEW n \in Nat \ {0}, NEW a \in 1 .. m, NEW b \in 1 .. n
    PROVE  Paired(m, n, a, b)
<1> DEFINE i == (a - 1) * n + b
           q == (i - 1) \div n
           r == (i - 1) % n
<1>1. i \in Int /\ i - 1 = (a - 1) * n + (b - 1)
  OBVIOUS
<1>2. i - 1 = n * q + r /\ r \in 0 .. n - 1 /\ q \in Int
  BY <1>1, Z3
<1>3. i \in 1 .. m * n
  <2>1. (a - 1) * n >= 0 /\ (a - 1) * n <= (m - 1) * n
    OBVIOUS
  <2> QED
    BY <1>1, <2>1
<1> HIDE DEF q, r
<1>4. q = a - 1
  <2>1. n * (q - (a - 1)) = (b - 1) - r
    BY <1>1, <1>2
  <2> HIDE DEF i
  <2>2. CASE q >= a
    <3>1. n * (q - (a - 1)) >= n
      BY <1>2, <2>2
    <3> QED
      BY <1>2, <2>1, <3>1
  <2>3. CASE q <= a - 2
    <3>1. n * (q - (a - 1)) <= - n
      BY <1>2, <2>3
    <3> QED
      BY <1>2, <2>1, <3>1
  <2> QED
    BY <1>2, <2>2, <2>3
<1>5. r = b - 1
  BY <1>1, <1>2, <1>4
<1>6. ((i - 1) \div n) + 1 = a /\ ((i - 1) % n) + 1 = b
  BY <1>4, <1>5 DEF q, r
<1> HIDE DEF i
<1> QED
  BY <1>3, <1>6, Zenon DEF Paired

LEMMA ListsAreNotEmpty ==
    /\ LocaleList \in Seq(Locales) /\ Len(LocaleList) \in Nat \ {0} /\ LocaleList[1] \in Locales
    /\ VersionList \in Seq(SiteVersions) /\ Len(VersionList) \in Nat \ {0} /\ Latest \in SiteVersions
<1>1. LocaleList \in Seq(Locales) /\ VersionList \in Seq(SiteVersions)
  BY ListsAreConfigured
<1>2. Len(LocaleList) > 0 /\ Len(VersionList) > 0
  BY ListsAreConfigured
<1>3. Len(LocaleList) \in Nat \ {0} /\ Len(VersionList) \in Nat \ {0}
  BY <1>1, <1>2
<1>4. LocaleList[1] \in Locales
  BY <1>1, <1>3
<1>5. VersionList[Len(VersionList)] \in SiteVersions
  BY <1>1, <1>3
<1> QED
  BY <1>1, <1>3, <1>4, <1>5 DEF Latest, Last

LEMMA ListsAre ==
    ASSUME KindInv
    PROVE  /\ BuildLocales \in Seq(Locales) /\ Len(BuildLocales) \in Nat \ {0}
           /\ BuildVersions \in Seq(SiteVersions) /\ Len(BuildVersions) \in Nat \ {0}
           /\ Full => ToSet(BuildLocales) = Locales /\ ToSet(BuildVersions) = SiteVersions
<1>0. request.locale \in Locales \cup {None} /\ request.version \in SiteVersions \cup {None}
  BY DEF KindInv, IsRequest
<1>1. BuildLocales \in Seq(Locales) /\ Len(BuildLocales) \in Nat \ {0}
  <2>1. CASE request.locale = None
    <3>1. BuildLocales = LocaleList
      BY <2>1 DEF BuildLocales
    <3> QED
      BY <3>1, ListsAreNotEmpty
  <2>2. CASE request.locale # None
    <3>1. BuildLocales = <<request.locale>> /\ request.locale \in Locales
      BY <1>0, <2>2 DEF BuildLocales
    <3> QED
      BY <3>1
  <2> QED
    BY <2>1, <2>2
<1>2. BuildVersions \in Seq(SiteVersions) /\ Len(BuildVersions) \in Nat \ {0}
  <2>1. CASE request.version = None
    <3>1. BuildVersions = VersionList
      BY <2>1 DEF BuildVersions
    <3> QED
      BY <3>1, ListsAreNotEmpty
  <2>2. CASE request.version # None
    <3>1. BuildVersions = <<request.version>> /\ request.version \in SiteVersions
      BY <1>0, <2>2 DEF BuildVersions
    <3> QED
      BY <3>1
  <2> QED
    BY <2>1, <2>2
<1> QED
  BY <1>1, <1>2 DEF Full, BuildLocales, BuildVersions, Locales, SiteVersions

LEMMA PassesAre ==
    ASSUME KindInv
    PROVE  /\ PassCount \in Nat
           /\ \A i \in 1 .. PassCount :
                /\ LocaleOf(i) \in ToSet(BuildLocales) /\ LocaleOf(i) \in Locales
                /\ VersionOf(i) \in ToSet(BuildVersions) /\ VersionOf(i) \in SiteVersions
           /\ \A l \in ToSet(BuildLocales), v \in ToSet(BuildVersions) :
                \E i \in 1 .. PassCount : LocaleOf(i) = l /\ VersionOf(i) = v
<1> DEFINE m == Len(BuildLocales)
           n == Len(BuildVersions)
<1>1. m \in Nat /\ n \in Nat \ {0} /\ BuildLocales \in Seq(Locales) /\ BuildVersions \in Seq(SiteVersions)
  BY ListsAre
<1>2. PassCount = m * n /\ m * n \in Nat
  BY <1>1 DEF PassCount
<1>3. \A i : LocaleOf(i) = BuildLocales[((i - 1) \div n) + 1] /\ VersionOf(i) = BuildVersions[((i - 1) % n) + 1]
  BY DEF LocaleOf, VersionOf
<1>4. \A a \in 1 .. m : BuildLocales[a] \in Locales /\ BuildLocales[a] \in ToSet(BuildLocales)
  BY <1>1 DEF ToSet
<1>5. \A b \in 1 .. n : BuildVersions[b] \in SiteVersions /\ BuildVersions[b] \in ToSet(BuildVersions)
  BY <1>1 DEF ToSet
<1>6. /\ ToSet(BuildLocales) = {BuildLocales[a] : a \in 1 .. m}
      /\ ToSet(BuildVersions) = {BuildVersions[b] : b \in 1 .. n}
  BY <1>1 DEF ToSet
<1> HIDE DEF m, n
<1>7. ASSUME NEW i \in 1 .. PassCount
      PROVE  /\ LocaleOf(i) \in ToSet(BuildLocales) /\ LocaleOf(i) \in Locales
             /\ VersionOf(i) \in ToSet(BuildVersions) /\ VersionOf(i) \in SiteVersions
  <2>1. ((i - 1) \div n) + 1 \in 1 .. m /\ ((i - 1) % n) + 1 \in 1 .. n
    BY <1>1, <1>2, PairAt
  <2> QED
    BY <1>3, <1>4, <1>5, <2>1
<1>8. ASSUME NEW l \in ToSet(BuildLocales), NEW v \in ToSet(BuildVersions)
      PROVE  \E i \in 1 .. PassCount : LocaleOf(i) = l /\ VersionOf(i) = v
  <2>1. PICK a \in 1 .. m, b \in 1 .. n : l = BuildLocales[a] /\ v = BuildVersions[b]
    BY <1>6
  <2>2. Paired(m, n, a, b)
    BY <1>1, PairFor
  <2>3. PICK i \in 1 .. m * n : ((i - 1) \div n) + 1 = a /\ ((i - 1) % n) + 1 = b
    BY <2>2 DEF Paired
  <2>4. LocaleOf(i) = l /\ VersionOf(i) = v
    BY <1>3, <2>1, <2>3
  <2> QED
    BY <1>2, <2>4
<1> QED
  BY <1>2, <1>7, <1>8

\* An address says which page of which version and locale it is of.
LEMMA AddressesDiffer ==
    ASSUME NEW l \in Locales, NEW m \in Locales, NEW v \in SiteVersions, NEW w \in SiteVersions,
           NEW p, NEW q, PageAddress(l, v, p) = PageAddress(m, w, q)
    PROVE  l = m /\ v = w /\ p = q
<1>1. p = q /\ LocaleSegment(l) = LocaleSegment(m)
      /\ (IF v = Latest THEN "" ELSE v) = (IF w = Latest THEN "" ELSE w)
  BY DEF PageAddress
<1>2. v = w
  <2>1. "" \notin SiteVersions \ {Latest}
    BY ListsAreConfigured
  <2> QED
    BY <1>1, <2>1
<1>3. l = m
  <2>1. CASE Len(LocaleList) > 1
    BY <1>1, <2>1 DEF LocaleSegment
  <2>2. CASE ~(Len(LocaleList) > 1)
    <3>1. LocaleList \in Seq(Locales) /\ Len(LocaleList) \in Nat \ {0}
      BY ListsAreNotEmpty
    <3>2. Len(LocaleList) = 1
      <4> DEFINE n == Len(LocaleList)
      <4>1. n \in Nat \ {0} /\ ~(n > 1)
        BY <2>2, <3>1, Zenon
      <4> HIDE DEF n
      <4>2. n = 1
        BY <4>1
      <4> QED
        BY <4>2, Zenon DEF n
    <3>3. DOMAIN LocaleList = {1}
      BY <3>1, <3>2
    <3>4. Locales = {LocaleList[1]}
      BY <3>3 DEF Locales, ToSet
    <3> QED
      BY <3>4
  <2> QED
    BY <2>1, <2>2
<1> QED
  BY <1>1, <1>2, <1>3

LEMMA AddressParts ==
    ASSUME NEW l \in Locales, NEW v \in SiteVersions, NEW p
    PROVE  /\ PageAddress(l, v, p).page = p /\ PageAddress(l, v, p).locale = LocaleSegment(l)
           /\ PageAddress(l, v, p).version = (IF v = Latest THEN "" ELSE v)
           /\ PageAddress(l, v, p).version = "" <=> v = Latest
           /\ StableAddress(l, p) = PageAddress(l, Latest, p) /\ StableAddress(l, p).version = ""
           /\ StableAddress(l, p).page = p
<1>1. "" \notin SiteVersions \ {Latest}
  BY ListsAreConfigured
<1> QED
  BY <1>1 DEF PageAddress, StableAddress
-----------------------------------------------------------------------------
\* What a step leaves alone: the operators that read only the variables it
\* does not change.

FiltersKept == request'.locale = request.locale /\ request'.version = request.version
SourcesKept ==
    /\ UNCHANGED <<workTree, declared, cache, blog>>
    /\ FiltersKept

SameLists ==
    /\ BuildLocales' = BuildLocales /\ BuildVersions' = BuildVersions
    /\ PassCount' = PassCount
    /\ \A i : LocaleOf(i)' = LocaleOf(i) /\ VersionOf(i)' = VersionOf(i)

LEMMA ListsKept == FiltersKept => SameLists
<1> SUFFICES ASSUME FiltersKept PROVE SameLists
  OBVIOUS
<1>1. BuildLocales' = BuildLocales /\ BuildVersions' = BuildVersions
  BY DEF FiltersKept, BuildLocales, BuildVersions
<1> QED
  BY <1>1, Zenon DEF SameLists, PassCount, LocaleOf, VersionOf

SamePages ==
    /\ \A v : BuildDir(v)' = BuildDir(v) /\ HasChangelog(v)' = HasChangelog(v)
    /\ \A v, l : /\ ResolveAll(v, l)' = ResolveAll(v, l) /\ Resolves(v, l)' = Resolves(v, l)
                 /\ VersionedPass(v, l)' = VersionedPass(v, l)
                 /\ VersionedHTMLPaths(v, l)' = VersionedHTMLPaths(v, l)
    /\ \A l : PartitionPages(l)' = PartitionPages(l)
    /\ \A l, p : Offers(l, p)' = Offers(l, p)
    /\ \A i : PassKeys(i)' = PassKeys(i)
    /\ \A i, k : PageOf(i, k)' = PageOf(i, k)

LEMMA PagesKept == SourcesKept => SamePages /\ SameLists
<1> SUFFICES ASSUME SourcesKept PROVE SamePages /\ SameLists
  OBVIOUS
<1>0. SameLists
  BY ListsKept DEF SourcesKept
<1>1. \A v : BuildDir(v)' = BuildDir(v) /\ HasChangelog(v)' = HasChangelog(v)
  BY DEF SourcesKept, BuildDir, HasChangelog
<1>2. \A v, l : HandwrittenPages(v, l)' = HandwrittenPages(v, l)
  BY <1>1, Zenon DEF SourcesKept, HandwrittenPages
<1>3. \A v, l : ResolveAll(v, l)' = ResolveAll(v, l) /\ Resolves(v, l)' = Resolves(v, l)
  BY <1>1, <1>2, Zenon DEF SourcesKept, ResolveAll, Resolves
<1>4. \A l : PartitionPages(l)' = PartitionPages(l)
  BY <1>3, Zenon DEF SourcesKept, PartitionPages
<1>5. \A v, l : VersionedPass(v, l)' = VersionedPass(v, l)
  BY <1>1, <1>3, <1>4, Zenon DEF VersionedPass
<1>6. \A v, l : VersionedHTMLPaths(v, l)' = VersionedHTMLPaths(v, l)
  BY <1>1, Zenon DEF VersionedHTMLPaths
<1>7. \A l, p : Offers(l, p)' = Offers(l, p)
  BY <1>0, <1>6, Zenon DEF Offers, SameLists
<1>8. \A i : PassKeys(i)' = PassKeys(i)
  BY <1>0, <1>5, Zenon DEF PassKeys, SameLists
<1>9. \A i, k : PageOf(i, k)' = PageOf(i, k)
  BY <1>0, <1>1, <1>7, Zenon DEF PageOf, SameLists
<1> QED
  BY <1>0, <1>1, <1>3, <1>4, <1>5, <1>6, <1>7, <1>8, <1>9, Zenon DEF SamePages

LEMMA PhaseOnly ==
    ASSUME KindInv, NEW phase \in Phases, NEW next \in Nat,
           request' = [request EXCEPT !.phase = phase, !.next = next]
    PROVE  /\ request'.phase = phase /\ request'.next = next /\ FiltersKept
           /\ request'.injected = request.injected /\ request'.target = request.target
           /\ request'.drafts = request.drafts
           /\ IsRequest(request')
BY DEF KindInv, FiltersKept, IsRequest

\* Before the output is there, and once a build has failed, the output is not looked at.
LEMMA Resting ==
    ASSUME request'.phase \in {"idle", "clear", "failing"}
    PROVE  CacheInv' /\ PassesInv' /\ SiteInv'
BY DEF CacheInv, PassesInv, SiteInv, Done

LEMMA Ended ==
    ASSUME request' = NotBuilding
    PROVE  /\ request'.phase = "idle" /\ request'.injected = {}
           /\ IsRequest(request')
BY DEF NotBuilding, Phases, IsRequest
-----------------------------------------------------------------------------
\* The author, and the steps that end a build or begin one.

LEMMA AuthorKeeps ==
    ASSUME BuildInv, Author, workTree' \in Trees, posts' \subseteq Posts, declared' \subseteq Sources,
           tags' \in [Older -> Trees \cup {None}], spoilt' \in BOOLEAN, DOMAIN blog' \subseteq Reserved,
           ~spoilt' => \A p \in DOMAIN blog' : blog'[p] = "author"
    PROVE  BuildInv'
<1>1. request.phase = "idle" /\ UNCHANGED <<cache, out, request>> /\ KindInv /\ DocsInv
  BY DEF Author, BuildInv
<1>2. KindInv'
  BY <1>1 DEF KindInv
<1>3. DocsInv'
  BY <1>1 DEF DocsInv, Carrying
<1>4. CacheInv' /\ PassesInv' /\ SiteInv'
  BY <1>1, Resting
<1> QED
  BY <1>2, <1>3, <1>4 DEF BuildInv

LEMMA AuthorActs ==
    ASSUME BuildInv,
           \/ \E t \in Trees : Checkout(t)
           \/ \E v \in Older, t \in Trees \cup {None} : MoveTag(v, t)
           \/ \E paths \in SUBSET Sources : DeclareSources(paths)
           \/ \E set \in SUBSET Posts : ChangePosts(set)
           \/ \E p \in {Listing} : WriteBlogPage(p)
           \/ ClearBlog
    PROVE  BuildInv'
<1>0. KindInv /\ DocsInv
  BY DEF BuildInv
<1>1. CASE \E t \in Trees : Checkout(t)
  BY <1>0, <1>1, AuthorKeeps DEF Checkout, Author, KindInv, DocsInv
<1>2. CASE \E v \in Older, t \in Trees \cup {None} : MoveTag(v, t)
  BY <1>0, <1>2, AuthorKeeps DEF MoveTag, Author, KindInv, DocsInv
<1>3. CASE \E paths \in SUBSET Sources : DeclareSources(paths)
  BY <1>0, <1>3, AuthorKeeps DEF DeclareSources, Author, KindInv, DocsInv
<1>4. CASE \E set \in SUBSET Posts : ChangePosts(set)
  BY <1>0, <1>4, AuthorKeeps DEF ChangePosts, Author, KindInv, DocsInv
<1>5. CASE WriteBlogPage(Listing)
  <2>1. DOMAIN blog' = DOMAIN blog \cup {Listing}
        /\ \A q \in DOMAIN blog' : blog'[q] = IF q = Listing THEN "author" ELSE blog[q]
    BY <1>5 DEF WriteBlogPage
  <2>2. DOMAIN blog' \subseteq Reserved
    BY <1>0, <2>1 DEF KindInv, Reserved
  <2> QED
    BY <1>0, <1>5, <2>1, <2>2, AuthorKeeps DEF WriteBlogPage, Author, KindInv, DocsInv
<1>6. CASE ClearBlog
  <2>1. DOMAIN blog' = {}
    BY <1>6 DEF ClearBlog
  <2> QED
    BY <1>0, <1>6, <2>1, AuthorKeeps DEF ClearBlog, Author, KindInv
<1> QED
  BY <1>1, <1>2, <1>3, <1>4, <1>5, <1>6

LEMMA StartBuildKeeps ==
    ASSUME BuildInv, NEW target \in {"all", "posts"}, NEW drafts \in BOOLEAN,
           NEW l \in Locales \cup {None}, NEW v \in SiteVersions \cup {None},
           StartBuild(target, l, v, drafts)
    PROVE  BuildInv'
<1>0. KindInv /\ DocsInv /\ request.phase = "idle" /\ UNCHANGED <<workTree, posts, tags, declared, blog, cache, out, spoilt>>
  BY DEF BuildInv, StartBuild, repository
<1>1. CASE DOMAIN blog = {}
  <2>1. request' = [NotBuilding EXCEPT !.phase = "clear", !.target = target, !.locale = l,
                              !.version = v, !.drafts = drafts]
    BY <1>1 DEF StartBuild, CheckReservedAuthoredPages
  <2>2. request'.phase = "clear" /\ request'.injected = {}
        /\ IsRequest(request')
    BY <2>1 DEF NotBuilding, Phases, IsRequest
  <2>3. KindInv'
    BY <1>0, <2>2 DEF KindInv
  <2>4. DocsInv'
    BY <1>0, <1>1, <2>2 DEF DocsInv, Carrying
  <2> QED
    BY <2>2, <2>3, <2>4, Resting DEF BuildInv
<1>2. CASE DOMAIN blog # {}
  <2>1. request' = NotBuilding
    BY <1>2 DEF StartBuild, CheckReservedAuthoredPages, Ends
  <2>2. KindInv'
    BY <1>0, <2>1, Ended DEF KindInv
  <2>3. DocsInv'
    BY <1>0, <2>1, Ended DEF DocsInv, Carrying
  <2> QED
    BY <2>1, <2>2, <2>3, Ended, Resting DEF BuildInv
<1> QED
  BY <1>1, <1>2

LEMMA Stops ==
    ASSUME BuildInv, Ends("killed") \/ Ends("failed"), spoilt' = TRUE,
           UNCHANGED <<repository, blog, cache, out>>
    PROVE  BuildInv'
<1>0. KindInv /\ request' = NotBuilding /\ UNCHANGED <<workTree, posts, tags, declared, blog, cache, out>>
  BY DEF BuildInv, Ends, repository
<1>1. KindInv'
  BY <1>0, Ended DEF KindInv
<1>2. DocsInv'
  BY <1>0, Ended DEF DocsInv, Carrying
<1> QED
  BY <1>0, <1>1, <1>2, Ended, Resting DEF BuildInv

LEMMA CleanupKeeps ==
    ASSUME BuildInv, NEW left \in SUBSET request.injected, Cleanup(left)
    PROVE  BuildInv'
<1>0. /\ KindInv /\ DocsInv /\ request' = NotBuilding
      /\ UNCHANGED <<workTree, posts, tags, declared, cache, out>>
      /\ request.phase \in {"cleanup", "failing"} /\ spoilt' = (spoilt \/ left # {})
  BY DEF BuildInv, Cleanup, Ends, repository
<1>1. DOMAIN blog = request.injected /\ DOMAIN blog' = DOMAIN blog \ (request.injected \ left)
  BY <1>0 DEF DocsInv, Cleanup, Restrict
<1>2. KindInv'
  BY <1>0, <1>1, Ended DEF KindInv
<1>3. DocsInv'
  <2>1. ~spoilt' => DOMAIN blog' = {}
    BY <1>0, <1>1
  <2> QED
    BY <1>0, <2>1, Ended DEF DocsInv, Carrying
<1> QED
  BY <1>0, <1>2, <1>3, Ended, Resting DEF BuildInv

\* A step after which the build takes down what it wrote and answers that it failed.
LEMMA FailsKeeps ==
    ASSUME BuildInv, Fails, request.phase # "idle", UNCHANGED <<workTree, posts, tags, declared, blog, spoilt>>,
           KindInv'
    PROVE  BuildInv'
<1>0. KindInv /\ DocsInv /\ request' = [request EXCEPT !.phase = "failing", !.next = 1]
  BY DEF BuildInv, Fails, Goes
<1>1. request'.phase = "failing" /\ request'.injected = request.injected
  BY <1>0 DEF KindInv
<1>2. DocsInv'
  BY <1>0, <1>1 DEF DocsInv, Carrying
<1> QED
  BY <1>1, <1>2, Resting DEF BuildInv
-----------------------------------------------------------------------------
\* The steps up to the passes.

LEMMA EmptyOutput == DOMAIN NoOutput.pages = {} /\ NoOutput.sitemap = {} /\ NoOutput.manifest = {}
BY DEF NoOutput

LEMMA ClearOutputKeeps ==
    ASSUME BuildInv, ClearOutput
    PROVE  BuildInv'
<1>0. /\ KindInv /\ DocsInv /\ request.phase = "clear" /\ out' = NoOutput
      /\ UNCHANGED <<workTree, posts, tags, declared, blog, cache, spoilt>>
      /\ request' = [request EXCEPT !.phase = "inject", !.next = 1]
  BY DEF BuildInv, ClearOutput, repository, Goes
<1>1. request'.phase = "inject" /\ request'.injected = request.injected /\ FiltersKept
      /\ IsRequest(request')
  BY <1>0, PhaseOnly DEF Phases
<1>2. KindInv'
  <2>1. IsOutput(out') /\ out'.manifest = {}
    BY <1>0 DEF NoOutput, IsOutput
  <2> QED
    BY <1>0, <1>1, <2>1 DEF KindInv
<1>3. DocsInv'
  BY <1>0, <1>1 DEF DocsInv, Carrying
<1>4. CacheInv' /\ PassesInv' /\ SiteInv'
  BY <1>0, <1>1 DEF CacheInv, PassesInv, SiteInv, Done
<1> QED
  BY <1>2, <1>3, <1>4 DEF BuildInv

LEMMA InjectPostKeeps ==
    ASSUME BuildInv, NEW p \in Reserved, InjectPost(p)
    PROVE  BuildInv'
<1>0. /\ KindInv /\ DocsInv /\ PassesInv /\ request.phase = "inject"
      /\ UNCHANGED <<workTree, posts, tags, declared, cache, out, spoilt>>
      /\ request' = [request EXCEPT !.injected = @ \cup {p}]
      /\ blog' = [q \in DOMAIN blog \cup {p} |-> IF q = p THEN "build" ELSE blog[q]]
  BY DEF BuildInv, InjectPost, repository
<1>1. request'.phase = "inject" /\ request'.injected = request.injected \cup {p}
      /\ IsRequest(request')
  BY <1>0 DEF KindInv, IsRequest
<1>2. KindInv'
  BY <1>0, <1>1 DEF KindInv
<1>3. DocsInv'
  <2>1. DOMAIN blog' = request'.injected /\ \A q \in request'.injected : blog'[q] = "build"
    BY <1>0, <1>1 DEF DocsInv
  <2> QED
    BY <1>1, <2>1 DEF DocsInv, Carrying
<1>4. CacheInv' /\ PassesInv' /\ SiteInv'
  BY <1>0, <1>1 DEF CacheInv, PassesInv, SiteInv, Done
<1> QED
  BY <1>2, <1>3, <1>4 DEF BuildInv

LEMMA PartitionLocalesKeeps ==
    ASSUME BuildInv, PartitionLocales
    PROVE  BuildInv'
<1>0. /\ KindInv /\ DocsInv /\ PassesInv /\ request.phase = "inject" /\ out = NoOutput
      /\ request.injected = PostDocsPayloads(request.drafts)
      /\ UNCHANGED <<workTree, posts, tags, declared, cache, blog, out, spoilt>>
  BY DEF BuildInv, PartitionLocales, repository, PassesInv
<1>1. ASSUME NEW phase \in {"site", "extract"},
             request' = [request EXCEPT !.phase = phase, !.next = 1],
             phase = "site" => request.target = "posts"
      PROVE  BuildInv'
  <2>1. /\ request'.phase = phase /\ request'.next = 1 /\ FiltersKept
        /\ request'.injected = request.injected /\ request'.target = request.target
        /\ request'.drafts = request.drafts
        /\ IsRequest(request')
    BY <1>0, <1>1, PhaseOnly DEF Phases
  <2>2. KindInv'
    BY <1>0, <2>1 DEF KindInv
  <2>3. PostDocsPayloads(request.drafts)' = PostDocsPayloads(request.drafts)
    BY <1>0, <2>1, Zenon DEF PostDocsPayloads, Published
  <2>4. DocsInv'
    BY <1>0, <2>1, <2>3 DEF DocsInv
  <2>5. CacheInv'
    BY <2>1 DEF CacheInv
  <2>6. PassesInv'
    BY <1>0, <2>1 DEF PassesInv
  <2>7. SiteInv'
    <3>1. Landing'
      BY <1>0, EmptyOutput DEF Landing
    <3>2. phase = "site" => ~Full'
      BY <1>1, <2>1 DEF Full
    <3> QED
      BY <2>1, <3>1, <3>2 DEF SiteInv, Done
  <2> QED
    BY <2>2, <2>4, <2>5, <2>6, <2>7 DEF BuildInv
<1>2. CASE Fails
  <2>1. KindInv'
    BY <1>0, <1>2, PhaseOnly DEF KindInv, Fails, Goes, Phases
  <2> QED
    BY <1>0, <1>2, <2>1, FailsKeeps
<1> QED
  BY <1>1, <1>2 DEF PartitionLocales, Goes

LEMMA EnterCacheKeeps ==
    ASSUME BuildInv, NEW v \in SiteVersions, EnterCache(v)
    PROVE  BuildInv'
<1>0. /\ KindInv /\ DocsInv /\ CacheInv /\ PassesInv /\ request.phase = "extract" /\ out = NoOutput
      /\ UNCHANGED <<workTree, posts, tags, declared, blog, out, spoilt>>
      /\ request.next <= Len(BuildVersions) /\ v = BuildVersions[request.next]
  BY DEF BuildInv, EnterCache, Extracting, repository, PassesInv
<1>1. request.next \in Nat /\ Len(BuildVersions) \in Nat
  BY <1>0, ListsAre DEF KindInv, IsRequest
<1>2. CASE request' = [request EXCEPT !.next = @ + 1] /\ cache' = cache /\ Extant(v)
  <2>0. request' = [request EXCEPT !.phase = "extract", !.next = request.next + 1]
    BY <1>0, <1>2 DEF KindInv
  <2>1. /\ request'.phase = "extract" /\ request'.next = request.next + 1 /\ FiltersKept
        /\ request'.injected = request.injected /\ request'.target = request.target
        /\ request'.drafts = request.drafts
        /\ IsRequest(request')
    <3>1. request.next + 1 \in Nat /\ "extract" \in Phases
      BY <1>1 DEF Phases
    <3> QED
      BY <1>0, <2>0, <3>1, PhaseOnly
  <2>2. KindInv'
    BY <1>0, <1>2, <2>1 DEF KindInv
  <2>3. DocsInv'
    BY <1>0, <2>1 DEF DocsInv, Carrying, PostDocsPayloads, Published
  <2>4. CacheInv'
    <3>1. SameLists
      BY <2>1, ListsKept
    <3>2. \A j \in 1 .. Len(BuildVersions) : j < request.next + 1 => Extant(BuildVersions[j])
      BY <1>0, <1>1, <1>2 DEF CacheInv
    <3>3. \A w : Extant(w)' <=> Extant(w)
      BY <1>0, <1>2 DEF Extant
    <3> QED
      BY <1>0, <1>1, <2>1, <3>1, <3>2, <3>3 DEF CacheInv, SameLists
  <2>5. PassesInv' /\ SiteInv'
    BY <1>0, <2>1 DEF PassesInv, SiteInv, Done
  <2> QED
    BY <2>2, <2>3, <2>4, <2>5 DEF BuildInv
<1>3. CASE Fails /\ cache' = cache
  <2>1. KindInv'
    BY <1>0, <1>3, PhaseOnly DEF KindInv, Fails, Goes, Phases
  <2> QED
    BY <1>0, <1>3, <2>1, FailsKeeps
<1>4. CASE v # Latest /\ tags[v] # None /\ ~CacheHit(v) /\ RemoveArchive(v)
  <2>0. request' = [request EXCEPT !.phase = "fill", !.next = request.next]
    BY <1>0, <1>4 DEF KindInv, RemoveArchive
  <2>1. /\ request'.phase = "fill" /\ request'.next = request.next /\ FiltersKept
        /\ request'.injected = request.injected /\ request'.target = request.target
        /\ request'.drafts = request.drafts
        /\ IsRequest(request')
    BY <1>0, <1>1, <2>0, PhaseOnly DEF Phases
  <2>2. v \in Older /\ DOMAIN cache = Older /\ cache[v].hash # tags[v]
    BY <1>0, <1>4 DEF KindInv, Older, CacheHit
  <2>3. /\ cache' \in [Older -> [tree : Trees \cup {None}, sources : SUBSET Sources,
                                 hash : Trees \cup {None}]]
        /\ cache'[v].hash = None /\ cache'[v].tree = None
        /\ \A w \in Older : w # v => cache'[w] = cache[w]
    BY <1>0, <1>4, <2>2 DEF KindInv, RemoveArchive
  <2>4. KindInv'
    BY <1>0, <2>1, <2>3 DEF KindInv
  <2>5. DocsInv'
    BY <1>0, <2>1 DEF DocsInv, Carrying, PostDocsPayloads, Published
  <2>6. CacheInv'
    <3>1. SameLists
      BY <2>1, ListsKept
    <3>2. \A w \in SiteVersions : Extant(w) => Extant(w)'
      BY <1>0, <2>2, <2>3 DEF Extant, Older
    <3>3. \A j \in 1 .. Len(BuildVersions) : BuildVersions[j] \in SiteVersions
      BY <1>0, ListsAre
    <3>4. \A j \in 1 .. Len(BuildVersions) : j < request.next => Extant(BuildVersions[j])'
      <4> SUFFICES ASSUME NEW j \in 1 .. Len(BuildVersions), j < request.next
                   PROVE  Extant(BuildVersions[j])'
        OBVIOUS
      <4>1. Extant(BuildVersions[j])
        BY <1>0 DEF CacheInv
      <4>2. BuildVersions'[j] = BuildVersions[j]
        BY <3>1 DEF SameLists
      <4> QED
        BY <3>2, <3>3, <4>1, <4>2
    <3>5. request.next \in 1 .. Len(BuildVersions)
      BY <1>0, <1>1 DEF CacheInv
    <3> QED
      BY <1>0, <1>4, <2>1, <2>3, <3>1, <3>4, <3>5 DEF CacheInv, SameLists
  <2>7. PassesInv' /\ SiteInv'
    BY <1>0, <2>1 DEF PassesInv, SiteInv, Done
  <2> QED
    BY <2>4, <2>5, <2>6, <2>7 DEF BuildInv
<1>5. CASE v # Latest /\ tags[v] # None /\ ~CacheHit(v) /\ TearArchive(v)
  <2>1. v \in Older /\ DOMAIN cache = Older /\ cache[v].hash # tags[v] /\ request' = request
    BY <1>0, <1>5 DEF KindInv, Older, CacheHit, TearArchive
  <2>2. /\ cache' \in [Older -> [tree : Trees \cup {None}, sources : SUBSET Sources,
                                 hash : Trees \cup {None}]]
        /\ cache'[v].hash \in {None, cache[v].hash} /\ cache'[v].tree = cache[v].tree
        /\ \A w \in Older : w # v => cache'[w] = cache[w]
    BY <1>0, <1>5, <2>1 DEF KindInv, TearArchive
  <2>3. KindInv'
    BY <1>0, <2>1, <2>2 DEF KindInv
  <2>4. DocsInv'
    BY <1>0, <2>1 DEF DocsInv, Carrying, PostDocsPayloads, Published
  <2>5. CacheInv'
    <3>1. SameLists
      BY <2>1, ListsKept DEF FiltersKept
    <3>2. \A w \in SiteVersions : Extant(w) => Extant(w)'
      BY <1>0, <1>5, <2>1, <2>2 DEF Extant, Older
    <3>3. \A j \in 1 .. Len(BuildVersions) : BuildVersions[j] \in SiteVersions
      BY <1>0, ListsAre
    <3> QED
      BY <1>0, <1>1, <2>1, <3>1, <3>2, <3>3 DEF CacheInv, SameLists
  <2>6. PassesInv' /\ SiteInv'
    BY <1>0, <2>1 DEF PassesInv, SiteInv, Done
  <2> QED
    BY <2>3, <2>4, <2>5, <2>6 DEF BuildInv
<1> QED
  BY <1>2, <1>3, <1>4, <1>5 DEF EnterCache, Extracted, Extant, CacheHit

LEMMA FillCacheKeeps ==
    ASSUME BuildInv, NEW v \in SiteVersions, FillCache(v)
    PROVE  BuildInv'
<1>0. /\ KindInv /\ DocsInv /\ CacheInv /\ PassesInv /\ request.phase = "fill" /\ out = NoOutput
      /\ UNCHANGED <<workTree, posts, tags, declared, blog, out, spoilt>>
      /\ request.next \in 1 .. Len(BuildVersions) /\ v = BuildVersions[request.next]
      /\ v # Latest /\ tags[v] # None /\ cache[v].hash = None /\ cache[v].tree \in {None, tags[v]}
  BY DEF BuildInv, FillCache, repository, PassesInv, CacheInv
<1>1. request.next \in Nat /\ Len(BuildVersions) \in Nat /\ v \in Older /\ DOMAIN cache = Older
      /\ tags[v] \in Trees \cup {None}
  BY <1>0, ListsAre DEF KindInv, Older
<1>2. \A j \in 1 .. Len(BuildVersions) :
        j < request.next => Extant(BuildVersions[j]) /\ BuildVersions[j] # v
                            /\ BuildVersions[j] \in SiteVersions
  <2>1. \A j \in 1 .. Len(BuildVersions) : BuildVersions[j] \in SiteVersions
    BY <1>0, ListsAre
  <2> QED
    BY <1>0, <1>1, <2>1 DEF CacheInv, Extant
<1>3. CASE Fails /\ cache' = cache
  <2>1. KindInv'
    BY <1>0, <1>3, PhaseOnly DEF KindInv, Fails, Goes, Phases
  <2> QED
    BY <1>0, <1>3, <2>1, FailsKeeps
<1>4. CASE /\ cache[v].tree = None /\ request' = request
           /\ cache' = [cache EXCEPT ![v].tree = tags[v], ![v].sources = declared]
  <2>1. /\ cache' \in [Older -> [tree : Trees \cup {None}, sources : SUBSET Sources,
                                 hash : Trees \cup {None}]]
        /\ cache'[v].hash = None /\ cache'[v].tree = tags[v]
        /\ \A w \in Older : w # v => cache'[w] = cache[w]
    BY <1>0, <1>1, <1>4 DEF KindInv
  <2>2. KindInv'
    BY <1>0, <1>4, <2>1 DEF KindInv
  <2>3. DocsInv'
    BY <1>0, <1>4 DEF DocsInv, Carrying, PostDocsPayloads, Published
  <2>4. SameLists
    BY <1>4, ListsKept DEF FiltersKept
  <2>5. CacheInv'
    <3>1. \A w \in SiteVersions : Extant(w) /\ w # v => Extant(w)'
      BY <1>0, <2>1 DEF Extant, Older
    <3>2. \A j \in 1 .. Len(BuildVersions) : j < request.next => Extant(BuildVersions[j])'
      <4> SUFFICES ASSUME NEW j \in 1 .. Len(BuildVersions), j < request.next
                   PROVE  Extant(BuildVersions[j])'
        OBVIOUS
      <4>1. BuildVersions'[j] = BuildVersions[j]
        BY <2>4 DEF SameLists
      <4> QED
        BY <1>2, <3>1, <4>1
    <3> QED
      BY <1>0, <1>1, <1>4, <2>1, <2>4, <3>2 DEF CacheInv, SameLists
  <2>6. PassesInv' /\ SiteInv'
    BY <1>0, <1>4 DEF PassesInv, SiteInv, Done
  <2> QED
    BY <2>2, <2>3, <2>5, <2>6 DEF BuildInv
<1>5. CASE /\ cache[v].tree # None /\ cache' = [cache EXCEPT ![v].hash = tags[v]]
           /\ request' = [request EXCEPT !.phase = "extract", !.next = @ + 1]
  <2>0. request' = [request EXCEPT !.phase = "extract", !.next = request.next + 1]
    BY <1>5
  <2>1. /\ request'.phase = "extract" /\ request'.next = request.next + 1 /\ FiltersKept
        /\ request'.injected = request.injected /\ request'.target = request.target
        /\ request'.drafts = request.drafts
        /\ IsRequest(request')
    <3>1. request.next + 1 \in Nat /\ "extract" \in Phases
      BY <1>1 DEF Phases
    <3> QED
      BY <1>0, <2>0, <3>1, PhaseOnly
  <2>2. /\ cache' \in [Older -> [tree : Trees \cup {None}, sources : SUBSET Sources,
                                 hash : Trees \cup {None}]]
        /\ cache'[v].hash = tags[v] /\ cache'[v].tree = cache[v].tree
        /\ \A w \in Older : w # v => cache'[w] = cache[w]
    <3>1. cache \in [Older -> [tree : Trees \cup {None}, sources : SUBSET Sources,
                              hash : Trees \cup {None}]]
      BY <1>0 DEF KindInv
    <3> DEFINE filled == [cache[v] EXCEPT !.hash = tags[v]]
    <3>2. /\ filled \in [tree : Trees \cup {None}, sources : SUBSET Sources, hash : Trees \cup {None}]
          /\ filled.hash = tags[v] /\ filled.tree = cache[v].tree
      BY <1>1, <3>1
    <3>3. cache' = [cache EXCEPT ![v] = filled]
      BY <1>5
    <3> HIDE DEF filled
    <3> QED
      BY <1>1, <3>1, <3>2, <3>3
  <2>3. KindInv'
    BY <1>0, <1>5, <2>1, <2>2 DEF KindInv
  <2>4. DocsInv'
    BY <1>0, <2>1 DEF DocsInv, Carrying, PostDocsPayloads, Published
  <2>5. SameLists
    BY <2>1, ListsKept
  <2>6. CacheInv'
    <3>1. \A w \in SiteVersions : Extant(w) \/ w = v => Extant(w)'
      BY <1>0, <2>2 DEF Extant, Older
    <3>2. \A j \in 1 .. Len(BuildVersions) : j < request.next + 1 => Extant(BuildVersions[j])'
      <4> SUFFICES ASSUME NEW j \in 1 .. Len(BuildVersions), j < request.next + 1
                   PROVE  Extant(BuildVersions[j])'
        OBVIOUS
      <4>1. BuildVersions'[j] = BuildVersions[j]
        BY <2>5 DEF SameLists
      <4>2. j < request.next \/ j = request.next
        BY <1>1
      <4> QED
        BY <1>0, <1>2, <3>1, <4>1, <4>2
    <3> QED
      BY <1>1, <2>1, <2>5, <3>2 DEF CacheInv, SameLists
  <2>7. PassesInv' /\ SiteInv'
    BY <1>0, <2>1 DEF PassesInv, SiteInv, Done
  <2> QED
    BY <2>3, <2>4, <2>6, <2>7 DEF BuildInv
<1> QED
  BY <1>3, <1>4, <1>5 DEF FillCache

LEMMA StartPassesKeeps ==
    ASSUME BuildInv, StartPasses
    PROVE  BuildInv'
<1>0. /\ KindInv /\ DocsInv /\ CacheInv /\ PassesInv /\ request.phase = "extract" /\ out = NoOutput
      /\ UNCHANGED <<workTree, posts, tags, declared, blog, cache, out, spoilt>>
      /\ request.next > Len(BuildVersions)
      /\ request' = [request EXCEPT !.phase = "passes", !.next = 1]
  BY DEF BuildInv, StartPasses, repository, PassesInv, Goes
<1>1. request.next \in Nat /\ BuildVersions \in Seq(SiteVersions) /\ PassCount \in Nat
  BY <1>0, ListsAre, PassesAre DEF KindInv, IsRequest
<1>2. /\ request'.phase = "passes" /\ request'.next = 1 /\ FiltersKept
      /\ request'.injected = request.injected /\ request'.target = request.target
      /\ request'.drafts = request.drafts
      /\ IsRequest(request')
  BY <1>0, PhaseOnly DEF Phases
<1>3. SameLists
  BY <1>2, ListsKept
<1>4. KindInv'
  BY <1>0, <1>2 DEF KindInv
<1>5. DocsInv'
  BY <1>0, <1>2 DEF DocsInv, Carrying, PostDocsPayloads, Published
<1>6. CacheInv'
  <2>1. \A j \in 1 .. Len(BuildVersions) : Extant(BuildVersions[j])
    BY <1>0, <1>1 DEF CacheInv
  <2>2. \A v \in ToSet(BuildVersions) : Extant(v)
    BY <1>1, <2>1 DEF ToSet
  <2>3. \A v : Extant(v)' <=> Extant(v)
    BY <1>0 DEF Extant
  <2>4. ToSet(BuildVersions)' = ToSet(BuildVersions)
    BY <1>3, Zenon DEF SameLists, ToSet
  <2> QED
    BY <1>2, <2>2, <2>3, <2>4 DEF CacheInv
<1>7. PassesInv'
  <2>1. PassCount' = PassCount
    BY <1>3 DEF SameLists
  <2>2. request'.next - 1 = 0 /\ 1 .. request'.next - 1 = {}
    BY <1>2
  <2> QED
    BY <1>0, <1>1, <1>2, <2>1, <2>2, EmptyOutput DEF PassesInv
<1>8. SiteInv'
  BY <1>2 DEF SiteInv, Done
<1> QED
  BY <1>4, <1>5, <1>6, <1>7, <1>8 DEF BuildInv
-----------------------------------------------------------------------------
\* The passes.

IsWritten(new, pages, keys, from, offers) ==
    /\ DOMAIN new = DOMAIN pages \cup keys
    /\ \A k \in keys : new[k] = [from |-> from, offers |-> offers[k]]
    /\ \A k \in DOMAIN pages \ keys : new[k] = pages[k]

LEMMA Written ==
    ASSUME NEW pages, NEW keys, NEW from, NEW offers
    PROVE  IsWritten(WritePages(pages, keys, from, offers), pages, keys, from, offers)
BY DEF WritePages, IsWritten

\* The archives the passes read are their tags' while the versions are Extant.
LEMMA ArchiveOf ==
    ASSUME KindInv, NEW v \in SiteVersions, Extant(v)
    PROVE  BuildDir(v).tree = IF v = Latest THEN workTree ELSE tags[v]
<1>1. CASE v = Latest
  BY <1>1 DEF BuildDir
<1>2. CASE v # Latest
  <2>1. tags[v] # None /\ cache[v].hash = tags[v] /\ v \in Older
    BY <1>2 DEF Extant, Older
  <2>2. cache[v].hash \in {None, cache[v].tree}
    BY <2>1 DEF KindInv
  <2> QED
    BY <1>2, <2>1, <2>2 DEF BuildDir
<1> QED
  BY <1>1, <1>2

\* A page is written by one pass, or by passes that agree on it.
LEMMA OneOrigin ==
    ASSUME KindInv, NEW i \in 1 .. PassCount, NEW j \in 1 .. PassCount, NEW k \in PassKeys(i) \cap PassKeys(j)
    PROVE  PageOf(j, k) = PageOf(i, k)
<1>1. PICK p : k = PageAddress(LocaleOf(i), VersionOf(i), p)
  BY DEF PassKeys
<1>2. PICK q : k = PageAddress(LocaleOf(j), VersionOf(j), q)
  BY DEF PassKeys
<1>3. LocaleOf(i) \in Locales /\ LocaleOf(j) \in Locales
  BY PassesAre
<1>4. VersionOf(i) \in SiteVersions /\ VersionOf(j) \in SiteVersions
  BY PassesAre
<1>5. PageAddress(LocaleOf(i), VersionOf(i), p) = PageAddress(LocaleOf(j), VersionOf(j), q)
  BY <1>1, <1>2
<1>6. LocaleOf(i) = LocaleOf(j) /\ VersionOf(i) = VersionOf(j)
  BY <1>3, <1>4, <1>5, AddressesDiffer
<1> QED
  BY <1>6 DEF PageOf

LEMMA StableIsLatest ==
    ASSUME KindInv, NEW i \in 1 .. PassCount, NEW k \in PassKeys(i)
    PROVE  k.version = "" <=> VersionOf(i) = Latest
<1>1. PICK p : k = PageAddress(LocaleOf(i), VersionOf(i), p)
  BY DEF PassKeys
<1>2. LocaleOf(i) \in Locales /\ VersionOf(i) \in SiteVersions
  BY PassesAre
<1>3. k.version = (IF VersionOf(i) = Latest THEN "" ELSE VersionOf(i))
  BY <1>1 DEF PageAddress
<1>4. "" \notin SiteVersions \ {Latest}
  BY ListsAreConfigured
<1> QED
  BY <1>2, <1>3, <1>4

LEMMA BuildVersionedKeeps ==
    ASSUME BuildInv, BuildVersioned
    PROVE  BuildInv'
<1>0. /\ KindInv /\ DocsInv /\ CacheInv /\ PassesInv /\ request.phase = "passes"
      /\ UNCHANGED <<workTree, posts, tags, declared, blog, cache, spoilt>>
      /\ request.next <= PassCount /\ request.next \in Nat /\ request.next > 0
  <2>1. KindInv /\ DocsInv /\ CacheInv /\ PassesInv
    BY DEF BuildInv
  <2>2. /\ request.phase = "passes" /\ request.next <= PassCount
        /\ UNCHANGED <<workTree, posts, tags, declared, blog, cache, spoilt>>
    BY DEF BuildVersioned, repository
  <2>3. request.next \in 1 .. PassCount + 1
    BY <2>1, <2>2 DEF PassesInv
  <2> QED
    BY <2>1, <2>2, <2>3 DEF KindInv
<1> DEFINE i == request.next
           l == LocaleOf(i)
           v == VersionOf(i)
           keys == PassKeys(i)
           offers == [k \in keys |-> Offers(l, k.page)]
           written == WritePages(out.pages, keys, BuildDir(v).tree, offers)
           listed == out.sitemap \cup (IF v = Latest THEN keys ELSE {})
<1>1. PassCount \in Nat /\ i \in 1 .. PassCount
  BY <1>0, PassesAre
<1>2. \A j \in 1 .. PassCount : LocaleOf(j) \in Locales /\ VersionOf(j) \in SiteVersions
  BY <1>0, PassesAre
<1>3. CASE Fails /\ out' = out
  <2>1. KindInv'
    BY <1>0, <1>3, PhaseOnly DEF KindInv, Fails, Goes, Phases
  <2> QED
    BY <1>0, <1>3, <2>1, FailsKeeps
<1>4. CASE /\ out' = [out EXCEPT !.pages = written, !.sitemap = listed]
           /\ request' = [request EXCEPT !.next = @ + 1]
  <2>1. /\ request'.phase = "passes" /\ request'.next = i + 1 /\ FiltersKept
        /\ request'.injected = request.injected /\ request'.target = request.target
        /\ request'.drafts = request.drafts /\ IsRequest(request')
    <3>1. i + 1 \in Nat /\ "passes" \in Phases
      BY <1>1 DEF Phases
    <3>2. request' = [request EXCEPT !.phase = "passes", !.next = i + 1]
      BY <1>0, <1>4 DEF KindInv
    <3> HIDE DEF i
    <3> QED
      BY <1>0, <3>1, <3>2, PhaseOnly DEF IsRequest
  <2>2. SamePages /\ SameLists
    BY <1>0, <2>1, PagesKept DEF SourcesKept
  <2>3. IsOutput(out') /\ out'.pages = written /\ out'.sitemap = listed /\ out'.manifest = out.manifest
    <3>1. IsOutput(out)
      BY <1>0 DEF KindInv
    <3> HIDE DEF written, listed
    <3> QED
      BY <1>4, <3>1 DEF IsOutput
  <2>4. KindInv'
    BY <1>0, <2>1, <2>3 DEF KindInv
  <2>5. DocsInv'
    BY <1>0, <2>1 DEF DocsInv, Carrying, PostDocsPayloads, Published
  <2>6. CacheInv'
    <3>1. \A w : Extant(w)' <=> Extant(w)
      BY <1>0 DEF Extant
    <3>2. ToSet(BuildVersions)' = ToSet(BuildVersions)
      BY <2>2, Zenon DEF SameLists, ToSet
    <3> QED
      BY <1>0, <2>1, <3>1, <3>2 DEF CacheInv
  <2>7. /\ DOMAIN out'.pages = DOMAIN out.pages \cup keys
        /\ \A k \in keys : out'.pages[k] = PageOf(i, k)
        /\ \A k \in DOMAIN out.pages \ keys : out'.pages[k] = out.pages[k]
    <3>1. \A k \in keys : PageOf(i, k) = [from |-> BuildDir(v).tree, offers |-> offers[k]]
      BY DEF PageOf
    <3>2. out'.pages = WritePages(out.pages, keys, BuildDir(v).tree, offers)
      BY <2>3
    <3> HIDE DEF offers, keys, v, i, written
    <3>3. /\ DOMAIN out'.pages = DOMAIN out.pages \cup keys
          /\ \A k \in keys : out'.pages[k] = [from |-> BuildDir(v).tree, offers |-> offers[k]]
          /\ \A k \in DOMAIN out.pages \ keys : out'.pages[k] = out.pages[k]
      <4>1. IsWritten(out'.pages, out.pages, keys, BuildDir(v).tree, offers)
        BY <3>2, Written, Zenon
      <4> QED
        BY <4>1 DEF IsWritten
    <3> QED
      BY <3>1, <3>3
  <2>8. \A j \in 1 .. PassCount : \A k \in PassKeys(j) \cap keys : PageOf(j, k) = PageOf(i, k)
    BY <1>0, <1>1, OneOrigin
  <2>9. \A k \in keys : k.version = "" <=> v = Latest
    BY <1>0, <1>1, StableIsLatest
  <2>10. PassesInv'
    <3> HIDE DEF keys, v, l, offers, written
    <3>1. /\ DOMAIN out.pages = UNION {PassKeys(j) : j \in 1 .. i - 1}
          /\ \A j \in 1 .. i - 1 : \A k \in PassKeys(j) : out.pages[k] = PageOf(j, k)
          /\ out.sitemap = {k \in DOMAIN out.pages : k.version = ""}
      BY <1>0 DEF PassesInv
    <3>2. 1 .. i = (1 .. i - 1) \cup {i} /\ i \notin 1 .. i - 1 /\ 1 .. i \subseteq 1 .. PassCount
          /\ request'.next \in 1 .. PassCount + 1 /\ request'.next - 1 = i
      BY <1>1, <2>1
    <3> HIDE DEF i
    <3>3. DOMAIN out'.pages = UNION {PassKeys(j) : j \in 1 .. i}
      <4>1. UNION {PassKeys(j) : j \in 1 .. i} = (UNION {PassKeys(j) : j \in 1 .. i - 1}) \cup PassKeys(i)
        BY <3>2
      <4> QED
        BY <2>7, <3>1, <4>1 DEF keys
    <3>4. ASSUME NEW j \in 1 .. i, NEW k \in PassKeys(j)
          PROVE  out'.pages[k] = PageOf(j, k)
      <4>1. CASE k \in keys
        BY <2>7, <2>8, <3>2, <4>1
      <4>2. CASE k \notin keys
        <5>1. j \in 1 .. i - 1
          BY <3>2, <4>2 DEF keys
        <5>2. k \in DOMAIN out.pages /\ out.pages[k] = PageOf(j, k)
          BY <3>1, <5>1
        <5> QED
          BY <2>7, <4>2, <5>2
      <4> QED
        BY <4>1, <4>2
    <3>5. out'.sitemap = {k \in DOMAIN out'.pages : k.version = ""}
      BY <2>3, <2>7, <2>9, <3>1
    <3>6. /\ PassCount' = PassCount /\ \A j : PassKeys(j)' = PassKeys(j)
          /\ \A j, k : PageOf(j, k)' = PageOf(j, k)
      BY <2>2 DEF SamePages, SameLists
    <3>7. DOMAIN out'.pages = UNION {PassKeys(j)' : j \in 1 .. i}
      BY <3>3, <3>6
    <3>8. \A j \in 1 .. i : \A k \in PassKeys(j)' : out'.pages[k] = PageOf(j, k)'
      BY <3>4, <3>6
    <3>9. request'.next \in 1 .. PassCount' + 1
      BY <3>2, <3>6
    <3>10. request'.phase = "passes"
      BY <2>1
    <3> QED
      BY <3>2, <3>5, <3>7, <3>8, <3>9, <3>10 DEF PassesInv
  <2>11. SiteInv'
    BY <2>1 DEF SiteInv, Done
  <2> QED
    BY <2>4, <2>5, <2>6, <2>10, <2>11 DEF BuildInv
<1> QED
  BY <1>3, <1>4, Zenon DEF BuildVersioned, PassKeys
-----------------------------------------------------------------------------
\* What the passes have written when the last of them is done.

PassedPages ==
    /\ \A l \in ToSet(BuildLocales), v \in ToSet(BuildVersions) : \A p \in VersionedPass(v, l) :
         /\ PageAddress(l, v, p) \in DOMAIN out.pages
         /\ out.pages[PageAddress(l, v, p)] =
              [from |-> IF v = Latest THEN workTree ELSE tags[v], offers |-> Offers(l, p)]
    /\ \A k \in DOMAIN out.pages :
         \E l \in ToSet(BuildLocales), v \in ToSet(BuildVersions) :
           \E p \in VersionedPass(v, l) : k = PageAddress(l, v, p)

LEMMA Passed ==
    ASSUME BuildInv, request.phase = "passes", request.next > PassCount
    PROVE  PassedPages
<1>0. KindInv /\ CacheInv /\ PassesInv /\ PassCount \in Nat
  BY PassesAre DEF BuildInv
<1>1. request.next = PassCount + 1 /\ request.next - 1 = PassCount
  <2>1. request.next \in 1 .. PassCount + 1
    BY <1>0 DEF PassesInv
  <2> QED
    BY <1>0, <2>1
<1>2. /\ DOMAIN out.pages = UNION {PassKeys(i) : i \in 1 .. PassCount}
      /\ \A i \in 1 .. PassCount : \A k \in PassKeys(i) : out.pages[k] = PageOf(i, k)
  BY <1>0, <1>1 DEF PassesInv
<1>3. \A v \in ToSet(BuildVersions) :
         v \in SiteVersions /\ BuildDir(v).tree = (IF v = Latest THEN workTree ELSE tags[v])
  <2> SUFFICES ASSUME NEW v \in ToSet(BuildVersions)
               PROVE  v \in SiteVersions
                      /\ BuildDir(v).tree = (IF v = Latest THEN workTree ELSE tags[v])
    OBVIOUS
  <2>1. v \in SiteVersions
    BY <1>0, ListsAre DEF ToSet
  <2>2. Extant(v)
    BY <1>0 DEF CacheInv
  <2> QED
    BY <1>0, <2>1, <2>2, ArchiveOf
<1>4. ASSUME NEW l \in ToSet(BuildLocales), NEW v \in ToSet(BuildVersions), NEW p \in VersionedPass(v, l)
      PROVE  /\ PageAddress(l, v, p) \in DOMAIN out.pages
             /\ out.pages[PageAddress(l, v, p)] =
                  [from |-> IF v = Latest THEN workTree ELSE tags[v], offers |-> Offers(l, p)]
  <2>1. PICK i \in 1 .. PassCount : LocaleOf(i) = l /\ VersionOf(i) = v
    BY <1>0, PassesAre
  <2>2. PageAddress(l, v, p) \in PassKeys(i)
    BY <2>1 DEF PassKeys
  <2>3. PageAddress(l, v, p).page = p
    BY DEF PageAddress
  <2>4. PageOf(i, PageAddress(l, v, p)) = [from |-> BuildDir(v).tree, offers |-> Offers(l, p)]
    BY <2>1, <2>3 DEF PageOf
  <2> QED
    BY <1>2, <1>3, <2>2, <2>4
<1>5. ASSUME NEW k \in DOMAIN out.pages
      PROVE  \E l \in ToSet(BuildLocales), v \in ToSet(BuildVersions) :
               \E p \in VersionedPass(v, l) : k = PageAddress(l, v, p)
  <2>1. PICK i \in 1 .. PassCount : k \in PassKeys(i)
    BY <1>2
  <2>2. PICK p \in VersionedPass(VersionOf(i), LocaleOf(i)) : k = PageAddress(LocaleOf(i), VersionOf(i), p)
    BY <2>1 DEF PassKeys
  <2>3. LocaleOf(i) \in ToSet(BuildLocales) /\ VersionOf(i) \in ToSet(BuildVersions)
    BY <1>0, PassesAre
  <2> QED
    BY <2>2, <2>3
<1> QED
  BY <1>4, <1>5 DEF PassedPages

\* What a page offers is in the passes of the versions it offers.
LEMMA OffersLand ==
    ASSUME NEW l, NEW v, NEW p \in VersionedPass(v, l), NEW w, p \in VersionedHTMLPaths(w, l)
    PROVE  p \in VersionedPass(w, l)
<1>1. p \in ResolveAll(w, l) \cup (IF HasChangelog(w) THEN {Changelog} ELSE {})
  BY DEF VersionedHTMLPaths, ResolveAll, HandwrittenPages
<1>2. PartitionPages(l).unversioned # {} => p \in PartitionPages(l).versioned
  BY DEF VersionedPass
<1> QED
  BY <1>1, <1>2 DEF VersionedPass

\* The pages the walk of the working tree has for a locale, and where they go.
LEMMA Partitioned ==
    ASSUME KindInv, NEW l \in Locales,
           NEW p \in Tree[workTree].pages[l] \cup Tree[workTree].generated
    PROVE  /\ p \in VersionedPass(Latest, l) \/ p \in PartitionPages(l).unversioned
           /\ p \notin Reserved
<1>1. workTree \in Trees
  BY DEF KindInv
<1>2. p \notin Reserved
  BY <1>1, PagesHaveOneOrigin DEF Reserved
<1>3. p \in ResolveAll(Latest, l)
  BY DEF ResolveAll, HandwrittenPages, BuildDir
<1>4. ~IsSiteLevelPage(p)
  BY <1>2 DEF IsSiteLevelPage, Reserved
<1>5. /\ PartitionPages(l).unversioned =
           {q \in ResolveAll(Latest, l) : ~IsSiteLevelPage(q)} \cap Tree[workTree].unversioned
      /\ PartitionPages(l).versioned =
           {q \in ResolveAll(Latest, l) : ~IsSiteLevelPage(q)} \ Tree[workTree].unversioned
  BY DEF PartitionPages
<1>6. p \notin PartitionPages(l).unversioned => p \in PartitionPages(l).versioned
  BY <1>3, <1>4, <1>5
<1> QED
  BY <1>2, <1>3, <1>6 DEF VersionedPass

LEMMA BuildUnversionedKeeps ==
    ASSUME BuildInv, BuildUnversioned
    PROVE  BuildInv'
<1> DEFINE keys == UNION {{StableAddress(l, p) : p \in PartitionPages(l).unversioned} :
                            l \in ToSet(BuildLocales)}
<1>0. /\ KindInv /\ DocsInv /\ PassesInv /\ request.phase = "passes" /\ request.next > PassCount
      /\ UNCHANGED <<workTree, posts, tags, declared, blog, cache, spoilt>>
      /\ request' = [request EXCEPT !.phase = "site", !.next = 1]
  BY DEF BuildInv, BuildUnversioned, repository, Goes
<1>1. PassedPages
  BY <1>0, Passed
<1>2. /\ request'.phase = "site" /\ request'.next = 1 /\ FiltersKept
      /\ request'.injected = request.injected /\ request'.target = request.target
      /\ request'.drafts = request.drafts /\ IsRequest(request')
  BY <1>0, PhaseOnly DEF Phases, IsRequest
<1>3. SamePages /\ SameLists
  BY <1>0, <1>2, PagesKept DEF SourcesKept
<1>4. /\ IsOutput(out') /\ out'.manifest = out.manifest /\ out'.sitemap = out.sitemap \cup keys
      /\ out'.pages = WritePages(out.pages, keys, workTree, Offering(keys))
  <2>1. out' = [out EXCEPT !.pages = WritePages(@, keys, workTree, Offering(keys)),
                           !.sitemap = @ \cup keys]
    BY Zenon DEF BuildUnversioned
  <2>2. IsOutput(out)
    BY <1>0 DEF KindInv
  <2> HIDE DEF keys
  <2> QED
    BY <2>1, <2>2 DEF IsOutput
<1>5. /\ DOMAIN out'.pages = DOMAIN out.pages \cup keys
      /\ \A k \in keys : out'.pages[k] = [from |-> workTree, offers |-> {}]
      /\ \A k \in DOMAIN out.pages \ keys : out'.pages[k] = out.pages[k]
  <2>1. \A k \in keys : Offering(keys)[k] = {}
    BY DEF Offering
  <2> HIDE DEF keys
  <2>2. IsWritten(out'.pages, out.pages, keys, workTree, Offering(keys))
    BY <1>4, Written, Zenon
  <2> QED
    BY <2>1, <2>2 DEF IsWritten
<1>6. KindInv'
  BY <1>0, <1>2, <1>4 DEF KindInv
<1>7. DocsInv'
  BY <1>0, <1>2 DEF DocsInv, Carrying, PostDocsPayloads, Published
<1>8. CacheInv' /\ PassesInv'
  BY <1>2 DEF CacheInv, PassesInv
<1>9. \A l \in ToSet(BuildLocales), v \in ToSet(BuildVersions) : l \in Locales /\ v \in SiteVersions
  BY <1>0, ListsAre DEF ToSet
<1>10. ASSUME NEW k \in keys
       PROVE  k.version = "" /\ \E l \in Locales : k.locale = LocaleSegment(l)
  <2>1. PICK l \in ToSet(BuildLocales) : k \in {StableAddress(l, p) : p \in PartitionPages(l).unversioned}
    OBVIOUS
  <2>2. PICK p : k = StableAddress(l, p)
    BY <2>1
  <2>3. k = [locale |-> LocaleSegment(l), version |-> "", page |-> p]
    BY <2>2 DEF StableAddress, PageAddress
  <2>4. l \in Locales
    BY <1>0, ListsAre DEF ToSet
  <2> QED
    BY <2>3, <2>4
<1>11. \A k \in keys : k.version = ""
  BY <1>10
<1>12. \A l \in ToSet(BuildLocales) : \A p \in PartitionPages(l).unversioned : StableAddress(l, p) \in keys
  OBVIOUS
<1> HIDE DEF keys
<1>13. ASSUME NEW k \in DOMAIN out.pages
       PROVE  /\ out.pages[k].offers \subseteq DOMAIN out.pages
              /\ k.version # "" => out.pages[k].from = tags[k.version]
              /\ k.version = "" => out.pages[k].from = workTree
              /\ \E l \in Locales : k.locale = LocaleSegment(l)
  <2>1. PICK l \in ToSet(BuildLocales), v \in ToSet(BuildVersions) :
          \E p \in VersionedPass(v, l) : k = PageAddress(l, v, p)
    BY <1>1 DEF PassedPages
  <2>2. PICK p \in VersionedPass(v, l) : k = PageAddress(l, v, p)
    BY <2>1
  <2>3. out.pages[k] = [from |-> IF v = Latest THEN workTree ELSE tags[v], offers |-> Offers(l, p)]
    BY <1>1, <2>2 DEF PassedPages
  <2>4. l \in Locales /\ v \in SiteVersions
    BY <1>9
  <2>5. k.version = (IF v = Latest THEN "" ELSE v)
    BY <2>2 DEF PageAddress
  <2>6. "" \notin SiteVersions \ {Latest}
    BY ListsAreConfigured
  <2>7. Offers(l, p) \subseteq DOMAIN out.pages
    <3> SUFFICES ASSUME NEW w \in ToSet(BuildVersions), p \in VersionedHTMLPaths(w, l)
                 PROVE  PageAddress(l, w, p) \in DOMAIN out.pages
      BY DEF Offers
    <3>1. p \in VersionedPass(w, l)
      BY OffersLand
    <3> QED
      BY <1>1, <3>1 DEF PassedPages
  <2>8. out.pages[k].offers \subseteq DOMAIN out.pages
    BY <2>3, <2>7
  <2>9. out.pages[k].from = (IF v = Latest THEN workTree ELSE tags[v])
    BY <2>3
  <2>10. k.locale = LocaleSegment(l)
    BY <2>2 DEF PageAddress
  <2> QED
    BY <2>4, <2>5, <2>6, <2>8, <2>9, <2>10
<1>14. \A k \in keys : out'.pages[k].from = workTree /\ out'.pages[k].offers = {}
  BY <1>5
<1>15. Landing'
  <2> SUFFICES ASSUME NEW k \in DOMAIN out'.pages
               PROVE  /\ out'.pages[k].offers \subseteq DOMAIN out'.pages
                      /\ k.version # "" => out'.pages[k].from = tags[k.version]
    BY <1>0 DEF Landing
  <2>1. CASE k \in keys
    BY <1>11, <1>14, <2>1
  <2>2. CASE k \notin keys
    <3>1. k \in DOMAIN out.pages /\ out'.pages[k] = out.pages[k]
      BY <1>5, <2>2
    <3> QED
      BY <1>5, <1>13, <3>1
  <2> QED
    BY <2>1, <2>2
<1>16. ASSUME Full'
       PROVE  ToSet(BuildLocales) = Locales /\ ToSet(BuildVersions) = SiteVersions
  <2>1. Full
    BY <1>2, <1>16 DEF Full, FiltersKept
  <2> QED
    BY <1>0, <2>1, ListsAre
<1>17. ASSUME Full', NEW l \in Locales, NEW p \in VersionedPass(Latest, l)
       PROVE  /\ StableAddress(l, p) \in DOMAIN out'.pages
              /\ out'.pages[StableAddress(l, p)].from = workTree
  <2>1. l \in ToSet(BuildLocales) /\ Latest \in ToSet(BuildVersions)
    BY <1>16, <1>17, ListsAreNotEmpty
  <2>2. StableAddress(l, p) \in DOMAIN out.pages /\ out.pages[StableAddress(l, p)].from = workTree
    <3>1. StableAddress(l, p) = PageAddress(l, Latest, p)
      BY DEF StableAddress
    <3>2. /\ PageAddress(l, Latest, p) \in DOMAIN out.pages
          /\ out.pages[PageAddress(l, Latest, p)] = [from |-> workTree, offers |-> Offers(l, p)]
      BY <1>1, <2>1 DEF PassedPages
    <3> QED
      BY <3>1, <3>2
  <2> QED
    BY <1>5, <2>2
<1>18. ASSUME Full', NEW l \in Locales, NEW p \in PartitionPages(l).unversioned
       PROVE  /\ StableAddress(l, p) \in DOMAIN out'.pages
              /\ out'.pages[StableAddress(l, p)].from = workTree
  <2>1. l \in ToSet(BuildLocales)
    BY <1>16, <1>18
  <2> QED
    BY <1>5, <1>12, <2>1
<1>19. ASSUME Full' PROVE Placed'
  <2>1. \A l \in Locales : \A p \in Tree[workTree].pages[l] \cup Tree[workTree].generated :
          /\ StableAddress(l, p) \in DOMAIN out'.pages
          /\ out'.pages[StableAddress(l, p)].from = workTree
    BY <1>0, <1>17, <1>18, <1>19, Partitioned
  <2>2. out'.sitemap = {k \in DOMAIN out'.pages : k.version = "" /\ out'.pages[k].from # "stub"}
    <3>1. out.sitemap = {k \in DOMAIN out.pages : k.version = ""}
      BY <1>0 DEF PassesInv
    <3>2. workTree # "stub"
      BY <1>0, PagesHaveOneOrigin DEF KindInv
    <3>3. \A k \in DOMAIN out'.pages : k.version = "" => out'.pages[k].from # "stub"
      <4> SUFFICES ASSUME NEW k \in DOMAIN out'.pages, k.version = ""
                   PROVE  out'.pages[k].from # "stub"
        OBVIOUS
      <4>1. CASE k \in keys
        BY <1>14, <3>2, <4>1
      <4>2. CASE k \notin keys
        <5>1. k \in DOMAIN out.pages /\ out'.pages[k] = out.pages[k]
          BY <1>5, <4>2
        <5> QED
          BY <1>13, <3>2, <5>1
      <4> QED
        BY <4>1, <4>2
    <3> QED
      BY <1>4, <1>5, <1>10, <3>1, <3>3
  <2> QED
    BY <1>0, <2>1, <2>2 DEF Placed
<1>20. ASSUME Full' PROVE Listed'
  <2>1. \A l \in Locales : \A p \in VersionedPass(Latest, l) \cup PartitionPages(l).unversioned :
          StableAddress(l, p) \in DOMAIN out'.pages
    BY <1>17, <1>18, <1>20
  <2>2. \A l : VersionedPass(Latest, l)' = VersionedPass(Latest, l)
               /\ PartitionPages(l)' = PartitionPages(l)
    BY <1>3 DEF SamePages
  <2>3. writeRedirectStubs \cap DOMAIN out'.pages = {}
    <3> SUFFICES ASSUME LocaleSegment(LocaleList[1]) # "",
                        NEW k \in DOMAIN out'.pages, k = SiteAddress("index")
                 PROVE  FALSE
      BY DEF writeRedirectStubs
    <3>1. Len(LocaleList) > 1
      BY DEF LocaleSegment
    <3>2. PICK l \in Locales : k.locale = LocaleSegment(l)
      BY <1>5, <1>10, <1>13
    <3>3. k.locale = l /\ k.locale = ""
      BY <3>1, <3>2 DEF LocaleSegment, SiteAddress
    <3> QED
      BY <3>3, ListsAreConfigured
  <2> QED
    BY <2>1, <2>2, <2>3 DEF Listed
<1>21. SiteInv'
  BY <1>2, <1>15, <1>19, <1>20 DEF SiteInv, Done
<1> QED
  BY <1>6, <1>7, <1>8, <1>21 DEF BuildInv
-----------------------------------------------------------------------------
\* The pages of the posts, the site's own files, and the end.

LEMMA BuildSiteLevelKeeps ==
    ASSUME BuildInv, BuildSiteLevel
    PROVE  BuildInv'
<1> DEFINE keys == {SiteAddress(p) : p \in request.injected}
           listed == IF request.target = "posts" THEN {} ELSE
                       out.sitemap \cup {k \in keys : LocaleList[1] \in ToSet(BuildLocales)}
           published == IF request.target = "posts" THEN Published(request.drafts) ELSE {}
           written == WritePages(out.pages, keys, "posts", Offering(keys))
<1>0. /\ KindInv /\ DocsInv /\ SiteInv /\ request.phase = "site"
      /\ UNCHANGED <<workTree, posts, tags, declared, blog, cache, spoilt>>
  BY DEF BuildInv, BuildSiteLevel, repository
<1>1. out' = [out EXCEPT !.pages = written, !.sitemap = listed, !.manifest = published]
  BY Zenon DEF BuildSiteLevel
<1>2. IsOutput(out') /\ out'.pages = written /\ out'.sitemap = listed /\ out'.manifest = published
  <2>1. IsOutput(out)
    BY <1>0 DEF KindInv
  <2> HIDE DEF written, listed, published
  <2> QED
    BY <1>1, <2>1 DEF IsOutput
<1>3. /\ DOMAIN out'.pages = DOMAIN out.pages \cup keys
      /\ \A k \in keys : out'.pages[k].from = "posts" /\ out'.pages[k].offers = {}
      /\ \A k \in DOMAIN out.pages \ keys : out'.pages[k] = out.pages[k]
  <2>1. \A k \in keys : Offering(keys)[k] = {}
    BY DEF Offering
  <2>2. out'.pages = WritePages(out.pages, keys, "posts", Offering(keys))
    BY <1>2
  <2> HIDE DEF keys, written
  <2>3. IsWritten(out'.pages, out.pages, keys, "posts", Offering(keys))
    BY <2>2, Written, Zenon
  <2>4. /\ DOMAIN out'.pages = DOMAIN out.pages \cup keys
        /\ \A k \in keys : out'.pages[k] = [from |-> "posts", offers |-> Offering(keys)[k]]
        /\ \A k \in DOMAIN out.pages \ keys : out'.pages[k] = out.pages[k]
    BY <2>3, Zenon DEF IsWritten
  <2>5. \A k \in keys : out'.pages[k] = [from |-> "posts", offers |-> {}]
    BY <2>1, <2>4
  <2>6. \A k \in keys : out'.pages[k].from = "posts" /\ out'.pages[k].offers = {}
    BY <2>5
  <2> QED
    BY <2>4, <2>6
<1>4. published \subseteq Posts
  BY <1>0 DEF Published, KindInv
<1>5. \A k \in keys : k.version = "" /\ k.page \in Reserved
  <2>1. \A p : SiteAddress(p).version = "" /\ SiteAddress(p).page = p
    BY DEF SiteAddress
  <2>2. request.injected \subseteq Reserved
    BY <1>0 DEF KindInv, IsRequest
  <2> QED
    BY <2>1, <2>2
<1>6. \A p \in request.injected : SiteAddress(p) \in keys
  OBVIOUS
<1>7. Full => listed = out.sitemap \cup keys
  <2> SUFFICES ASSUME Full PROVE listed = out.sitemap \cup keys
    OBVIOUS
  <2>1. LocaleList[1] \in ToSet(BuildLocales)
    BY <1>0, ListsAre, ListsAreNotEmpty
  <2>2. request.target # "posts"
    BY DEF Full
  <2> HIDE DEF keys
  <2> QED
    BY <2>1, <2>2
<1> HIDE DEF keys, listed, published, written
<1>8. Landing'
  <2>1. Landing
    BY <1>0 DEF SiteInv, Done
  <2> SUFFICES ASSUME NEW k \in DOMAIN out'.pages
               PROVE  /\ out'.pages[k].offers \subseteq DOMAIN out'.pages
                      /\ k.version # "" /\ out'.pages[k].from # "stub" =>
                           out'.pages[k].from = tags[k.version]
    BY <1>0 DEF Landing
  <2>2. CASE k \in keys
    BY <1>3, <1>5, <2>2
  <2>3. CASE k \notin keys
    <3>1. k \in DOMAIN out.pages /\ out'.pages[k] = out.pages[k]
      BY <1>3, <2>3
    <3> QED
      BY <1>3, <2>1, <3>1 DEF Landing
  <2> QED
    BY <2>2, <2>3
<1>9. ASSUME Full
      PROVE  /\ \A l \in Locales : \A p \in Tree[workTree].pages[l] \cup Tree[workTree].generated :
                  /\ StableAddress(l, p) \in DOMAIN out'.pages
                  /\ out'.pages[StableAddress(l, p)].from = workTree
             /\ out'.sitemap = {k \in DOMAIN out'.pages : k.version = "" /\ out'.pages[k].from # "stub"}
  <2>1. Placed
    BY <1>0, <1>9 DEF SiteInv, Done
  <2>2. ASSUME NEW l \in Locales, NEW p \in Tree[workTree].pages[l] \cup Tree[workTree].generated
        PROVE  /\ StableAddress(l, p) \in DOMAIN out'.pages
               /\ out'.pages[StableAddress(l, p)].from = workTree
    <3>1. StableAddress(l, p).page = p
      BY DEF StableAddress, PageAddress
    <3>2. p \notin Reserved
      BY <1>0, Partitioned
    <3>3. StableAddress(l, p) \notin keys
      BY <1>5, <3>1, <3>2
    <3>4. StableAddress(l, p) \in DOMAIN out.pages /\ out.pages[StableAddress(l, p)].from = workTree
      BY <2>1 DEF Placed
    <3> QED
      BY <1>3, <3>3, <3>4
  <2>3. out'.sitemap = {k \in DOMAIN out'.pages : k.version = "" /\ out'.pages[k].from # "stub"}
    <3>1. out'.sitemap = out.sitemap \cup keys
      BY <1>2, <1>7, <1>9
    <3>2. out.sitemap = {k \in DOMAIN out.pages : k.version = "" /\ out.pages[k].from # "stub"}
      BY <2>1 DEF Placed
    <3>3. \A k \in keys : k \in DOMAIN out'.pages /\ k.version = "" /\ out'.pages[k].from # "stub"
      BY <1>3, <1>5
    <3>4. \A k \in DOMAIN out'.pages : k \notin keys => k \in DOMAIN out.pages /\ out'.pages[k] = out.pages[k]
      BY <1>3
    <3>5. DOMAIN out.pages \subseteq DOMAIN out'.pages
      BY <1>3
    <3> QED
      BY <3>1, <3>2, <3>3, <3>4, <3>5
  <2> QED
    BY <2>2, <2>3
<1>10. CASE Fails
  <2>1. KindInv'
    BY <1>0, <1>2, <1>4, <1>10, PhaseOnly DEF KindInv, Fails, Goes, Phases
  <2> QED
    BY <1>0, <1>10, <2>1, FailsKeeps
<1>11. ASSUME NEW phase \in {"cleanup", "files"}, request' = [request EXCEPT !.phase = phase, !.next = 1],
              phase = "cleanup" <=> request.target = "posts"
       PROVE  BuildInv'
  <2>1. /\ request'.phase = phase /\ request'.next = 1 /\ FiltersKept
        /\ request'.injected = request.injected /\ request'.target = request.target
        /\ request'.drafts = request.drafts /\ IsRequest(request')
    BY <1>0, <1>11, PhaseOnly DEF Phases, IsRequest
  <2>2. SamePages
    BY <1>0, <2>1, PagesKept DEF SourcesKept
  <2>3. KindInv'
    BY <1>0, <1>2, <1>4, <2>1 DEF KindInv
  <2>4. DocsInv'
    BY <1>0, <2>1 DEF DocsInv, Carrying, PostDocsPayloads, Published
  <2>5. CacheInv' /\ PassesInv'
    BY <2>1 DEF CacheInv, PassesInv
  <2>6. Full' <=> Full
    BY <2>1 DEF Full, FiltersKept
  <2>7. phase = "cleanup" => ~Full
    BY <1>11 DEF Full
  <2>8. Full => Placed'
    BY <1>0, <1>9 DEF Placed
  <2>9. Full => PostsPlaced'
    BY <1>3, <1>6, <2>1 DEF PostsPlaced, SiteAddress
  <2>10. ASSUME Full PROVE Listed'
    <3>1. Listed
      BY <1>0, <2>10 DEF SiteInv
    <3>2. \A l : VersionedPass(Latest, l)' = VersionedPass(Latest, l)
                 /\ PartitionPages(l)' = PartitionPages(l)
      BY <2>2 DEF SamePages
    <3>3. \A l \in Locales : \A p \in VersionedPass(Latest, l) \cup PartitionPages(l).unversioned :
            StableAddress(l, p) \in DOMAIN out'.pages
      BY <1>3, <3>1 DEF Listed
    <3>4. writeRedirectStubs \cap DOMAIN out'.pages = {}
      <4>1. SiteAddress("index") \notin keys
        <5>1. "index" \notin Reserved
          BY PagesHaveOneOrigin DEF Reserved
        <5>2. SiteAddress("index").page = "index"
          BY DEF SiteAddress
        <5> QED
          BY <1>5, <5>1, <5>2
      <4>2. writeRedirectStubs \subseteq {SiteAddress("index")}
        BY DEF writeRedirectStubs
      <4> QED
        BY <1>3, <3>1, <4>1, <4>2 DEF Listed
    <3> QED
      BY <3>2, <3>3, <3>4 DEF Listed
  <2>11. SiteInv'
    BY <1>8, <2>1, <2>6, <2>7, <2>8, <2>9, <2>10 DEF SiteInv, Done
  <2> QED
    BY <2>3, <2>4, <2>5, <2>11 DEF BuildInv
<1>12. \/ Fails
       \/ request.target = "posts" /\ Goes("cleanup")
       \/ request.target # "posts" /\ Goes("files")
  BY Zenon DEF BuildSiteLevel
<1> QED
  BY <1>10, <1>11, <1>12 DEF Goes

LEMMA WriteSiteFilesKeeps ==
    ASSUME BuildInv, WriteSiteFiles
    PROVE  BuildInv'
<1> DEFINE stubs == writeRedirectStubs \cup writeConfigRedirects
           written == WritePages(out.pages, stubs, "stub", Offering(stubs))
<1>0. /\ KindInv /\ DocsInv /\ SiteInv /\ request.phase = "files"
      /\ UNCHANGED <<workTree, posts, tags, declared, blog, cache, spoilt>>
      /\ request' = [request EXCEPT !.phase = "index", !.next = 1]
  BY DEF BuildInv, WriteSiteFiles, repository, Goes
<1>1. out' = [out EXCEPT !.pages = written, !.feed = FeedEntries]
  BY Zenon DEF WriteSiteFiles
<1>2. /\ IsOutput(out') /\ out'.pages = written /\ out'.feed = FeedEntries
      /\ out'.sitemap = out.sitemap /\ out'.manifest = out.manifest
  <2>1. IsOutput(out)
    BY <1>0 DEF KindInv
  <2> HIDE DEF written
  <2> QED
    BY <1>1, <2>1 DEF IsOutput
<1>3. /\ DOMAIN out'.pages = DOMAIN out.pages \cup stubs
      /\ \A k \in stubs : out'.pages[k].from = "stub" /\ out'.pages[k].offers = {}
      /\ \A k \in DOMAIN out.pages \ stubs : out'.pages[k] = out.pages[k]
  <2>1. \A k \in stubs : Offering(stubs)[k] = {}
    BY DEF Offering
  <2>2. out'.pages = WritePages(out.pages, stubs, "stub", Offering(stubs))
    BY <1>2
  <2> HIDE DEF stubs, written
  <2>3. IsWritten(out'.pages, out.pages, stubs, "stub", Offering(stubs))
    BY <2>2, Written, Zenon
  <2>4. /\ DOMAIN out'.pages = DOMAIN out.pages \cup stubs
        /\ \A k \in stubs : out'.pages[k] = [from |-> "stub", offers |-> Offering(stubs)[k]]
        /\ \A k \in DOMAIN out.pages \ stubs : out'.pages[k] = out.pages[k]
    BY <2>3, Zenon DEF IsWritten
  <2>5. \A k \in stubs : out'.pages[k] = [from |-> "stub", offers |-> {}]
    BY <2>1, <2>4
  <2>6. \A k \in stubs : out'.pages[k].from = "stub" /\ out'.pages[k].offers = {}
    BY <2>5
  <2> QED
    BY <2>4, <2>6
<1>4. Listed => stubs \cap DOMAIN out.pages = {}
  <2>1. writeConfigRedirects \cap DOMAIN out.pages = {}
    BY DEF writeConfigRedirects
  <2> QED
    BY <2>1 DEF Listed
<1> HIDE DEF stubs, written
<1>5. /\ request'.phase = "index" /\ request'.next = 1 /\ FiltersKept
      /\ request'.injected = request.injected /\ request'.target = request.target
      /\ request'.drafts = request.drafts /\ IsRequest(request')
  BY <1>0, PhaseOnly DEF Phases, IsRequest
<1>6. KindInv'
  BY <1>0, <1>2, <1>5 DEF KindInv
<1>7. DocsInv'
  BY <1>0, <1>5 DEF DocsInv, Carrying, PostDocsPayloads, Published
<1>8. CacheInv' /\ PassesInv'
  BY <1>5 DEF CacheInv, PassesInv
<1>9. Landing'
  <2>1. Landing
    BY <1>0 DEF SiteInv, Done
  <2> SUFFICES ASSUME NEW k \in DOMAIN out'.pages
               PROVE  /\ out'.pages[k].offers \subseteq DOMAIN out'.pages
                      /\ k.version # "" /\ out'.pages[k].from # "stub" =>
                           out'.pages[k].from = tags[k.version]
    BY <1>0 DEF Landing
  <2>2. CASE k \in stubs
    BY <1>3, <2>2
  <2>3. CASE k \notin stubs
    <3>1. k \in DOMAIN out.pages /\ out'.pages[k] = out.pages[k]
      BY <1>3, <2>3
    <3> QED
      BY <1>3, <2>1, <3>1 DEF Landing
  <2> QED
    BY <2>2, <2>3
<1>10. ASSUME Full
       PROVE  Placed' /\ PostsPlaced' /\ out'.feed \subseteq DOMAIN out'.pages
  <2>1. Placed /\ Listed /\ PostsPlaced
    BY <1>0, <1>10 DEF SiteInv, Done
  <2>2. /\ stubs \cap DOMAIN out.pages = {} /\ DOMAIN out.pages \subseteq DOMAIN out'.pages
        /\ \A k \in DOMAIN out.pages : out'.pages[k] = out.pages[k]
    BY <1>3, <1>4, <2>1
  <2>3. Placed'
    <3>1. \A l \in Locales : \A p \in Tree[workTree].pages[l] \cup Tree[workTree].generated :
            /\ StableAddress(l, p) \in DOMAIN out'.pages
            /\ out'.pages[StableAddress(l, p)].from = workTree
      BY <2>1, <2>2 DEF Placed
    <3>2. out'.sitemap = {k \in DOMAIN out'.pages : k.version = "" /\ out'.pages[k].from # "stub"}
      BY <1>2, <1>3, <2>1, <2>2 DEF Placed
    <3> QED
      BY <1>0, <3>1, <3>2 DEF Placed
  <2>4. PostsPlaced'
    <3>1. \A p \in request.injected :
            SiteAddress(p) \in DOMAIN out'.pages /\ out'.pages[SiteAddress(p)].from = "posts"
      BY <2>1, <2>2 DEF PostsPlaced
    <3> QED
      BY <1>5, <3>1 DEF PostsPlaced
  <2>5. FeedEntries \subseteq DOMAIN out.pages
    <3>1. ToSet(BuildLocales) = Locales /\ ToSet(BuildVersions) = SiteVersions
      BY <1>0, <1>10, ListsAre
    <3>2. LocaleList[1] \in Locales /\ Latest \in SiteVersions
      BY ListsAreNotEmpty
    <3>3. \E n \in 1 .. PassCount : LocaleOf(n) = LocaleList[1] /\ VersionOf(n) = Latest
      BY <1>0, <3>1, <3>2, PassesAre
    <3>4. latestBuild.locale = LocaleList[1] /\ latestBuild.version = Latest
      <4> DEFINE Describes(j) == LocaleOf(j) = LocaleList[1] /\ VersionOf(j) = Latest
                 j0 == CHOOSE j \in 1 .. PassCount :
                         IF \E n \in 1 .. PassCount : LocaleOf(n) = LocaleList[1] /\ VersionOf(n) = Latest
                         THEN LocaleOf(j) = LocaleList[1] /\ VersionOf(j) = Latest
                         ELSE j = PassCount
      <4>1. LocaleOf(j0) = LocaleList[1] /\ VersionOf(j0) = Latest
        BY <3>3
      <4>2. latestBuild = [locale |-> LocaleOf(j0), version |-> VersionOf(j0)]
        BY DEF latestBuild
      <4> HIDE DEF j0
      <4> QED
        BY <4>1, <4>2
    <3> SUFFICES ASSUME NEW k \in FeedEntries
                 PROVE  k \in DOMAIN out.pages
      OBVIOUS
    <3>5. \/ \E p \in VersionedPass(Latest, LocaleList[1]) : k = StableAddress(LocaleList[1], p)
          \/ \E p \in PartitionPages(LocaleList[1]).unversioned : k = StableAddress(LocaleList[1], p)
          \/ \E p \in request.injected : k = SiteAddress(p)
      BY <3>1, <3>2, <3>4 DEF FeedEntries
    <3> QED
      BY <2>1, <3>2, <3>5 DEF Listed, PostsPlaced
  <2> QED
    BY <1>2, <2>2, <2>3, <2>4, <2>5
<1>11. Full' <=> Full
  BY <1>5 DEF Full, FiltersKept
<1>12. SiteInv'
  BY <1>5, <1>9, <1>10, <1>11 DEF SiteInv, Done
<1> QED
  BY <1>6, <1>7, <1>8, <1>12 DEF BuildInv

LEMMA RunPagefindKeeps ==
    ASSUME BuildInv, RunPagefind
    PROVE  BuildInv'
<1>0. /\ KindInv /\ DocsInv /\ SiteInv /\ request.phase = "index"
      /\ UNCHANGED <<workTree, posts, tags, declared, blog, cache, out, spoilt>>
  BY DEF BuildInv, RunPagefind, repository
<1>1. CASE Fails
  <2>1. KindInv'
    BY <1>0, <1>1, PhaseOnly DEF KindInv, Fails, Goes, Phases
  <2> QED
    BY <1>0, <1>1, <2>1, FailsKeeps
<1>2. CASE Goes("cleanup")
  <2>1. /\ request'.phase = "cleanup" /\ request'.next = 1 /\ FiltersKept
        /\ request'.injected = request.injected /\ request'.target = request.target
        /\ request'.drafts = request.drafts /\ IsRequest(request')
    BY <1>0, <1>2, PhaseOnly DEF Phases, IsRequest, Goes
  <2>2. KindInv'
    BY <1>0, <2>1 DEF KindInv
  <2>3. DocsInv'
    BY <1>0, <2>1 DEF DocsInv, Carrying, PostDocsPayloads, Published
  <2>4. CacheInv' /\ PassesInv'
    BY <2>1 DEF CacheInv, PassesInv
  <2>5. Landing' /\ (Full' => Full)
    BY <1>0, <2>1 DEF SiteInv, Done, Landing, Full, FiltersKept
  <2>6. Full => Placed' /\ PostsPlaced' /\ out'.feed \subseteq DOMAIN out'.pages
    <3>1. Placed => Placed'
      BY <1>0, Zenon DEF Placed, StableAddress
    <3>2. PostsPlaced => PostsPlaced'
      BY <1>0, <2>1 DEF PostsPlaced, SiteAddress
    <3> QED
      BY <1>0, <3>1, <3>2 DEF SiteInv, Done
  <2>7. SiteInv'
    BY <2>1, <2>5, <2>6 DEF SiteInv, Done
  <2> QED
    BY <2>2, <2>3, <2>4, <2>7 DEF BuildInv
<1> QED
  BY <1>1, <1>2 DEF RunPagefind

LEMMA SiteLevelFailsKeeps ==
    ASSUME BuildInv, SiteLevelFails
    PROVE  BuildInv'
<1>1. /\ KindInv /\ Fails /\ request.phase = "site"
      /\ UNCHANGED <<workTree, posts, tags, declared, blog, cache, out, spoilt>>
  BY DEF BuildInv, SiteLevelFails, repository
<1>2. KindInv'
  BY <1>1, PhaseOnly DEF KindInv, Fails, Goes, Phases
<1> QED
  BY <1>1, <1>2, FailsKeeps
-----------------------------------------------------------------------------
LEMMA BuildBegins == BuildInit => BuildInv
<1> SUFFICES ASSUME BuildInit PROVE BuildInv
  OBVIOUS
<1>1. /\ request.phase = "idle" /\ request.injected = {} /\ IsRequest(request)
      /\ DOMAIN blog = {}
  BY DEF BuildInit, NotBuilding, IsRequest, Phases
<1>2. KindInv
  <2>1. IsOutput(out) /\ out.manifest = {}
    BY DEF BuildInit, NoOutput, IsOutput
  <2> QED
    BY <1>1, <2>1 DEF BuildInit, KindInv, Older
<1>3. DocsInv
  BY <1>1 DEF DocsInv, Carrying
<1>4. CacheInv /\ PassesInv /\ SiteInv
  BY <1>1 DEF CacheInv, PassesInv, SiteInv, Done
<1> QED
  BY <1>2, <1>3, <1>4 DEF BuildInv

LEMMA BuildStep ==
    ASSUME BuildInv, [BuildNext]_buildVars
    PROVE  BuildInv'
<1>1. CASE \E target \in {"all", "posts"}, drafts \in {FALSE, Drafts # {}}, l \in Locales \cup {None},
              v \in SiteVersions \cup {None} : StartBuild(target, l, v, drafts)
  <2>1. PICK target \in {"all", "posts"}, drafts \in {FALSE, Drafts # {}}, l \in Locales \cup {None},
             v \in SiteVersions \cup {None} : StartBuild(target, l, v, drafts)
    BY <1>1
  <2>2. drafts \in BOOLEAN
    OBVIOUS
  <2> QED
    BY <2>1, <2>2, StartBuildKeeps
<1>2. CASE ClearOutput
  BY <1>2, ClearOutputKeeps
<1>3. CASE InjectionFails \/ Kill
  BY <1>3, Stops DEF InjectionFails, Kill
<1>4. CASE PartitionLocales
  BY <1>4, PartitionLocalesKeeps
<1>5. CASE \E p \in Posts \cup {Listing} : InjectPost(p)
  BY <1>5, InjectPostKeeps DEF Reserved
<1>6. CASE \E v \in SiteVersions : EnterCache(v) \/ FillCache(v)
  BY <1>6, EnterCacheKeeps, FillCacheKeeps
<1>7. CASE StartPasses
  BY <1>7, StartPassesKeeps
<1>8. CASE BuildVersioned
  BY <1>8, BuildVersionedKeeps
<1>9. CASE BuildUnversioned
  BY <1>9, BuildUnversionedKeeps
<1>10. CASE BuildSiteLevel
  BY <1>10, BuildSiteLevelKeeps
<1>11. CASE SiteLevelFails
  BY <1>11, SiteLevelFailsKeeps
<1>12. CASE WriteSiteFiles
  BY <1>12, WriteSiteFilesKeeps
<1>13. CASE RunPagefind
  BY <1>13, RunPagefindKeeps
<1>14. CASE \E left \in SUBSET request.injected : Cleanup(left)
  BY <1>14, CleanupKeeps
<1>15. CASE \/ \E t \in Trees : Checkout(t)
            \/ \E v \in SiteVersions \ {Latest}, t \in Trees \cup {None} : MoveTag(v, t)
            \/ \E paths \in SUBSET Sources : DeclareSources(paths)
            \/ \E set \in SUBSET Posts : ChangePosts(set)
            \/ \E p \in {Listing} : WriteBlogPage(p)
            \/ ClearBlog
  BY <1>15, AuthorActs DEF Older
<1>16. CASE UNCHANGED buildVars
  <2>1. UNCHANGED <<workTree, posts, blog, tags, declared, cache, out, request, spoilt>>
    BY <1>16 DEF buildVars
  <2>2. SamePages /\ SameLists
    BY <2>1, PagesKept DEF SourcesKept, FiltersKept
  <2>3. KindInv /\ DocsInv /\ CacheInv /\ PassesInv /\ SiteInv
    BY DEF BuildInv
  <2>4. KindInv'
    BY <2>1, <2>3 DEF KindInv
  <2>5. DocsInv'
    BY <2>1, <2>3 DEF DocsInv, PostDocsPayloads, Published
  <2>6. CacheInv'
    BY <2>1, <2>2, <2>3, Zenon DEF CacheInv, Extant, SameLists, ToSet
  <2>7. PassesInv'
    BY <2>1, <2>2, <2>3, Zenon DEF PassesInv, SamePages, SameLists
  <2>8. SiteInv'
    BY <2>1, <2>2, <2>3, Zenon DEF SiteInv, Landing, Full, Placed, Listed, PostsPlaced, SamePages
  <2> QED
    BY <2>4, <2>5, <2>6, <2>7, <2>8 DEF BuildInv
<1> QED
  BY <1>1, <1>2, <1>3, <1>4, <1>5, <1>6, <1>7, <1>8, <1>9, <1>10, <1>11, <1>12, <1>13, <1>14,
     <1>15, <1>16, Zenon DEF BuildNext
-----------------------------------------------------------------------------
\* What the invariant is for.

LEMMA BuildInvMeans ==
    ASSUME BuildInv
    PROVE  /\ BuildTypeOK /\ DocsAreLeftClean
           /\ NothingIsLost /\ PickersLand /\ ArchivesAreOfTheirTags /\ SitemapIsTheSite /\ FeedLands
<1>0. KindInv /\ DocsInv /\ SiteInv
  BY DEF BuildInv
<1>1. BuildTypeOK
  <2>1. request.injected \subseteq DOMAIN blog
    BY <1>0 DEF DocsInv
  <2>2. \A v \in SiteVersions \ {Latest} : /\ cache[v].tree \in Trees \cup {None}
                                          /\ cache[v].hash \in {None, cache[v].tree}
    BY <1>0 DEF KindInv, Older
  <2> QED
    BY <1>0, <2>1, <2>2 DEF BuildTypeOK, KindInv, Older, Reserved
<1>2. DocsAreLeftClean
  BY <1>0 DEF DocsAreLeftClean, DocsInv
<1>3. Finished => Landing
  BY <1>0 DEF Finished, SiteInv, Done
<1>4. PickersLand /\ ArchivesAreOfTheirTags
  BY <1>3 DEF PickersLand, ArchivesAreOfTheirTags, Landing
<1>5. Finished /\ Full => Placed /\ PostsPlaced /\ out.feed \subseteq DOMAIN out.pages
  BY <1>0 DEF Finished, SiteInv, Done
<1>6. Finished => request.injected = PostDocsPayloads(request.drafts)
  BY <1>0 DEF Finished, DocsInv, Carrying
<1>7. NothingIsLost
  BY <1>5, <1>6 DEF NothingIsLost, Placed, PostsPlaced
<1>8. SitemapIsTheSite /\ FeedLands
  BY <1>5 DEF SitemapIsTheSite, FeedLands, Placed
<1> QED
  BY <1>1, <1>2, <1>4, <1>7, <1>8

SparesAuthor ==
    \A p \in DOMAIN blog : blog[p] = "author" /\ request.phase # "idle"
      => p \in DOMAIN blog' /\ blog'[p] = "author"

LEMMA AuthorIsSpared == BuildInv => SparesAuthor
BY DEF BuildInv, DocsInv, SparesAuthor

\* For every configuration, tree, tag and post: a finished build has every page of the working
\* tree and every post where they belong, offers no version it did not write, takes each archive
\* from its tag, and lists what is there; and it gives docs/ back as it found it.
THEOREM BuildsKeepTheirSources == BuildSpec => BuildsAreOfTheirSources
<1>1. BuildInit => BuildInv
  BY BuildBegins
<1>2. BuildInv /\ [BuildNext]_buildVars => BuildInv'
  BY BuildStep
<1>3. BuildSpec => []BuildInv
  BY <1>1, <1>2, PTL DEF BuildSpec
<1>4. BuildInv => /\ BuildTypeOK /\ DocsAreLeftClean
                  /\ NothingIsLost /\ PickersLand /\ ArchivesAreOfTheirTags /\ SitemapIsTheSite /\ FeedLands
  BY BuildInvMeans
<1>5. BuildInv => [SparesAuthor]_buildVars
  BY AuthorIsSpared
<1>6. BuildSpec => [][SparesAuthor]_buildVars
  BY <1>3, <1>5, PTL
<1>7. BuildSpec => AuthoredPagesSurvive
  BY <1>6 DEF AuthoredPagesSurvive, SparesAuthor
<1> QED
  BY <1>3, <1>4, <1>7, PTL DEF BuildsAreOfTheirSources
====
