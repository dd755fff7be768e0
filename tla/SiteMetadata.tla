------------------------------ MODULE SiteMetadata ----------------------------
(* What a built site says of itself: the sitemaps, robots.txt, the feed and    *)
(* llms.txt (internal/build), and in every page's head its canonical address,  *)
(* its alternates, its breadcrumbs and its social card (internal/page).  They  *)
(* are made at the end of the build from one pass, or by a page from its own   *)
(* mount alone, and all of them name pages that other passes emit.  A path is  *)
(* the sequence of its segments, a page's Markdown path without the ".md".     *)
EXTENDS Integers, Sequences, SequencesExt, FiniteSets, TLC

CONSTANTS
  LocaleLists,  \* the locales a project may have, each list's first the default
  Paths,        \* the pages of the docs tree
  Posts,        \* the pages of posts, injected under blog/
  Unfed,        \* the pages that say "feed: false"
  NoDate,       \* model value: an entry of the sitemap without a date
  MaxEdits      \* bound on the steps that change the repository

VARIABLES
  locales,      \* the configured locales
  authored,         \* locale -> the pages of the working tree
  unversioned,  \* locale -> those of them that say "versioned: false"
  tagged,       \* locale -> the pages at the tag of the first version
  released,     \* that version has been superseded
  posts,        \* the pages of the published posts and of their listing
  edits         \* how many steps there have been

metadataVars == <<locales, authored, unversioned, tagged, released, posts, edits>>

-------------------------------------------------------------------------------
(* Addresses, as directories of an index.html.                                *)

Dir(md) == IF md = <<"index">> THEN <<>> ELSE md
MdOfHTML(dir) == IF dir = <<>> THEN <<"index">> ELSE dir

Listing == <<"blog">>
Codes == ToSet(locales)
Default == locales[1]
LocaleSegment(l) == IF Len(locales) > 1 THEN <<l>> ELSE <<>>
Versions == IF released THEN <<"1", "2">> ELSE <<"1">>
LatestVersion == Last(Versions)

StableDir(page) == page.mount \o Dir(page.md)
Emitted(page) ==
  page.mount \o (IF page.archived THEN <<"v", page.version>> ELSE <<>>) \o Dir(page.md)

-------------------------------------------------------------------------------
(* The passes.  A filter keeps one locale, one version, or everything: "".     *)

Filters == {[locale |-> l, version |-> v] : l \in Codes \cup {""}, v \in ToSet(Versions) \cup {""}}
BuildLocales(f) == SelectSeq(locales, LAMBDA l : f.locale \in {"", l})
BuildVersions(f) == SelectSeq(Versions, LAMBDA v : f.version \in {"", v})

(* The docs tree of the only locale holds the injected posts as well; once a  *)
(* locale has an unversioned page its passes are filtered by the working tree.*)
Source(l, v) ==
  IF v # LatestVersion THEN tagged[l]
  ELSE authored[l] \cup (IF Len(locales) > 1 THEN {} ELSE posts)
PassPages(l, v) ==
  IF unversioned[l] = {} THEN Source(l, v)
  ELSE Source(l, v) \cap (authored[l] \ unversioned[l])

Versioned(l, v) ==
  {[md |-> p, mount |-> LocaleSegment(l), version |-> v, archived |-> v # LatestVersion,
    locales |-> locales] : p \in PassPages(l, v)}
Unversioned(l) ==
  {[md |-> p, mount |-> LocaleSegment(l), version |-> "", archived |-> FALSE,
    locales |-> locales] : p \in unversioned[l]}
SiteLevel ==
  {[md |-> p, mount |-> <<>>, version |-> "", archived |-> FALSE, locales |-> <<>>] :
     p \in posts}

PassesOf(f) == ToSet(BuildLocales(f)) \X ToSet(BuildVersions(f))
MountedPages(f) ==
  UNION ({Versioned(b[1], b[2]) : b \in PassesOf(f)}
           \cup {Unversioned(l) : l \in ToSet(BuildLocales(f))})
Pages(f) ==  \* the last pass that writes a file wins
  {p \in MountedPages(f) : ~\E q \in SiteLevel : Emitted(q) = Emitted(p)} \cup SiteLevel
Served(f) == {Emitted(p) : p \in Pages(f)}

(* A pass that no filter narrows needs a page, and so does the whole build.    *)
Builds(f) ==
  /\ \A b \in PassesOf(f) : unversioned[b[1]] = {} => Source(b[1], b[2]) # {}
  /\ Pages(f) # {}

-------------------------------------------------------------------------------
(* The files of the site.                                                     *)

(* The pass they are made from: the default locale's current version, and     *)
(* where the filter left that out the last pass there was.                     *)
latest(f) ==
  IF Default \in ToSet(BuildLocales(f)) /\ LatestVersion \in ToSet(BuildVersions(f))
  THEN <<Default, LatestVersion>>
  ELSE <<Last(BuildLocales(f)), Last(BuildVersions(f))>>

addressesFor(pages) ==
  [md \in {p.md : p \in pages} |-> StableDir(CHOOSE p \in pages : p.md = md)]

(* mergeAddresses: the unversioned pages of the default locale and the posts,  *)
(* with the addresses of their own passes.                                     *)
mergeAddresses(f) ==
  addressesFor(SiteLevel)
    @@ addressesFor(IF Default \in ToSet(BuildLocales(f)) THEN Unversioned(Default) ELSE {})
    @@ addressesFor(Versioned(latest(f)[1], latest(f)[2]))

(* GenerateLLMSTxt lists each of those pages; GenerateAtomFeed leaves out the  *)
(* ones that do not want to be in a feed.  The project sets no feed_max_entries, *)
(* which would keep the newest of them.                                        *)
GenerateLLMSTxt(f) == {mergeAddresses(f)[md] : md \in DOMAIN mergeAddresses(f)}
GenerateAtomFeed(f) == {mergeAddresses(f)[md] : md \in DOMAIN mergeAddresses(f) \ Unfed}
(* The social cards, one for each of those pages, named for its path.          *)
Cards(f) == DOMAIN mergeAddresses(f)

(* perLocaleStableHTML: what a locale has at stable addresses, the default    *)
(* one's posts included.                                                       *)
StableHTML(f, l) ==
  {Emitted(p) : p \in (IF LatestVersion \in ToSet(BuildVersions(f))
                       THEN Versioned(l, LatestVersion) ELSE {})
                        \cup Unversioned(l)
                        \cup (IF l = Default THEN SiteLevel ELSE {})}

GenerateSitemap(f) == UNION {StableHTML(f, l) : l \in ToSet(BuildLocales(f))}

HasSitemapIndex(f) == Len(BuildLocales(f)) > 1

(* The files there are, each with what it lists: a sitemap pages, the index   *)
(* sitemaps.                                                                   *)
Sitemaps(f) ==
  (<<"sitemap.xml">> :> GenerateSitemap(f))
    @@ (IF Len(BuildLocales(f)) > 1
        THEN [s \in {<<l, "sitemap.xml">> : l \in ToSet(BuildLocales(f))} |-> StableHTML(f, s[1])]
        ELSE <<>>)
GenerateSitemapIndex(f) ==
  IF Len(BuildLocales(f)) > 1
  THEN {<<l, "sitemap.xml">> : l \in ToSet(BuildLocales(f))} ELSE {}

(* What a crawler that starts from robots.txt finds.                           *)
Crawled(f) ==
  IF HasSitemapIndex(f)
  THEN UNION {Sitemaps(f)[s] : s \in GenerateSitemapIndex(f)}
  ELSE Sitemaps(f)[<<"sitemap.xml">>]

(* The page whose date an entry carries.  The dates are keyed by Markdown path *)
(* and the entry by output key, so what is not found is looked for again under *)
(* its last segment and under what follows the second one.                     *)
lastmod(f, key) ==
  LET md    == MdOfHTML(key)
      dates == mergeAddresses(f)
  IN IF md \in DOMAIN dates THEN dates[md]
     ELSE IF Len(md) > 1 /\ <<Last(md)>> \in DOMAIN dates THEN dates[<<Last(md)>>]
     ELSE IF Len(md) > 2 /\ SubSeq(md, 3, Len(md)) \in DOMAIN dates
     THEN dates[SubSeq(md, 3, Len(md))] ELSE NoDate

-------------------------------------------------------------------------------
(* The head of a page (RenderSEOTags).                                        *)

Pinned(page) == Emitted(page)  \* mutant: every copy is its own authority
canonicalURL(page) == StableDir(page)

localeHref(page, l) == <<l>> \o Dir(page.md)
Alternates(page) ==
  IF Len(page.locales) > 1 THEN {localeHref(page, l) : l \in ToSet(page.locales)} ELSE {}

Ancestors(page) == {n \in 1 .. Len(Dir(page.md)) - 1 : TRUE}

(* The n-th item of the breadcrumbs' structured data, and of the visible trail *)
(* (buildBreadcrumbs), which links the pages its own pass emits.               *)
crumbURL(page, n) == page.mount \o SubSeq(page.md, 1, n)
TrailLinks(pass, page) ==
  {n \in Ancestors(page) : \E q \in pass : q.md = SubSeq(page.md, 1, n)}

Card(page) == MdOfHTML(Dir(page.md))

-------------------------------------------------------------------------------
MetadataInit ==
  /\ locales \in LocaleLists
  /\ authored = [l \in Codes |-> {<<"index">>}]
  /\ unversioned = [l \in Codes |-> {}]
  /\ tagged = [l \in Codes |-> {}]
  /\ released = FALSE
  /\ posts = {}
  /\ edits = 0

Counted == edits < MaxEdits /\ edits' = edits + 1

WritePage(l, p) ==
  /\ Counted /\ p \notin authored[l]
  /\ authored' = [authored EXCEPT ![l] = @ \cup {p}]
  /\ UNCHANGED <<locales, unversioned, tagged, released, posts>>
Delete(l, p) ==
  /\ Counted /\ p \in authored[l]
  /\ authored' = [authored EXCEPT ![l] = @ \ {p}]
  /\ unversioned' = [unversioned EXCEPT ![l] = @ \ {p}]
  /\ UNCHANGED <<locales, tagged, released, posts>>
Declare(l, p) ==
  /\ Counted /\ p \in authored[l]
  /\ unversioned' = [unversioned EXCEPT ![l] = (@ \cup {p}) \ (@ \cap {p})]
  /\ UNCHANGED <<locales, authored, tagged, released, posts>>
Release ==
  /\ Counted /\ ~released
  /\ released' = TRUE /\ tagged' = authored
  /\ UNCHANGED <<locales, authored, unversioned, posts>>
Publish(p) ==
  /\ Counted /\ p \notin posts
  /\ posts' = posts \cup {p, Listing}
  /\ UNCHANGED <<locales, authored, unversioned, tagged, released>>

MetadataNext ==
  \/ \E l \in Codes, p \in Paths : WritePage(l, p) \/ Delete(l, p) \/ Declare(l, p)
  \/ Release
  \/ \E p \in Posts : Publish(p)

MetadataSpec == MetadataInit /\ [][MetadataNext]_metadataVars

-------------------------------------------------------------------------------
(* A crawler that starts from robots.txt finds only pages that are served, at  *)
(* their stable addresses, and every one of them but the posts, which a build  *)
(* without the default locale leaves out.                                      *)
SitemapsListTheStablePages ==
  \A f \in {g \in Filters : Builds(g)} :
    LET stable == {p \in Pages(f) : ~p.archived}
    IN /\ Crawled(f) \subseteq {Emitted(p) : p \in stable}
       /\ \A p \in stable :
            p \notin SiteLevel \/ Default \in ToSet(BuildLocales(f)) => Emitted(p) \in Crawled(f)

(* The copies of a page, archived or not, declare one canonical address, and   *)
(* the copy that is served there is the current one.                           *)
CopiesNameTheirSuccessor ==
  \A f \in {g \in Filters : Builds(g)} :
    \A p, q \in Pages(f) :
      /\ p.md = q.md /\ p.mount = q.mount => canonicalURL(p) = canonicalURL(q)
      /\ Emitted(q) = canonicalURL(p) => ~q.archived /\ q.md = p.md

(* A page is among its own alternates, and a served page it names as one names *)
(* it in turn: a set of alternates that is not mutual is ignored whole.        *)
AlternatesAreMutual ==
  \A f \in {g \in Filters : Builds(g)} :
    \A p \in {q \in Pages(f) : Alternates(q) # {}} :
      /\ canonicalURL(p) \in Alternates(p)
      /\ \A q \in Pages(f) : Emitted(q) \in Alternates(p) => canonicalURL(p) \in Alternates(q)

(* Of every build that has the default locale's current version, the feed and  *)
(* llms.txt list that locale's pages and the posts, and nothing that is not    *)
(* served.                                                                     *)
ListingsAreTheDefaultSite ==
  \A f \in {g \in Filters : Builds(g) /\ latest(g) = <<Default, LatestVersion>>} :
    LET current == {q \in Pages(f) : ~q.archived /\ q.mount \in {<<>>, LocaleSegment(Default)}}
    IN /\ GenerateLLMSTxt(f) = {Emitted(p) : p \in current}
       /\ GenerateAtomFeed(f) = {Emitted(p) : p \in {q \in current : q.md \notin Unfed}}
       /\ Cards(f) = {Card(p) : p \in current}

(* On a site of one locale "the last-modified date is the page's modification  *)
(* date" (GenerateSitemap), although dates are found by name.                  *)
DatesAreThePagesOwn ==
  Len(locales) = 1 =>
    \A f \in {g \in Filters : Builds(g)} :
      \A key \in GenerateSitemap(f) : lastmod(f, key) \in {NoDate, key}

(* Where the trail a reader sees links an ancestor of the page, the structured *)
(* data a crawler reads names the page that superseded that one.               *)
CrumbsNameTheTrail ==
  \A f \in {g \in Filters : Builds(g)} :
    \A p \in Pages(f) :
      LET pass == {q \in Pages(f) : q.mount = p.mount /\ q.version = p.version}
      IN \A n \in TrailLinks(pass, p) :
           \E q \in pass : q.md = SubSeq(p.md, 1, n) /\ crumbURL(p, n) = canonicalURL(q)

(* What is written about the site for readers that see no page -- sitemaps,   *)
(* canonical addresses, alternates, feeds, dates and trails -- is true of the *)
(* site of the same build, filtered or not.                                   *)
MetadataIsOfTheSite ==
  /\ SitemapsListTheStablePages /\ CopiesNameTheirSuccessor /\ AlternatesAreMutual
  /\ ListingsAreTheDefaultSite /\ DatesAreThePagesOwn /\ CrumbsNameTheTrail
===============================================================================
