------------------------------ MODULE UnifiedSite ------------------------------
(* BuildUnified (internal/blog/unified): one site out of several projects.     *)
(* The posts of every project are written into its own docs tree for the time  *)
(* of the build; every project is built once per version and locale of the     *)
(* docs-site, an old version from the tag it pins; the posts share one tree.   *)
EXTENDS Naturals, Sequences, SequencesExt, FiniteSets, Functions

CONSTANTS
  ProjectList,   \* the slugs of unified.projects, in order
  VersionList,   \* the docs-site's versions, oldest first
  LocaleList,    \* its locales, the default one first
  Pinned,        \* [versions -> the projects whose tag that version pins]
  Sites,         \* what the projects may hold, a set of functions like docs
  Faults,        \* what may be wrong with a project: see fault
  MaxSpoilt      \* bound on failed writes, failed removals and kills

(* A site with no locale or no version is refused before anything is written.  *)
ASSUME ListsAreGiven ==
  /\ ProjectList \in Seq(Range(ProjectList))
  /\ VersionList \in Seq(Range(VersionList)) /\ VersionList # <<>>
  /\ LocaleList \in Seq(Range(LocaleList)) /\ LocaleList # <<>>

Common == "common"
Owners == ToSet(ProjectList) \cup {Common}
Latest == Last(VersionList)

VARIABLES
  docs,      \* per owner, the pages of its working tree, of its tag, of those
             \* that say "versioned: false", and the slugs of its posts
  fault,     \* [kind, owner]: an absent or unreadable configuration, a post or a
             \* directive that is broken, a tag or a base_url that is not there
  injected,  \* pairs of an owner and a page a build wrote into its docs tree
  build,     \* the build that is running
  site,      \* the output: [addresses -> what was written there]
  answer,    \* what the last build answered
  spoilt     \* how often a write or a removal failed or the build was killed

unifiedVars == <<docs, fault, injected, build, site, answer, spoilt>>
sources == <<docs, fault>>

NoBuild == [phase |-> "idle", next |-> 1, injected |-> {}, partition |-> <<>>, cards |-> <<>>]

-------------------------------------------------------------------------------
(* Pages are paths; the posts and their listing are under "blog".              *)
Listing == <<"blog">>
PostPage(slug) == <<"blog", slug>>
IsSiteLevelPage(p) == p[1] = "blog"
reservedTopSegments == {"blog", "v"}
CheckReservedPagePaths(paths) == \A p \in paths : p[1] \notin reservedTopSegments

PostDocsPayloads(o) ==
  {PostPage(s) : s \in docs[o].posts} \cup (IF docs[o].posts = {} THEN {} ELSE {Listing})
InjectedInto(o) == {i[2] : i \in {j \in injected : j[1] = o}}

(* ResolveAll of a working tree sees what the build put there.                 *)
WorkingTree(o) == docs[o].work \cup InjectedInto(o)

PartitionPages(o) ==
  LET mounted == {p \in WorkingTree(o) : ~IsSiteLevelPage(p)}
  IN [versioned   |-> mounted \ docs[o].unversioned,
      unversioned |-> mounted \cap docs[o].unversioned,
      site        |-> WorkingTree(o) \ mounted]

LocaleSegment(l) == IF Len(LocaleList) > 1 THEN l ELSE ""
MountAddress(l, o, v, p) ==
  [locale |-> LocaleSegment(l), project |-> o, version |-> IF v = Latest THEN "" ELSE v, page |-> p]
SiteLevelAddress(p) == [locale |-> "", project |-> "", version |-> "", page |-> p]

(* writeHTMLFiles: later files replace earlier ones.                           *)
Written(content) == [a \in DOMAIN site \cup DOMAIN content |->
                       IF a \in DOMAIN content THEN content[a] ELSE site[a]]
Content(o, from, addresses) == [a \in addresses |-> [owner |-> o, from |-> from]]

-------------------------------------------------------------------------------
(* The setup: one owner after the other, the docs-site last.                   *)
SetupOrder == Append(ProjectList, Common)
SettingUp == build.phase = "setup" /\ build.next <= Len(SetupOrder)
SetupOwner == SetupOrder[build.next]
Wrong(kind, o) == fault = [kind |-> kind, owner |-> o]

Fails == build' = [build EXCEPT !.phase = "cleanup"] /\ answer' = "failing"
Goes(phase) == build' = [build EXCEPT !.phase = phase, !.next = 1] /\ UNCHANGED answer
Continues == build' = [build EXCEPT !.next = @ + 1] /\ UNCHANGED answer

(* A docs-site that is not configured for a unified build, or whose theme,     *)
(* workspace or docs directory is wrong, is refused with the output untouched. *)
StartRefused ==
  /\ build.phase = "idle" /\ Wrong("refused", Common)
  /\ answer' = "failed"
  /\ UNCHANGED <<sources, injected, build, site, spoilt>>

StartUnified ==
  /\ build.phase = "idle" /\ ~Wrong("refused", Common)
  /\ site' = <<>>
  /\ build' = [NoBuild EXCEPT !.phase = "setup"] /\ answer' = "running"
  /\ UNCHANGED <<sources, injected, spoilt>>

(* A configuration that cannot be read fails the setup; one that is not there  *)
(* is passed over, and so are that project's posts. The docs-site's was read   *)
(* at the start.                                                               *)
LoadFails ==
  /\ SettingUp /\ SetupOwner # Common /\ Wrong("unreadable", SetupOwner)
  /\ Fails
  /\ UNCHANGED <<sources, injected, site, spoilt>>

PassOver ==
  /\ SettingUp /\ SetupOwner # Common /\ Wrong("absent", SetupOwner)
  /\ Continues
  /\ UNCHANGED <<sources, injected, site, spoilt>>

Loads(o) == o = Common \/ (~Wrong("unreadable", o) /\ ~Wrong("absent", o))

(* InjectPostsIntoDocs refuses a docs tree with a page on a reserved path,     *)
(* which is also what an earlier build left there, and a post it cannot read.  *)
Refuses(o) == ~CheckReservedPagePaths(WorkingTree(o)) \/ Wrong("post", o)

InjectionRefused ==
  /\ SettingUp /\ Loads(SetupOwner) /\ Refuses(SetupOwner)
  /\ Fails
  /\ UNCHANGED <<sources, injected, site, spoilt>>

Remembers(o, files) ==
  [build EXCEPT !.phase = "partition", !.injected = @ \cup ({o} \X files)]

(* A write that fails leaves the files before it, which nobody remembers; the  *)
(* listing is the first one.                                                   *)
InjectPosts(files) ==
  /\ SettingUp /\ Loads(SetupOwner) /\ ~Refuses(SetupOwner)
  /\ files \subseteq PostDocsPayloads(SetupOwner) /\ (files # {} => Listing \in files)
  /\ injected' = injected \cup ({SetupOwner} \X files)
  /\ IF files = PostDocsPayloads(SetupOwner)
     THEN build' = Remembers(SetupOwner, files) /\ UNCHANGED <<answer, spoilt>>
     ELSE spoilt < MaxSpoilt /\ spoilt' = spoilt + 1 /\ Fails
  /\ UNCHANGED <<sources, site>>

(* PartitionPages resolves every page, and a directive may not resolve.        *)
PartitionOwner ==
  /\ build.phase = "partition"
  /\ IF Wrong("unresolved", SetupOwner) THEN Fails
     ELSE /\ build' = [build EXCEPT !.phase = "setup", !.next = @ + 1,
                !.partition = [o \in DOMAIN @ \cup {SetupOwner} |->
                                 IF o = SetupOwner THEN PartitionPages(o) ELSE @[o]]]
          /\ UNCHANGED answer
  /\ UNCHANGED <<sources, injected, site, spoilt>>

(* run checks the partitions again: nothing on a reserved path got this far.   *)
SetupEnds ==
  /\ build.phase = "setup" /\ build.next > Len(SetupOrder)
  /\ IF \A o \in DOMAIN build.partition :
          CheckReservedPagePaths(build.partition[o].versioned \cup build.partition[o].unversioned)
     THEN Goes("constituents") ELSE Fails
  /\ UNCHANGED <<sources, injected, site, spoilt>>

-------------------------------------------------------------------------------
(* The passes.                                                                 *)

(* buildConstituents: versions, then projects, then locales.                   *)
PassCount == Len(VersionList) * Len(ProjectList) * Len(LocaleList)
PassVersion(i) == VersionList[((i - 1) \div (Len(ProjectList) * Len(LocaleList))) + 1]
PassProject(i) == ProjectList[(((i - 1) \div Len(LocaleList)) % Len(ProjectList)) + 1]
PassLocale(i)  == LocaleList[((i - 1) % Len(LocaleList)) + 1]

FromTag(v, o) == v # Latest /\ o \in Pinned[v]
PassTree(v, o) == IF FromTag(v, o) THEN docs[o].tag ELSE WorkingTree(o)

(* The filter of a pass is the working tree's partition, whatever tree is      *)
(* built; a project none of whose pages is unversioned is built unfiltered.    *)
PassPages(v, o) ==
  IF build.partition[o].unversioned = {} THEN PassTree(v, o)
  ELSE PassTree(v, o) \cap build.partition[o].versioned

(* No configuration, no tag, or an unfiltered walk without a page.             *)
NothingToBuild(v, o) == build.partition[o].unversioned = {} /\ PassTree(v, o) = {}
PassFails(v, o) ==
  \/ o \notin DOMAIN build.partition
  \/ FromTag(v, o) /\ Wrong("untagged", o)
  \/ NothingToBuild(v, o)

BuildConstituent ==
  /\ build.phase = "constituents" /\ build.next <= PassCount
  /\ LET v == PassVersion(build.next)
         o == PassProject(build.next)
         l == PassLocale(build.next)
     IN IF PassFails(v, o) THEN Fails /\ UNCHANGED site
        ELSE /\ site' = Written(Content(o, IF FromTag(v, o) THEN "tag" ELSE "work",
                                  {MountAddress(l, o, v, p) : p \in PassPages(v, o)}))
             /\ build' = [build EXCEPT !.next = @ + 1,
                  !.cards = IF v = Latest /\ l = LocaleList[1] THEN Append(@, o) ELSE @]
             /\ UNCHANGED answer
  /\ UNCHANGED <<sources, injected, spoilt>>

(* buildConstituentUnversioned, buildCommon and buildCommonUnversioned write   *)
(* what is left of the working trees at the mounts without a version.          *)
Unversioned(o) ==
  {MountAddress(l, o, Latest, p) : l \in ToSet(LocaleList), p \in build.partition[o].unversioned}

BuildConstituentUnversioned ==
  /\ build.phase = "constituents" /\ build.next > PassCount
  /\ site' = Written([a \in UNION {Unversioned(o) : o \in ToSet(ProjectList)} |->
                        [owner |-> a.project, from |-> "work"]])
  /\ Goes("common")
  /\ UNCHANGED <<sources, injected, spoilt>>

BuildCommon ==
  /\ build.phase = "common"
  /\ IF NothingToBuild(Latest, Common) THEN Fails /\ UNCHANGED site
     ELSE /\ site' = Written(Content(Common, "work", Unversioned(Common) \cup
               {MountAddress(l, Common, Latest, p) :
                  l \in ToSet(LocaleList), p \in PassPages(Latest, Common)}))
          /\ Goes("posts")
  /\ UNCHANGED <<sources, injected, spoilt>>

(* CheckPostSlugUniqueness over the claims of every owner.                     *)
PostPages(o) == build.partition[o].site \ {Listing}
SlugsAreUnique ==
  \A o1, o2 \in DOMAIN build.partition : o1 # o2 => PostPages(o1) \cap PostPages(o2) = {}

BuildSiteLevelPages ==
  /\ build.phase = "posts"
  /\ IF ~SlugsAreUnique THEN Fails /\ UNCHANGED site
     ELSE /\ site' = Written(
               [a \in {SiteLevelAddress(p) : p \in UNION {PostPages(o) : o \in DOMAIN build.partition}} |->
                  [owner |-> CHOOSE o \in DOMAIN build.partition : a.page \in PostPages(o),
                   from  |-> "posts"]])
          /\ Goes("files")
  /\ UNCHANGED <<sources, injected, spoilt>>

(* The landing page, the shared assets, the auxiliary files and the redirect   *)
(* at the root need the docs-site's pass and its base_url.                     *)
LandingPage == MountAddress(LocaleList[1], Common, Latest, <<"projects">>)
WriteSiteFiles ==
  /\ build.phase = "files"
  /\ IF Wrong("base_url", Common) THEN Fails /\ UNCHANGED site
     ELSE /\ site' = Written(Content("build", "work", {LandingPage, SiteLevelAddress(<<"index">>)}))
          /\ Goes("index")
  /\ UNCHANGED <<sources, injected, spoilt>>

(* RunPagefind is another program, and CompressOutput writes beside the files. *)
IndexAndCompress ==
  /\ build.phase = "index"
  /\ \/ build' = [build EXCEPT !.phase = "cleanup"] /\ UNCHANGED answer
     \/ Fails
  /\ UNCHANGED <<sources, injected, site, spoilt>>

(* The deferred cleanup: what cannot be removed is left, and its error is the  *)
(* build's when the build had none.                                            *)
CleanUp(left) ==
  /\ build.phase = "cleanup"
  /\ left \subseteq build.injected
  /\ IF left = {} THEN UNCHANGED spoilt ELSE spoilt < MaxSpoilt /\ spoilt' = spoilt + 1
  /\ injected' = (injected \ build.injected) \cup left
  /\ answer' = IF answer = "failing" \/ left # {} THEN "failed" ELSE "built"
  /\ build' = NoBuild
  /\ UNCHANGED <<sources, site>>

KillUnified ==
  /\ build.phase # "idle" /\ spoilt < MaxSpoilt
  /\ spoilt' = spoilt + 1
  /\ build' = NoBuild /\ answer' = "killed"
  /\ UNCHANGED <<sources, injected, site>>

UnifiedInit ==
  /\ docs \in Sites
  /\ fault \in Faults
  /\ injected = {} /\ build = NoBuild /\ site = <<>> /\ answer = "none" /\ spoilt = 0

UnifiedNext ==
  \/ StartRefused \/ StartUnified \/ LoadFails \/ PassOver \/ InjectionRefused
  \/ \E files \in SUBSET UNION {PostDocsPayloads(o) : o \in Owners} : InjectPosts(files)
  \/ PartitionOwner \/ SetupEnds
  \/ BuildConstituent \/ BuildConstituentUnversioned \/ BuildCommon
  \/ BuildSiteLevelPages \/ WriteSiteFiles \/ IndexAndCompress
  \/ \E left \in SUBSET build.injected : CleanUp(left)
  \/ KillUnified

UnifiedSpec == UnifiedInit /\ [][UnifiedNext]_unifiedVars

-------------------------------------------------------------------------------
(* However a build ends, unless it was killed or a file could not be written   *)
(* or removed, the docs trees of all projects hold what their authors wrote    *)
(* (the deferred cleanup of BuildUnified).                                     *)
TreesAreLeftClean == build.phase = "idle" /\ spoilt = 0 => injected = {}

(* A site that was built serves every post of every project that is on it,     *)
(* at the address all projects share, as its own project wrote it              *)
(* (CheckPostSlugUniqueness before the shared tree).                           *)
PostsReachTheSite ==
  answer = "built" =>
    \A o \in Owners : \A s \in docs[o].posts :
      /\ SiteLevelAddress(PostPage(s)) \in DOMAIN site
      /\ site[SiteLevelAddress(PostPage(s))].owner = o
===============================================================================
