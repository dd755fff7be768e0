------------------------------- MODULE Links -------------------------------
(* Addresses and references: NewPageAddress (internal/address) decides where a *)
(* page is, EmittedRef (internal/html) how a page of the docs tree is named    *)
(* from another one, and CheckProjectOutputResolution (internal/resolution)    *)
(* whether what was emitted names something.  A path is the sequence of its    *)
(* segments, a page's Markdown path without the ".md".                         *)
EXTENDS Integers, Sequences, FiniteSets, SequencesExt

CONSTANTS
  PageNames,  \* segments of page paths, "index" and "blog" among them
  Mounts,     \* coordinates: [locale, project, version, archived]
  MaxPage, MaxRef  \* bounds on the segments of a page and of a reference

VARIABLES
  writer,  \* the page that writes a reference, as a Markdown path
  ref,     \* the reference it writes to a .md path
  coords   \* where the build mounts the writer

linkVars == <<writer, ref, coords>>

-------------------------------------------------------------------------------
(* Paths.                                                                      *)

(* path.Clean of a relative path *)
Clean(path) ==
  LET clean[n \in 0 .. Len(path)] ==
        IF n = 0 THEN <<>>
        ELSE IF path[n] = "." THEN clean[n - 1]
        ELSE IF path[n] = ".." /\ clean[n - 1] # <<>> /\ Last(clean[n - 1]) # ".."
        THEN Front(clean[n - 1])
        ELSE Append(clean[n - 1], path[n])
  IN clean[Len(path)]

Parent(path) == IF path = <<>> THEN <<>> ELSE Front(path)
Climb(n) == [i \in 1 .. n |-> ".."]
Outside(path) == path # <<>> /\ path[1] = ".."

(* Where the browser gets to from a page's directory, and what it is served:   *)
(* the directory of an index.html (ReferenceTarget).                          *)
Follow(dir, href) ==
  LET path == Clean(dir \o href)
  IN IF path # <<>> /\ Last(path) = "index.html" THEN Front(path) ELSE path

-------------------------------------------------------------------------------
(* Addresses.                                                                 *)

(* MdToHTMLPath, as the directory of the page's index.html, and back.          *)
MdToHTMLPath(md) == IF md = <<"index">> THEN <<>> ELSE md
HTMLToMdPath(dir) == IF dir = <<>> THEN <<"index">> ELSE dir

Segments(parts) == SelectSeq(parts, LAMBDA part : part # "")
ArchivePrefix == "v"
IsSiteLevel(path) == path # <<>> /\ path[1] = "blog"

StableMount(c) == Segments(<<c.locale, c.project>>)
ArchiveMount(c) ==
  IF c.version = "" THEN StableMount(c)
  ELSE Segments(<<c.locale, c.project, ArchivePrefix, c.version>>)
Mount(c) == IF c.archived THEN ArchiveMount(c) ELSE StableMount(c)

(* NewPageAddress refuses a page on the archive's segment.                     *)
Addressable(md) == md[1] # ArchivePrefix
OutputDir(md, c) == Mount(c) \o MdToHTMLPath(md)

Depth(md, c) == Len(OutputDir(md, c))
ToSiteRoot(md, c) == Climb(Depth(md, c))
ToMountRoot(md) == Climb(Len(MdToHTMLPath(md)))
ToStableMountRoot(md, c) == Climb(Depth(md, c) - Len(StableMount(c)))

(* Mutant: the hop of the sidebar stays in the archive.                        *)
HopOfTheMount(target, md, c) == IF IsSiteLevel(target) THEN ToSiteRoot(md, c) ELSE ToMountRoot(md)

(* PathHop, between the site level and the project's own pages.                *)
PathHop(target, md, c) ==
  IF IsSiteLevel(target) THEN ToSiteRoot(md, c) ELSE ToStableMountRoot(md, c)

-------------------------------------------------------------------------------
(* References between pages of a docs tree.                                    *)

relPath(target, base) ==
  LET common == CHOOSE n \in 0 .. Len(target) :
        /\ n <= Len(base) /\ SubSeq(target, 1, n) = SubSeq(base, 1, n)
        /\ n < Len(target) /\ n < Len(base) => target[n + 1] # base[n + 1]
  IN Climb(Len(base) - common) \o SubSeq(target, common + 1, Len(target))

TargetMd(md, reference) == Clean(Parent(md) \o reference)

(* pageRefTarget: relative to the emitted page's directory; the root page is   *)
(* named by its file.                                                         *)
pageRefTarget(md, reference) ==
  LET target == MdToHTMLPath(TargetMd(md, reference))
      url    == IF target = <<>> THEN <<"index.html">> ELSE target
  IN relPath(url, MdToHTMLPath(md))

(* What is written when the target is outside of the tree stays as it is.      *)
EmittedRef(md, reference) ==
  IF Outside(TargetMd(md, reference)) THEN reference ELSE pageRefTarget(md, reference)

-------------------------------------------------------------------------------

Segments2 == PageNames \cup {"..", "."}

Nest(name) ==
  /\ Len(writer) < MaxPage
  /\ writer' = Append(writer, name) /\ UNCHANGED <<ref, coords>>
Refer(segment) ==
  /\ Len(ref) < MaxRef
  /\ ref' = Append(ref, segment) /\ UNCHANGED <<writer, coords>>

LinksInit ==
  /\ writer \in {<<name>> : name \in PageNames}
  /\ ref \in {<<name>> : name \in Segments2}
  /\ coords \in Mounts
LinksNext ==
  \/ \E name \in PageNames : Nest(name)
  \/ \E segment \in Segments2 : Refer(segment)

-------------------------------------------------------------------------------

(* A reference that names a Markdown file ends with a page.                    *)
Names == Last(ref) \in PageNames

(* A link to a Markdown file of the docs tree leads to the page that file       *)
(* became, from every page, in every mount (RewriteInternalLinks: siblings,    *)
(* subdirectory pages, parent pages and the root index).                       *)
LinksLand ==
  Names /\ ~Outside(TargetMd(writer, ref)) =>
    Follow(OutputDir(writer, coords), EmittedRef(writer, ref))
      = OutputDir(TargetMd(writer, ref), coords)

(* The sidebar's hops lead from a page, archived or not, to the current copy    *)
(* of a page of the project and to the site level (ToStableMountRoot), and the  *)
(* hop to the mount root stays within the mount.                               *)
HopsLand ==
  LET dir == OutputDir(writer, coords)
  IN /\ Clean(dir \o ToMountRoot(writer)) = Mount(coords)
     /\ Names /\ ~Outside(TargetMd(writer, ref)) =>
          LET target == TargetMd(writer, ref)
          IN Follow(dir, PathHop(target, writer, coords) \o MdToHTMLPath(target))
               = IF IsSiteLevel(target) THEN target
                 ELSE StableMount(coords) \o MdToHTMLPath(target)

(* No two pages of a build share an output file: every version of every page   *)
(* has its own, and it tells the page (HTMLToMdPath).                          *)
AddressesAreApart ==
  /\ HTMLToMdPath(MdToHTMLPath(writer)) = writer
  /\ Names /\ ~Outside(TargetMd(writer, ref)) /\ Addressable(writer)
       /\ Addressable(TargetMd(writer, ref)) =>
       \A c \in {d \in Mounts : d.locale # "" <=> coords.locale # ""} :
         OutputDir(writer, coords) = OutputDir(TargetMd(writer, ref), c)
           => /\ writer = TargetMd(writer, ref)
              /\ c.archived = coords.archived /\ (c.archived => c.version = coords.version)

-------------------------------------------------------------------------------
(* CheckProjectOutputResolution (internal/resolution): the references of one   *)
(* built page against what the build wrote and what the page's source writes   *)
(* now.  Nothing invalidates a built tree, so its body may be older than both. *)

CONSTANTS
  Targets,     \* files a reference may name within the output tree
  NotChecked,
  MountDepths  \* how many segments the output is served under

(* A reference as it is written: to a file of the tree, out of the tree by a   *)
(* number of levels, from the origin's root, or absolute, in this site or not. *)
(* The absolute ones are links a reader clicks; the head of a page also states *)
(* its canonical address.                                                      *)
Refs == [kind : {"relative", "ours"}, target : Targets]
          \cup [kind : {"climbs"}, levels : 1 .. 3]
          \cup [kind : {"origin", "external", "fragment"}]
Canonicals == [kind : {"canonical"}, target : Targets]

VARIABLES
  emitted,  \* files in the output tree
  body,     \* references in the content region of the built page
  chrome,   \* and around it
  source,   \* what the page's current source would write
  sourceKnown,    \* whether the caller has that source
  depth,    \* the mount's depth
  post,     \* whether the page is a post
  found     \* the references that were reported

resolutionVars == <<emitted, body, chrome, source, sourceKnown, depth, post, found>>

(* PageReferences drops what is off-site or on the page itself.                *)
PageReferences == {r \in body \cup chrome : r.kind \in {"relative", "climbs", "origin"}}
NavigationReferences == body \cup chrome

(* What the body has of an older rendering.                                    *)
outdated(r) == sourceKnown /\ r \in body /\ r \notin source

siteLevelPage == depth # 0 /\ post

Unresolved(r) ==
  \/ r.kind = "origin"
  \/ ~siteLevelPage /\ r.kind = "climbs" /\ r.levels > depth
  \/ ~siteLevelPage /\ r.kind = "relative" /\ r.target \notin emitted

CheckOutputResolution ==
  {r \in PageReferences : ~outdated(r) /\ Unresolved(r)}
    \cup {r \in NavigationReferences : ~outdated(r) /\ r.kind = "ours"}
    \cup {r \in chrome : r.kind = "canonical" /\ r.target \notin emitted}

Few(set) == {few \in SUBSET set : Cardinality(few) <= 1}

(* A tree that was just built; its author edits the page, and checks it.       *)
Edit(refs) ==
  /\ refs # source /\ source' = refs /\ found' = NotChecked
  /\ UNCHANGED <<emitted, body, chrome, sourceKnown, depth, post>>
Check ==
  /\ found' = CheckOutputResolution
  /\ UNCHANGED <<emitted, body, chrome, source, sourceKnown, depth, post>>

ResolutionInit ==
  /\ emitted \in SUBSET Targets
  /\ body \in Few(Refs) /\ chrome \in Few(Refs \cup Canonicals) /\ source = body
  /\ sourceKnown \in BOOLEAN /\ depth \in MountDepths /\ post \in BOOLEAN
  /\ found = NotChecked
ResolutionNext ==
  \/ \E refs \in Few(Refs) : Edit(refs)
  \/ Check

-------------------------------------------------------------------------------

(* A reference that does not resolve wherever the site is served: the reader    *)
(* who clicks it gets nothing, or leaves the copy of the site being read.      *)
Broken(r) ==
  \/ r.kind \in {"origin", "ours"}
  \/ r.kind = "climbs" /\ r.levels > depth
  \/ r.kind \in {"relative", "canonical"} /\ r.target \notin emitted

(* Every broken reference that the current source writes is reported, but for   *)
(* a post of a mounted build, which is moved to the site level, and every      *)
(* canonical address nothing is served at; and nothing is reported that        *)
(* resolves or that the source no longer writes.                               *)
ChecksTheSource ==
  found # NotChecked =>
    /\ \A r \in body \cap source : Broken(r) /\ ~siteLevelPage => r \in found
    /\ \A r \in chrome \cap Canonicals : Broken(r) => r \in found
    /\ \A r \in found : Broken(r) /\ (sourceKnown /\ r \notin chrome => r \in source)

(* Pages of every mount find each other, each at its own address, and the     *)
(* check reports the references that find nothing.                            *)
AddressesResolve == LinksLand /\ HopsLand /\ AddressesAreApart /\ ChecksTheSource
===============================================================================
