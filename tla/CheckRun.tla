------------------------------- MODULE CheckRun -------------------------------
(* selfdoc check (internal/check CheckDocs, internal/resolver, cli/check.go):  *)
(* the directives of the working tree and of every older version, the coverage *)
(* their output earns, and the verdict.  An author follows its advice.         *)
EXTENDS Naturals, Sequences, FiniteSets, SequencesExt, TLC

CONSTANTS
  Sources,   \* source files: [language, dir, name, symbols]; dir is a sequence
             \* of characters, because the code compares directories as strings
  Places,    \* where a language finds a path: <<language, path>> -> [dir, name]
  Projects,  \* the projects that may be checked
  NoEntry    \* the answer came from no declared source

VARIABLES
  project,  \* [groups, script, home, strictcli, threshold, off, posts,
            \*  templates, pages, older]
  step,     \* "idle", "versions", "done" or "failed"
  dry,      \* the check may write nothing
  left,     \* the older versions still to be checked
  result,   \* [failed, lints, referenced, documented, named]
  temps,    \* temporary extractions on disk
  written,  \* what was written: the hash store, and cached versions
  followed  \* the author has done what the last report asked

checkVars == <<project, step, dry, left, result, temps, written, followed>>

Store == 0
NoResult == [failed |-> {}, lints |-> {}, referenced |-> {}, documented |-> {}, named |-> {}]

-------------------------------------------------------------------------------
(* Resolver.Resolve: content directives, those the caller registered, scripts, *)
(* and then source code, in the one language that finds the path.              *)

Failure == [outcome |-> "error", says |-> {}, entry |-> NoEntry]
Marker == [outcome |-> "marker", says |-> {}, entry |-> NoEntry]
Text(says, entry) == [outcome |-> "text", says |-> says, entry |-> entry]

Finds(language, path) == <<language, path>> \in DOMAIN Places
FilesAt(language, place) ==
  {s \in Sources : s.language = language /\ s.dir = place.dir /\ place.name \in {"", s.name}}

(* The extractor's answer names the symbols of the files it finds.             *)
Extract(d, language) ==
  IF Finds(language, d.path)
  THEN Text(IF d.name = "ref"
            THEN UNION {s.symbols : s \in FilesAt(language, Places[language, d.path])} ELSE {},
            language)
  ELSE Marker

FromSource(d, groups) ==
  LET candidates == {g \in Range(groups) : d.lang \in {"", g}}
      matches == {g \in candidates : Finds(g, d.path)}
  IN CASE groups = <<>> \/ Cardinality(matches) > 1 -> Failure
       [] Len(groups) = 1 -> Extract(d, groups[1])
       [] Len(groups) > 1 /\ Cardinality(matches) = 1 -> Extract(d, CHOOSE g \in matches : TRUE)
       [] OTHER -> Marker

(* Mutant: the entry of the directive before it is still there.                *)
ResolveKeepsTheEntry(d, last) ==
  CASE d.name = "tree" -> Text(d.says, last)
    [] d.name = "site" -> IF project.home THEN Text({}, last) ELSE Failure
    [] d.name = "custom" -> IF project.script THEN Text(d.says, last) ELSE Failure
    [] OTHER -> FromSource(d, project.groups)
(* Each call starts with no source entry; what answers from elsewhere sets none.*)
Resolve(d, last) ==
  CASE d.name = "tree" -> Text(d.says, NoEntry)
    [] d.name = "site" -> IF project.home THEN Text({}, NoEntry) ELSE Failure
    [] d.name = "custom" -> IF project.script THEN Text(d.says, NoEntry) ELSE Failure
    [] OTHER -> FromSource(d, project.groups)

(* ResolveAll: two roots, one namespace, and no page a directive fails on.     *)
Collides(pages) == \E i, j \in 1 .. Len(pages) : i # j /\ pages[i].path = pages[j].path
ResolvesAll(pages) ==
  /\ ~Collides(pages)
  /\ \A i \in 1 .. Len(pages) : \A k \in 1 .. Len(pages[i].directives) :
       Resolve(pages[i].directives[k], NoEntry).outcome # "error"

(* validateDirectives: the directives in page order, each with its answer and  *)
(* the entry the resolver was left with.                                       *)
DirectivesOf(pages) ==
  FlattenSeq([i \in 1 .. Len(pages) |->
    [k \in 1 .. Len(pages[i].directives) |-> [page |-> i, d |-> pages[i].directives[k]]]])

validateDirectives(pages) ==
  LET all == DirectivesOf(pages)
      entry[n \in 0 .. Len(all)] ==
        IF n = 0 THEN NoEntry ELSE Resolve(all[n].d, entry[n - 1]).entry
  IN [n \in 1 .. Len(all) |-> all[n] @@ [answer |-> Resolve(all[n].d, entry[n - 1])]]

FailedOf(label, verdicts) ==
  {[of |-> label, page |-> verdicts[n].page, d |-> verdicts[n].d] :
    n \in {m \in 1 .. Len(verdicts) : verdicts[m].answer.outcome # "text"}}

-------------------------------------------------------------------------------
(* computeCoverage.                                                            *)

AllSymbols ==
  UNION {{[file |-> s, symbol |-> x] : x \in s.symbols} :
         s \in {t \in Sources : t.language \in Range(project.groups)}}

isSkeletonPage(page) == page.generated /\ page.seeded

(* What one answered directive documents.  A directory takes every file below  *)
(* it, a targeted directive its target, and any other what its output names.   *)
Credits(verdict) ==
  LET d == verdict.d
      says == verdict.answer.says
      entry == verdict.answer.entry
      place == Places[entry, d.path]
  IN IF d.path = "" \/ entry = NoEntry \/ ~Finds(entry, d.path) THEN {}
     ELSE {q \in AllSymbols :
       \/ place.name = "" /\ IsPrefix(place.dir, q.file.dir) /\ q.symbol \in says
       \/ /\ place.name = q.file.name /\ place.dir = q.file.dir
          /\ \/ d.name # "ref" /\ d.target = q.symbol
             \/ q.symbol \in says}

ResolvedOnes(verdicts) ==
  SelectSeq(verdicts, LAMBDA v : v.answer.outcome = "text")

(* The first page that is still as it was generated, for each symbol that no   *)
(* other page documents: the report asks for that page's description.          *)
computeCoverage(pages, verdicts) ==
  LET answered == ResolvedOnes(verdicts)
      On(v) == pages[v.page]
      Claims(skeleton) == {n \in 1 .. Len(answered) : isSkeletonPage(On(answered[n])) = skeleton}
      referenced == UNION {Credits(answered[n]) : n \in 1 .. Len(answered)}
      documented == UNION {Credits(answered[n]) : n \in Claims(FALSE)}
      First(q) == CHOOSE n \in Claims(TRUE) :
        /\ q \in Credits(answered[n])
        /\ \A m \in Claims(TRUE) : q \in Credits(answered[m]) => n <= m
  IN [referenced |-> referenced, documented |-> documented,
      named |-> {On(answered[First(q)]).path : q \in referenced \ documented}]

CoverageBelowThreshold ==
  LET total == Cardinality(AllSymbols)
  IN total > 0 /\ Cardinality(result.documented) * 100 < total * project.threshold

-------------------------------------------------------------------------------
(* CheckDocs.  Every post lint but the one about an invalid post needs a set   *)
(* of posts that discovery accepts.                                            *)

PostLints ==
  CASE "invalid" \in project.posts -> {"missing-post-date"}
    [] "broken" \in project.posts -> {"broken-emitted-reference"}
    [] OTHER -> {}

Pages == project.pages \o project.templates

(* The pages have to resolve before anything is judged; a template is judged   *)
(* and documents nothing.                                                      *)
CheckStarts(mayWrite) ==
  LET verdicts == validateDirectives(project.pages)
      templates == validateDirectives(project.templates)
      coverage == computeCoverage(project.pages, verdicts)
      help == \E n \in 1 .. Len(DirectivesOf(Pages)) : DirectivesOf(Pages)[n].d.name = "help"
  IN /\ step \in {"idle", "done"}
     /\ dry' = ~mayWrite
     /\ IF ~ResolvesAll(project.pages) \/ (help /\ project.strictcli)
        THEN /\ step' = "failed" /\ result' = NoResult
             /\ UNCHANGED <<left, written>>
        ELSE /\ step' = "versions" /\ left' = Len(project.older)
             /\ result' = coverage @@
                  [failed |-> FailedOf("page", verdicts) \cup FailedOf("template", templates),
                   lints |-> PostLints]
             /\ written' = IF mayWrite THEN written \cup {Store} ELSE written
     /\ UNCHANGED <<project, temps, followed>>

(* versionContent: a read-only check extracts into a directory of its own.     *)
versionContent(n) ==
  IF dry
  THEN temps' = temps \cup {n} /\ UNCHANGED written
  ELSE /\ written' = IF project.older[n].extracts THEN written \cup {n} ELSE written
       /\ UNCHANGED temps

(* What the version holds is judged in its own right; one that cannot be       *)
(* extracted is a lint, and a page of it that does not resolve stops the run.  *)
ResultWith(n) ==
  IF project.older[n].extracts
  THEN [result EXCEPT !.failed = @ \cup FailedOf("older", validateDirectives(project.older[n].pages))]
  ELSE [result EXCEPT !.lints = @ \cup {"version-tag-not-extractable"}]

(* The extractions that are removed when the check returns.                    *)
Deferred == temps

CheckVersion ==
  /\ step = "versions" /\ left > 0
  /\ left' = left - 1
  /\ LET n == left IN
       /\ versionContent(n)
       /\ IF project.older[n].extracts /\ ~ResolvesAll(project.older[n].pages)
          THEN step' = "stopping" /\ result' = NoResult
          ELSE UNCHANGED step /\ result' = ResultWith(n)
  /\ UNCHANGED <<project, dry, followed>>

CheckReturns ==
  /\ step = "stopping" \/ (step = "versions" /\ left = 0)
  /\ step' = IF step = "stopping" THEN "failed" ELSE "done"
  /\ temps' = temps \ Deferred
  /\ UNCHANGED <<project, dry, left, result, written, followed>>

(* Settings.Apply and CheckExitCode: every lint here is an error as registered.*)
Applied(found) == found \ project.off
CheckExitCode ==
  IF result.failed # {} \/ Applied(result.lints) # {} \/ CoverageBelowThreshold THEN 1 ELSE 0

(* The author rewrites the descriptions of the pages the report names.         *)
FollowTheCheck ==
  /\ step = "done" /\ result.named # {} /\ ~followed
  /\ project' = [project EXCEPT !.pages = [i \in 1 .. Len(@) |->
                   IF @[i].path \in result.named THEN [@[i] EXCEPT !.seeded = FALSE] ELSE @[i]]]
  /\ followed' = TRUE /\ step' = "idle"
  /\ UNCHANGED <<dry, left, result, temps, written>>

Rest ==
  /\ step = "failed"
  /\ UNCHANGED checkVars

CheckInit ==
  /\ project \in Projects /\ step = "idle" /\ dry = TRUE /\ left = 0
  /\ result = NoResult /\ temps = {} /\ written = {} /\ followed = FALSE

CheckNext ==
  \/ \E mayWrite \in BOOLEAN : CheckStarts(mayWrite)
  \/ CheckVersion
  \/ CheckReturns
  \/ FollowTheCheck
  \/ Rest

-------------------------------------------------------------------------------

(* What a directive asks for is there, on the working tree and in every older  *)
(* version the check could read: no page of them shows a marker.               *)
Held(pages) == \A n \in 1 .. Len(DirectivesOf(pages)) :
  Resolve(DirectivesOf(pages)[n].d, NoEntry).outcome = "text"

(* Exit status zero speaks for every version: of each one that is published,   *)
(* every directive resolves, whatever lints the repository has turned off      *)
(* (CheckExitCode over the results of every version).                          *)
PassMeansResolved ==
  (step = "done" /\ CheckExitCode = 0) =>
    /\ Held(project.pages) /\ Held(project.templates)
    /\ \A n \in 1 .. Len(project.older) :
         \/ Held(project.older[n].pages)
         \/ ~project.older[n].extracts /\ "version-tag-not-extractable" \in project.off

(* Only a directive that a declared source answered counts towards coverage: a *)
(* listing or a script whose output happens to carry a symbol's name as a      *)
(* heading does not, whatever was resolved before it (LastSourceEntry).        *)
OnlySourcesAreCredited ==
  step \in {"versions", "done"} =>
    \A q \in result.referenced : \E n \in 1 .. Len(DirectivesOf(project.pages)) :
      DirectivesOf(project.pages)[n].d.name \in {"ref", "table", "help"}
        /\ q \in Credits([d |-> DirectivesOf(project.pages)[n].d,
                          answer |-> FromSource(DirectivesOf(project.pages)[n].d, project.groups)])

(* Rewriting the descriptions of exactly the pages the report names leaves no  *)
(* symbol that is referenced and not documented (printSkeletonOnly: "edit each *)
(* page's frontmatter description instead").                                   *)
AdviceSettles ==
  step = "done" /\ followed => result.referenced \subseteq result.documented

(* However a check ends, what it extracted is gone: an older version is read   *)
(* from a temporary extraction, removed before the call returns (versionContent).*)
ExtractionsAreRemoved == step \in {"idle", "done", "failed"} => temps = {}

-------------------------------------------------------------------------------
(* The lint rules over one page (internal/check): what runLints says of a      *)
(* page's headings, paragraphs and code blocks, and on which line of the file. *)
(* A block stands for one token of the page's body.                            *)

CONSTANTS
  MaxBlocks,    \* bound on the tokens of a page
  MaxMatter     \* bound on the lines of its frontmatter

(* Headings by their level; paragraphs within and out of the recommended       *)
(* length; a directive; blank lines; code blocks that parse, that do not       *)
(* parse, and that are marked for a validator, configured or not.              *)
Kinds == {"h1", "h2", "h3", "h4", "good", "short", "directive", "blank",
          "code", "syntax", "failing", "unconfigured"}

VARIABLES
  blocks,   \* the page's body
  matter,   \* how many lines its frontmatter has
  titled    \* whether the frontmatter has a title

lintVars == <<blocks, matter, titled>>

-------------------------------------------------------------------------------
LevelOf == [h1 |-> 1, h2 |-> 2, h3 |-> 3, h4 |-> 4]
IsHeading(i) == blocks[i] \in DOMAIN LevelOf
Level(i) == LevelOf[blocks[i]]
(* Start: a code block has a line between its fences.                          *)
Height(kind) == IF kind \in {"code", "syntax", "failing", "unconfigured"} THEN 3 ELSE 1
ScanStart(i) == LET start[n \in 1 .. Len(blocks)] ==
                  IF n = 1 THEN 1 ELSE start[n - 1] + Height(blocks[n - 1])
            IN start[i]

(* The file as an editor shows it: which block a line belongs to, 0 in the     *)
(* frontmatter.                                                                *)
BlockAt(line) ==
  IF line <= matter THEN 0
  ELSE CHOOSE i \in 0 .. Len(blocks) :
         IF i = 0 THEN \A j \in DOMAIN blocks : line - matter >= ScanStart(j) + Height(blocks[j])
         ELSE ScanStart(i) <= line - matter /\ line - matter < ScanStart(i) + Height(blocks[i])

HeadingIndexes == {i \in DOMAIN blocks : IsHeading(i)}
Finding(rule, line) == [rule |-> rule, line |-> line]

(* The first block from i on that is not blank, or 0.                          *)
NextFrom(i) ==
  IF \E j \in i .. Len(blocks) : blocks[j] # "blank"
  THEN CHOOSE j \in i .. Len(blocks) :
         blocks[j] # "blank" /\ \A k \in i .. j - 1 : blocks[k] = "blank"
  ELSE 0

(* multiple-top-level-headings, missing-page-title: of the page, on no line.   *)
TitleLints ==
  LET tops == {i \in HeadingIndexes : Level(i) = 1}
  IN {Finding("multiple-top-level-headings", 0) : x \in {t \in {0} : Cardinality(tops) > 1}}
     \cup {Finding("missing-page-title", 0) : x \in {t \in {0} : tops = {} /\ ~titled}}

SkippedLevels ==
  {Finding("skipped-heading-level", ScanStart(i) + matter) :
     i \in {k \in HeadingIndexes : \E j \in HeadingIndexes :
              /\ j < k /\ \A m \in j + 1 .. k - 1 : m \notin HeadingIndexes
              /\ Level(k) > Level(j) + 1}}

(* first-paragraph-length-out-of-range, unless a directive follows.            *)
FirstParagraphs ==
  {Finding("first-paragraph-length-out-of-range", ScanStart(i) + matter) :
     i \in {k \in HeadingIndexes :
              /\ Level(k) \in {2, 3}
              /\ LET first == NextFrom(k + 1)
                 IN /\ first # 0 /\ blocks[first] = "short"
                    /\ LET after == NextFrom(first + 1)
                       IN after = 0 \/ blocks[after] # "directive"}}

(* empty-heading-section: the scan's open heading, 0 for none, before block n. *)
OpenHeading(n) ==
  LET open[k \in 1 .. Len(blocks) + 1] ==
        IF k = 1 THEN 0
        ELSE IF IsHeading(k - 1)
        THEN IF Level(k - 1) \in {2, 3} THEN k - 1 ELSE open[k - 1]
        ELSE IF blocks[k - 1] = "blank" THEN open[k - 1] ELSE 0
  IN open[n]

EmptySections ==
  {Finding("empty-heading-section", ScanStart(OpenHeading(k)) + matter) :
     k \in {i \in HeadingIndexes :
              /\ Level(i) \in {2, 3} /\ OpenHeading(i) # 0
              /\ Level(i) <= Level(OpenHeading(i))}}

(* validateExampleBlock: on the fence.  CheckJSONSyntax: on the body's line.   *)
ExampleLints ==
  {Finding("code-block-validation-failed", ScanStart(i)) :
     i \in {k \in DOMAIN blocks : blocks[k] = "failing"}}
  \cup {Finding("code-block-validator-not-configured", ScanStart(i)) :
     i \in {k \in DOMAIN blocks : blocks[k] = "unconfigured"}}
SyntaxLints ==
  {Finding("code-block-syntax-error", ScanStart(i) + 1) :
     i \in {k \in DOMAIN blocks : blocks[k] = "syntax"}}

runLints == TitleLints \cup SkippedLevels \cup FirstParagraphs \cup EmptySections
            \cup ExampleLints \cup SyntaxLints

-------------------------------------------------------------------------------
(* An author writes the page down.                                            *)
WriteBlock(kind) ==
  /\ Len(blocks) < MaxBlocks
  /\ blocks' = Append(blocks, kind) /\ UNCHANGED <<matter, titled>>

PageInit == blocks = <<>> /\ matter \in 0 .. MaxMatter /\ titled \in BOOLEAN
PageNext == \E kind \in Kinds : WriteBlock(kind)

-------------------------------------------------------------------------------
(* The section of a heading, up to the next heading of its level or above.     *)
SectionOf(i) ==
  LET ends == {j \in HeadingIndexes : j > i /\ Level(j) <= Level(i)}
      last == IF ends = {} THEN Len(blocks)
              ELSE (CHOOSE j \in ends : \A k \in ends : j <= k) - 1
  IN i .. last
Bare(i) == \A j \in SectionOf(i) : IsHeading(j) \/ blocks[j] = "blank"
Reported(rule) == {BlockAt(finding.line) : finding \in {f \in runLints : f.rule = rule}}

(* A heading reported as empty has nothing under it but headings, whatever its  *)
(* subsections: runLints forgets an open heading at the first content.          *)
ReportedSectionsAreEmpty ==
  \A i \in Reported("empty-heading-section") : i # 0 /\ Bare(i)

(* And an empty section of level 2 or 3, once the next one of its kind begins,  *)
(* is reported, or one inside it is.                                           *)
EmptySectionsAreReported ==
  \A i \in HeadingIndexes :
    /\ Level(i) \in {2, 3} /\ Bare(i)
    /\ \E j \in HeadingIndexes : j > i /\ Level(j) \in {2, 3} /\ Level(j) <= Level(i)
         /\ \A k \in HeadingIndexes : i < k /\ k < j => Level(k) > Level(i)
    => Reported("empty-heading-section") \cap SectionOf(i) # {}

(* A check means what it says: what it passes resolves, what it credits came  *)
(* from the source, its advice is enough, its lints are neither missed nor    *)
(* made up, and it leaves nothing behind.                                     *)
ChecksMeanWhatTheySay ==
  /\ PassMeansResolved /\ OnlySourcesAreCredited /\ AdviceSettles /\ ExtractionsAreRemoved
  /\ ReportedSectionsAreEmpty /\ EmptySectionsAreReported
===============================================================================
