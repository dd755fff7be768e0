-------------------------------- MODULE Quality --------------------------------
(* selfdoc quality (internal/quality): the tier a project's documentation has  *)
(* reached and the lines its grade is measured on, over a tree that its author *)
(* edits.  A file is a record of its directory, what it is (a CHANGELOG.md is  *)
(* Markdown that does not count), and its lines.  A scan that fails is a       *)
(* refusal with no report, and is left out.                                    *)
EXTENDS Naturals, Sequences, FiniteSets, SequencesExt, FiniteSetsExt

CONSTANTS Files,       \* the files that may exist
          Templates,   \* the _README.md template that the report names, of root_files
          Readme,      \* what a template is rendered to
          StartPage,   \* the page init writes
          Docs,        \* the directory the documentation is in
          GeneratedPages,  \* and the one of the pages that gen writes
          Modules,     \* the directories that may be submodules
          MaxSteps     \* bound on what the author does

VARIABLES steps, tree, marked, submodules, adopted
qualityVars == <<steps, tree, marked, submodules, adopted>>

------------------------------------------------------------------------------
(* The walks step over directories by name, at any depth or at the root alone, *)
(* and over submodules; dirstat's scan does not.                               *)
SkipDirs == {"vendor", "node_modules", "dist", "build", "out", "todo"}
ScratchDirs == {"experiments", "screenshots"}
testDirs == {"tests", "test", "__tests__", "testing"}
CodeKinds == {"code", "test code"}

InAny(dir, dirs) == \E d \in dirs : IsPrefix(d, dir)

walk(file) ==
  /\ \A i \in DOMAIN file.dir : file.dir[i] \notin SkipDirs
  /\ file.dir # <<>> => Head(file.dir) \notin ScratchDirs
  /\ ~InAny(file.dir, submodules)

LinesOf(files) == MapThenSumSet(LAMBDA file : file.lines, files)

RootFileTemplates == IF "root_files" \in adopted THEN Templates ELSE {}
MarkdownLOC(files) ==
  LinesOf({f \in files : f.is = "markdown" /\ walk(f) /\ f \notin RootFileTemplates})

isTestFile(file) ==
  file.is = "test code" \/ \E i \in DOMAIN file.dir : file.dir[i] \in testDirs
TestLOC == LinesOf({f \in tree : f.is \in CodeKinds /\ isTestFile(f) /\ walk(f)})

(* The code under a submodule is subtracted, once for each of them.            *)
codeTotals(dir) == LinesOf({f \in tree : f.is \in CodeKinds /\ IsPrefix(dir, f.dir)})
Subtracted == MapThenSumSet(codeTotals, submodules)
SourceLOC ==
  LET all == codeTotals(<<>>)  less == Subtracted + TestLOC
  IN IF all > less THEN all - less ELSE 0

------------------------------------------------------------------------------
(* SelfdocInfo and the ladder: each rung requires every rung below it.  Of the *)
(* count of marked lines only whether there is one decides anything.           *)
HasSelfdoc == "selfdoc.json" \in adopted
AutoREADME == HasSelfdoc /\ "root_files" \in adopted
walkDocs(root, file) ==
  /\ file.is \in {"markdown", "changelog"} /\ IsPrefix(root, file.dir)
  /\ \A i \in DOMAIN file.dir : i > Len(root) => file.dir[i] # "_build"
HasDirectives ==
  HasSelfdoc /\ \E f \in marked : walkDocs(Docs, f) \/ walkDocs(GeneratedPages, f)
Configured == HasSelfdoc /\ ({"directives", "posts"} \cap adopted # {})

ComputeTier ==
  IF MarkdownLOC(tree) = 0 THEN 0
  ELSE IF ~HasSelfdoc THEN 1
  ELSE IF ~AutoREADME THEN 2
  ELSE IF ~HasDirectives THEN 3
  ELSE IF ~Configured THEN 4
  ELSE 5

(* The ratio is rounded to four decimals before it is graded: half of the last *)
(* one below a threshold reaches it, a tie as the nearest float lies.          *)
ContentGrade ==
  LET docs == 20000 * MarkdownLOC(tree)
  IN IF SourceLOC = 0 THEN "-"
     ELSE IF docs > 5999 * SourceLOC THEN "A"
     ELSE IF docs > 2999 * SourceLOC THEN "B"
     ELSE IF docs >= 999 * SourceLOC THEN "C"
     ELSE IF docs >= 199 * SourceLOC THEN "D"
     ELSE "F"

ScoreProject == [tier |-> ComputeTier, source |-> SourceLOC, tests |-> TestLOC,
                 docs |-> MarkdownLOC(tree), grade |-> ContentGrade]

------------------------------------------------------------------------------
(* The author.                                                                 *)
QualityInit ==
  /\ steps = 0 /\ tree = {} /\ marked = {} /\ submodules = {} /\ adopted = {}

Counted == steps < MaxSteps /\ steps' = steps + 1

Write(file) ==
  /\ Counted
  /\ file \notin tree /\ tree' = tree \cup {file}
  /\ UNCHANGED <<marked, submodules, adopted>>
Delete(file) ==
  /\ Counted
  /\ file \in tree /\ tree' = tree \ {file} /\ marked' = marked \ {file}
  /\ UNCHANGED <<submodules, adopted>>
Mark(file) ==
  /\ Counted
  /\ file \in tree \ marked /\ file.is \in {"markdown", "changelog"} /\ marked' = marked \cup {file}
  /\ UNCHANGED <<tree, submodules, adopted>>
AddSubmodule(dir) ==
  /\ Counted
  /\ dir \notin submodules /\ submodules' = submodules \cup {dir}
  /\ UNCHANGED <<tree, marked, adopted>>

(* NextSteps: what the report tells its reader to do on each rung.             *)
CreateReadme ==
  /\ tree' = tree \cup {Readme}
  /\ UNCHANGED <<marked, submodules, adopted>>
RunInit ==
  /\ adopted' = adopted \cup {"selfdoc.json"}
  /\ tree' = tree \cup {StartPage}
  /\ UNCHANGED <<marked, submodules>>
AddRootFile(template) ==  \* and gen renders it
  /\ adopted' = adopted \cup {"root_files"}
  /\ tree' = tree \cup {template, Readme}
  /\ UNCHANGED <<marked, submodules>>
UseDirectives(page) ==
  /\ walkDocs(Docs, page) /\ page.is = "markdown"
  /\ tree' = tree \cup {page} /\ marked' = marked \cup {page}
  /\ UNCHANGED <<submodules, adopted>>
Configure(what) ==
  /\ adopted' = adopted \cup {what}
  /\ UNCHANGED <<tree, marked, submodules>>

NextStep == ComputeTier
FollowAdvice ==
  /\ Counted
  /\ \/ NextStep = 0 /\ CreateReadme
     \/ NextStep = 1 /\ RunInit
     \/ NextStep = 2 /\ \E template \in Templates : AddRootFile(template)
     \/ NextStep = 3 /\ \E page \in Files : UseDirectives(page)
     \/ NextStep = 4 /\ \E what \in {"directives", "posts"} : Configure(what)

QualityNext ==
  \/ \E file \in Files : Write(file) \/ Delete(file) \/ Mark(file)
  \/ \E dir \in Modules : AddSubmodule(dir)
  \/ FollowAdvice

------------------------------------------------------------------------------
(* Taking the step that the report names climbs the ladder: none of the counts *)
(* a rung below rests on goes back by it (NextSteps "names the action that     *)
(* reaches the next rung"; a template stops counting once it is one).          *)
AdviceClimbs == [][FollowAdvice => ComputeTier' > ComputeTier]_qualityVars

(* The work of others does not move the score: what is written or deleted in a *)
(* submodule that lies in no other one, and not in the documentation, changes  *)
(* no count, as each walk and the scan's subtraction leave the same files out. *)
Apart(dir) ==
  /\ dir \in submodules
  /\ \A root \in {Docs, GeneratedPages} : ~IsPrefix(root, dir) /\ ~IsPrefix(dir, root)
  /\ \A other \in submodules \ {dir} : ~IsPrefix(other, dir) /\ ~IsPrefix(dir, other)
SubmodulesDoNotCount ==
  [][\A dir \in Modules :
       (/\ Apart(dir) /\ submodules' = submodules /\ adopted' = adopted
        /\ tree' # tree
        /\ \A f \in (tree \cup tree') \ (tree \cap tree') : IsPrefix(dir, f.dir))
       => ScoreProject' = ScoreProject]_qualityVars

(* The report's tier rises by the step it names and not by others' sources.   *)
TierIsTheProjects == AdviceClimbs /\ SubmodulesDoNotCount
================================================================================
