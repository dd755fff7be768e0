------------------------------- MODULE SourceWalks -------------------------------
(* Which source files the documentation covers (internal/excludes), as decided *)
(* by two walks over a source tree: gen writes pages, and the list-modules     *)
(* directive lists modules.  A path is the sequence of its names; of the names *)
(* a rule tells apart there is one of each kind.  A page somebody wrote by     *)
(* hand in a generated page's place is a page as well.                         *)
EXTENDS Naturals, Sequences, FiniteSets, SequencesExt

CONSTANTS
  DirNames,    \* names of directories
  FileNames,   \* [Languages -> sets of names of files with the language's extension]
  SourceRoots, \* paths a project may declare as its source
  Patterns,    \* gen.exclude entries
  NoPattern,
  MaxDepth, MaxFiles  \* bounds on the tree: one directory and its files

Languages == DOMAIN FileNames

VARIABLES
  language, root,  \* the project's source entry
  exclude,         \* its gen.exclude entry, or NoPattern
  files            \* the files of the tree

walkVars == <<language, root, exclude, files>>

DirOf(file) == Front(file)

-------------------------------------------------------------------------------
(* Patterns: a bare name, a path, a dotted module name, and the last two with  *)
(* ".../*", which matches all that is below.                                   *)

(* DefaultExcludes: test_*, *_test.*, __pycache__ and tests. Of a dotted name, *)
(* test_* takes the first part and *_test.* any but the last.                  *)
DefaultMatched == {"test_util", "test_a.py", "a_test.py", "a_test.go", "tests", "__pycache__"}
DefaultMatchesDotted(path) ==
  \/ path[1] \in {"test_util", "test_a"}
  \/ \E i \in 1 .. Len(path) - 1 : path[i] = "a_test"
  \/ path \in {<<"tests">>, <<"__pycache__">>}

Below(path, top) == Len(path) > Len(top) /\ IsPrefix(top, path)
PathMatches(pattern, path) ==
  CASE pattern.kind = "name"   -> \E i \in DOMAIN path : path[i] = pattern.path[1]
    [] pattern.kind = "path"   -> IF pattern.below THEN Below(path, pattern.path)
                                  ELSE path = pattern.path
    [] pattern.kind = "dotted" -> FALSE

(* A dotted name is one component, whatever its dots.                         *)
DottedMatches(pattern, path) ==
  CASE pattern.kind = "dotted" -> IF pattern.below THEN Below(path, pattern.path)
                                  ELSE path = pattern.path
    [] pattern.kind = "name"   -> path = pattern.path
    [] pattern.kind = "path"   -> FALSE

(* IsExcluded over PatternsFor: the defaults and what the project configured.  *)
IsConfigured(path) == exclude # NoPattern /\ PathMatches(exclude, path)
IsExcluded(path) == (\E i \in DOMAIN path : path[i] \in DefaultMatched) \/ IsConfigured(path)

Stem(name) == CASE name \in {"a.go", "a.py", "a.ts"} -> "a"
                [] name = "a_test.go" -> "a_test"     [] name = "test_a.py" -> "test_a"
                [] name = "a_test.py" -> "a_test"     [] name = "a.test.ts" -> "a.test"
                [] name = "__init__.py" -> "__init__" [] name = "conftest.py" -> "conftest"

(* FileToModulePath: empty for a module without a name.                        *)
ModulePath(file) ==
  IF language = "python" /\ Last(file) = "__init__.py" THEN DirOf(file)
  ELSE Append(DirOf(file), Stem(Last(file)))
IsModuleExcluded(file) ==
  IF language # "python" THEN IsExcluded(ModulePath(file))
  ELSE \/ DefaultMatchesDotted(ModulePath(file))
       \/ exclude # NoPattern /\ DottedMatches(exclude, ModulePath(file))

-------------------------------------------------------------------------------
(* Directories no walk descends into; the walk's own root is never tested.     *)
ShouldSkipDir(name) == name \in {"dist", "node_modules", "__pycache__"}
IsScratchDir(dir) == Len(dir) = 1 /\ dir[1] = "experiments"
GoToolchainIgnoresDir(name) == name \in {"testdata", "vendor", "_x"}

UnderPath(top, file) == IsPrefix(top, DirOf(file))
Relative(top, file) == SubSeq(file, Len(top) + 1, Len(file))
Reached(top, file) ==
  /\ UnderPath(top, file)
  /\ \A i \in Len(top) + 1 .. Len(file) - 1 :
       ~ShouldSkipDir(file[i]) /\ ~IsScratchDir(SubSeq(file, 1, i))
GoIgnores(top, file) ==
  language = "go" /\ \E i \in Len(top) + 1 .. Len(file) - 1 : GoToolchainIgnoresDir(file[i])

(* isTestFile, by language.                                                    *)
isTestSource(name) ==
  name \in CASE language = "go" -> {"a_test.go"}
             [] language = "python" -> {"test_a.py", "a_test.py"}
             [] language = "typescript" -> {"a.test.ts"}

-------------------------------------------------------------------------------

(* generateDocsForDir: a page for a file; collectGoPackages: for a directory.  *)
FileHasPage(file) ==
  /\ Reached(root, file) /\ ~IsExcluded(Relative(root, file))
  /\ ModulePath(file) # <<>>
  /\ ~IsModuleExcluded(file)
GoFile(top, file) ==
  /\ Reached(top, file) /\ ~GoIgnores(top, file)
  /\ ~isTestSource(Last(file)) /\ ~IsExcluded(Relative(top, file))

PackageHasPage(dir) ==
  /\ \E file \in files : DirOf(file) = dir /\ GoFile(root, file)
  /\ dir # <<>> => ~IsExcluded(dir)

HasPage(file) ==
  IF language = "go" THEN PackageHasPage(DirOf(file)) ELSE FileHasPage(file)

(* list-modules over a directory: by file, or by package.                      *)
FileListed(top, file) ==
  /\ Reached(top, file) /\ ~isTestSource(Last(file))
  /\ ~IsExcluded(Relative(top, file))
  /\ ModulePath(file) # <<>>
PackageListed(top, dir) ==
  /\ \E file \in files : DirOf(file) = dir /\ GoFile(top, file)
  /\ LET relDir == SubSeq(dir, Len(top) + 1, Len(dir))
     IN relDir # <<>> => ~IsExcluded(relDir)
Listed(top, file) ==
  IF language = "go" THEN PackageListed(top, DirOf(file)) ELSE FileListed(top, file)

-------------------------------------------------------------------------------
(* A project's tree as its author fills it, and excludes part of it.          *)
AllPaths == UNION {[1 .. depth -> DirNames] : depth \in 0 .. MaxDepth}

WriteFile(dir, name) ==
  /\ Cardinality(files) < MaxFiles /\ Append(dir, name) \notin files
  /\ \A file \in files : DirOf(file) = dir
  /\ files' = files \cup {Append(dir, name)}
  /\ UNCHANGED <<language, root, exclude>>

SetExclude(pattern) ==
  /\ exclude = NoPattern /\ exclude' = pattern
  /\ UNCHANGED <<language, root, files>>

WalkInit ==
  /\ language \in Languages /\ root \in SourceRoots
  /\ exclude = NoPattern /\ files = {}
WalkNext ==
  \/ \E dir \in AllPaths : \E name \in FileNames[language] : WriteFile(dir, name)
  \/ \E pattern \in Patterns : SetExclude(pattern)

-------------------------------------------------------------------------------
WholeProject == root = <<>>

(* In a Go project whose source is the repository, the listing of it and the   *)
(* generated pages cover the same packages, whatever is excluded: each walk    *)
(* prunes, filters and matches on its own.                                     *)
GoListingIsThePages ==
  language = "go" /\ WholeProject =>
    \A file \in files : Listed(root, file) = HasPage(file)

(* Elsewhere a listing of the source leaves out no page but those of tests.    *)
PagesAreListed ==
  language # "go" =>
    \A file \in files : HasPage(file) => Listed(root, file) \/ isTestSource(Last(file))

-------------------------------------------------------------------------------
(* Match (internal/excludes): a name against a shell pattern, character by     *)
(* character, with one place to come back to: the latest star.                 *)

CONSTANTS
  Pieces,     \* what a pattern is put together from, each a sequence of characters
  NameChars,
  MaxPieces, MaxName  \* bounds on the length of a pattern and of a name

(* The order of the characters, for the ranges of a class.                    *)
Rank == [c \in {"!", "*", "-", "?", "[", "]", "a", "b", "c"} |->
           CHOOSE i \in 1 .. 9 : <<"!", "*", "-", "?", "[", "]", "a", "b", "c">>[i] = c]

VARIABLES
  pattern, name,
  p, n,      \* where the walk is in them
  starPat,   \* where the pattern goes on after the latest star, 0 if there is none
  starName,  \* what of the name that star has not taken
  matched    \* the verdict, or "open"

globVars == <<pattern, name, p, n, starPat, starName, matched>>

-------------------------------------------------------------------------------
(* matchClass: a bracket expression starts at s and ends at Closing(s), unless *)
(* nothing closes it; a leading "!" and a leading "]" belong to the set.       *)
Skip(i, char) == IF i <= Len(pattern) /\ pattern[i] = char THEN i + 1 ELSE i
Closings(s) ==
  {j \in Skip(Skip(s + 1, "!"), "]") .. Len(pattern) : pattern[j] = "]"}
Terminated(s) == Closings(s) # {}
Closing(s) == CHOOSE j \in Closings(s) : \A k \in Closings(s) : j <= k

(* The members of a class: single characters, and ranges, which take three.   *)
InSet(body, c) ==
  LET from[k \in 1 .. Len(body) + 3] ==
        IF k > Len(body) THEN FALSE
        ELSE IF k + 2 <= Len(body) /\ body[k + 1] = "-"
        THEN (Rank[body[k]] <= Rank[c] /\ Rank[c] <= Rank[body[k + 2]]) \/ from[k + 3]
        ELSE body[k] = c \/ from[k + 1]
  IN from[1]

ClassMatches(s, c) ==
  LET body == SubSeq(pattern, s + 1, Closing(s) - 1)
  IN IF body # <<>> /\ Head(body) = "!" THEN ~InSet(Tail(body), c) ELSE InSet(body, c)

(* One element of the pattern against one character; and the next element.    *)
IsClass(i) == pattern[i] = "[" /\ Terminated(i)
Takes(i, c) ==
  \/ pattern[i] = "?"
  \/ IsClass(i) /\ ClassMatches(i, c)
  \/ ~IsClass(i) /\ pattern[i] \notin {"*", "?"} /\ pattern[i] = c
Next1(i) == IF IsClass(i) THEN Closing(i) + 1 ELSE i + 1

AfterStars(i) ==
  CHOOSE j \in i .. Len(pattern) + 1 :
    /\ \A k \in i .. j - 1 : pattern[k] = "*"
    /\ j > Len(pattern) \/ pattern[j] # "*"

-------------------------------------------------------------------------------
(* matchRunes, one turn of its loop at a time.                                 *)
Walking == matched = "open" /\ n <= Len(name)
Here(i) == i <= Len(pattern)

Star ==
  /\ Walking /\ Here(p) /\ pattern[p] = "*"
  /\ p' = AfterStars(p) /\ starPat' = p' /\ starName' = n
  /\ UNCHANGED <<pattern, name, n, matched>>

TakeOne ==
  /\ Walking /\ Here(p) /\ Takes(p, name[n])
  /\ p' = Next1(p) /\ n' = n + 1
  /\ UNCHANGED <<pattern, name, starPat, starName, matched>>

Stuck == Walking /\ ~(Here(p) /\ (pattern[p] = "*" \/ Takes(p, name[n])))

(* Mutant: the star takes no more than it had.                                 *)
BacktrackInPlace ==
  /\ Stuck /\ starPat # 0
  /\ starName' = starName /\ n' = starName' /\ p' = starPat
  /\ UNCHANGED <<pattern, name, starPat, matched>>

(* The latest star takes one character more.                                   *)
Backtrack ==
  /\ Stuck /\ starPat # 0
  /\ starName' = starName + 1 /\ n' = starName' /\ p' = starPat
  /\ UNCHANGED <<pattern, name, starPat, matched>>

Refuse ==
  /\ Stuck /\ starPat = 0
  /\ matched' = "no" /\ UNCHANGED <<pattern, name, p, n, starPat, starName>>

Finish ==
  /\ matched = "open" /\ n > Len(name)
  /\ matched' = IF AfterStars(p) = Len(pattern) + 1 THEN "yes" ELSE "no"
  /\ UNCHANGED <<pattern, name, p, n, starPat, starName>>

GlobInit ==
  /\ pattern \in {FlattenSeq(seq) : seq \in BoundedSeq(Pieces, MaxPieces)}
  /\ name \in BoundedSeq(NameChars, MaxName)
  /\ p = 1 /\ n = 1 /\ starPat = 0 /\ starName = 1 /\ matched = "open"
GlobNext == Star \/ TakeOne \/ Backtrack \/ Refuse \/ Finish
GlobFair == WF_globVars(GlobNext)

-------------------------------------------------------------------------------
(* What a pattern means: every star may take any number of characters.         *)
Matches ==
  LET from[i \in 1 .. Len(pattern) + 1, j \in 1 .. Len(name) + 1] ==
        IF i > Len(pattern) THEN j > Len(name)
        ELSE IF pattern[i] = "*"
        THEN from[i + 1, j] \/ (j <= Len(name) /\ from[i, j + 1])
        ELSE j <= Len(name) /\ Takes(i, name[j]) /\ from[Next1(i), j + 1]
  IN from[1, 1]

(* One place to come back to is enough: the walk of matchRunes answers what a   *)
(* search through every way of dividing the name among the stars would.        *)
OneStarIsEnough == matched # "open" => (matched = "yes") = Matches

(* The walk ends: a pattern of a configuration cannot hang a source walk.       *)
MatchEnds == (matched = "open") ~> (matched # "open")

(* The walks agree about a project's sources, over exclusions whose patterns  *)
(* are matched rightly and in the end (excludes.go).                          *)
WalksAgree ==
  [](OneStarIsEnough /\ GoListingIsThePages /\ PagesAreListed) /\ MatchEnds
===============================================================================
