-------------------------------- MODULE MCChecks -------------------------------
(* The check and what it rests on, in one run: its two passes, the lints of a  *)
(* page, the pages of a command line, the files and symbols that are covered,  *)
(* the patterns that exclude them, the advice that adoption gives and the      *)
(* configuration it all reads; and, of the commands that write, the previews,  *)
(* the file writes and the pipelines of processes.  The parts share no state   *)
(* here: a behaviour is of one of them.                                        *)
EXTENDS SourceWalks, CheckRun, Effects,
        CliPages, Quality, Config

VARIABLE part

(* Globs: a star, a letter, an open bracket, a class and a range.              *)
MCPieces == {<<"*">>, <<"a">>, <<"[">>, <<"[", "!", "a", "]">>, <<"[", "a", "-", "b", "]">>}

MCFileNames ==
  [go |-> {"a.go", "a_test.go"},
   python |-> {"a.py", "test_a.py", "a_test.py", "__init__.py", "conftest.py"},
   typescript |-> {"a.ts", "a.test.ts"}]
MCSourceRoots == {<<>>, <<"pkg">>, <<"tests">>}
Except(shape, path, below) == [kind |-> shape, path |-> path, below |-> below]
MCPatterns ==
  { Except("name", <<"pkg">>, FALSE), Except("name", <<"test">>, FALSE),
    Except("name", <<"a.py">>, FALSE), Except("path", <<"pkg", "test">>, FALSE),
    Except("path", <<"pkg", "test">>, TRUE), Except("path", <<"pkg">>, TRUE),
    Except("path", <<"test">>, TRUE), Except("dotted", <<"pkg", "a">>, FALSE),
    Except("dotted", <<"pkg">>, TRUE) }

(* Effects: two directories, one with a file; files alone; one full directory. *)
Start(atA, atB, inA, besides) ==
  [path \in Paths |->
     CASE path = <<"a">> -> atA [] path = <<"b">> -> atB
       [] path = <<"a", "a">> -> inA [] path = <<"a", "b">> -> besides [] OTHER -> Absent]
MCStarts ==
  { Start(Dir, Absent, <<1>>, Absent), Start(Dir, <<1>>, Absent, Absent),
    Start(Dir, Dir, <<1>>, Dir) }

(* CheckRun: sources of two languages, directories that share a prefix.        *)
Declared(lang, dir, base, names) ==
  [language |-> lang, dir |-> dir, name |-> base, symbols |-> names]
MCSources ==
  { Declared("go", <<"a">>, "x", {"New"}), Declared("go", <<"a", "b">>, "y", {"New", "Old"}),
    Declared("go", <<"a", "/", "c">>, "z", {"Sub"}), Declared("python", <<"m">>, "m", {"run"}) }
Place(dir, base) == [dir |-> dir, name |-> base]
MCPlaces ==
  <<"go", "a">> :> Place(<<"a">>, "") @@ <<"go", "ab">> :> Place(<<"a", "b">>, "")
    @@ <<"python", "m">> :> Place(<<"m">>, "m") @@ <<"go", "both">> :> Place(<<"a">>, "")
    @@ <<"python", "both">> :> Place(<<"m">>, "m")
Asks(what, path, lang, target, says) ==
  [name |-> what, path |-> path, lang |-> lang, target |-> target, says |-> says]
Ref(path) == Asks("ref", path, "", "", {})
TreeOfA == Asks("tree", "a", "", "", {"New"})
OnModule == Asks("custom", "m", "", "", {"run"})
OfSite == Asks("site", "", "", "", {})
MCDirectives ==
  { Ref("a"), Ref("ab"), Ref("m"), Ref("none"), Ref("both"), Asks("ref", "both", "python", "", {}),
    Asks("ref", "a", "rust", "", {}), TreeOfA, Asks("tree", "", "", "", {}), OnModule, OfSite,
    Asks("table", "m", "", "run", {}), Asks("help", "m", "", "run", {}) }
PageAt(path, generated, seeded, directives) ==
  [path |-> path, generated |-> generated, seeded |-> seeded, directives |-> directives]
Handwritten(directives) == <<PageAt("p", FALSE, FALSE, directives)>>
MCPages ==
  { <<PageAt("p", made[1], made[2], <<first, second>>), PageAt("q", TRUE, seeded, others)>> :
      made \in {<<FALSE, FALSE>>, <<TRUE, TRUE>>, <<TRUE, FALSE>>}, seeded \in BOOLEAN,
      first \in MCDirectives, second \in {Ref("a"), TreeOfA, OnModule},
      others \in {<<>>, <<Ref("a")>>, <<Ref("m")>>, <<Ref("ab"), TreeOfA>>} }
OnePage == Handwritten(<<Ref("a"), Asks("tree", "", "", "", {})>>)
TwoOfAName == <<PageAt("p", FALSE, FALSE, <<Ref("a")>>), PageAt("p", TRUE, TRUE, <<>>)>>
Older(extracts, directives) == [extracts |-> extracts, pages |-> Handwritten(directives)]
MCOlder ==
  { <<>>, <<Older(FALSE, <<>>)>>, <<Older(TRUE, <<Ref("a")>>)>>,
    <<Older(TRUE, <<Ref("none")>>), Older(FALSE, <<>>)>>,
    <<Older(TRUE, <<OfSite>>), Older(TRUE, <<Ref("a")>>)>>,
    <<Older(TRUE, <<OnModule>>), Older(TRUE, <<Ref("a")>>)>> }
Project(groups, ofPages, templates, older, script, home, strict, threshold, off, ofPosts) ==
  [groups |-> groups, pages |-> ofPages, templates |-> templates, older |-> older,
   script |-> script, home |-> home, strictcli |-> strict, threshold |-> threshold,
   off |-> off, posts |-> ofPosts]
MCProjects ==
  { Project(groups, ofPages, <<>>, <<>>, TRUE, home, home, 100, {}, {}) :
      groups \in {<<>>, <<"go">>, <<"python", "go">>}, ofPages \in MCPages, home \in BOOLEAN }
  \cup
  { Project(<<"go">>, ofPages, templates, older, strict, TRUE, strict, 50, off, ofPosts) :
      ofPages \in {OnePage, TwoOfAName}, older \in MCOlder, strict \in BOOLEAN,
      templates \in {<<>>, <<PageAt("_R", FALSE, FALSE, <<Ref("none")>>)>>},
      off \in {{}, {"version-tag-not-extractable"}, {"missing-post-date"}},
      ofPosts \in {{}, {"broken"}, {"invalid", "broken"}} }

(* CliPages: flags that share words, and choices nested in choices.            *)
Flag(words) == [kind |-> "value", name |-> words, choices |-> <<>>]
Choice(words, flags) == [name |-> words, flags |-> flags]
Selector(shape, words, choices) == [kind |-> shape, name |-> words, choices |-> choices]
Output == Flag(<<"out">>)
ByMail ==
  Selector("token", <<"via">>, <<Choice(<<"mail">>, <<Flag(<<"to">>)>>), Choice(<<"log">>, <<>>)>>)
Source ==
  Selector("member", <<"source">>,
           <<Choice(<<"file">>, <<Flag(<<"value">>), Output>>),
             Choice(<<"std">>, <<ByMail, Flag(<<"value">>)>>)>>)
Mode ==
  Selector("token", <<"mode">>,
           <<Choice(<<"fast">>, <<Flag(<<"value">>), Source>>), Choice(<<"slow">>, <<>>)>>)
Cmd(words, help, effect, flags) ==
  [name |-> words, help |-> help, effect |-> effect, flags |-> flags]
Grp(words, commands, groups) ==
  [name |-> words, help |-> 1, commands |-> commands, groups |-> groups]
Drafts ==
  << Grp(<<"post">>, <<Cmd(<<"new">>, 1, FALSE, <<Flag(<<"x">>)>>)>>,
         <<Grp(<<"draft">>, <<Cmd(<<"run">>, 1, TRUE, <<Source>>)>>, <<>>)>>) >>
MCSchemas ==
  { [commands |-> <<Cmd(<<"run">>, help, FALSE, flags)>>, groups |-> <<>>] :
      help \in {1, 2},
      flags \in {<<Output>>, <<Flag(<<"out", "put">>)>>, <<Output, Source>>, <<Mode, Flag(<<"x">>)>>} }
  \cup { [commands |-> <<Cmd(words, 1, FALSE, <<>>)>>, groups |-> Drafts] :
           words \in {<<"run">>, <<"index">>} }

(* Quality: submodules in the sources, within each other and in the docs.      *)
File(dir, is, lines) == [dir |-> dir, is |-> is, lines |-> lines]
MCReadme == File(<<>>, "markdown", 1)
MCStartPage == File(<<"docs">>, "markdown", 2)
MCTemplates == {File(<<"docs">>, "markdown", 3)}
MCDocs == <<"docs">>
MCGeneratedPages == <<"pages">>
MCModules == {<<"ext">>, <<"ext", "lib">>, <<"docs", "shared">>}
MCFiles ==
  {MCReadme, MCStartPage} \cup MCTemplates \cup
  { File(<<"ext">>, "code", 9), File(<<"ext", "lib">>, "test code", 4),
    File(<<"ext", "tests">>, "code", 2), File(<<"ext">>, "markdown", 4),
    File(<<"pkg">>, "code", 20), File(<<"pkg", "vendor">>, "test code", 5),
    File(<<"docs", "shared">>, "markdown", 1), File(<<"experiments">>, "markdown", 7),
    File(<<"docs", "_build">>, "markdown", 1), File(<<"pages">>, "changelog", 3) }

(* Config: documents with retired and unknown keys, keys that contradict each  *)
(* other, items that repeat, nulls, and none at all.                           *)
MCLooks ==
  [version |-> {"1.0.0"}, language |-> {"en"}, locale |-> {"en", "de"}, handle |-> {"@a"},
   fence |-> {"go"}] @@ "holds {file}" :> {"run {file}"}
MCStripped == "u" :> "u" @@ "u/" :> "u" @@ "/" :> ""
MCBasename == "core" :> "core" @@ "x/core" :> "core" @@ "cli" :> "cli"
Named(field, value) == Object(field :> JsonText(value))
MCCode == Items(<<Object([path |-> JsonText("src"), language |-> JsonText("go")])>>)
MCVersions == Items(<<Named("version", "1"), Named("version", "2")>>)
MCLocaleItem(code, default) ==
  Object([code |-> JsonText(code), label |-> JsonText("L"), default |-> JsonFlag(default)])
Template(template, outputs) ==
  Object([template |-> JsonText(template), outputs |-> Items([i \in 1 .. Len(outputs) |-> JsonText(outputs[i])])])
MCUnifiedItem(first, second) ==
  Object("projects" :> Items(<<Named("path", first), Named("path", second)>>))
RequiredKeys ==
  [base_url |-> JsonText("u/"), search_engine |-> JsonText("pagefind"),
   author |-> Object([name |-> JsonText("A"), url |-> JsonText("u")])]
RetiredKeys ==
  [lint_ignore |-> Items(<<>>), language |-> JsonText("go"), bogus |-> JsonInt(1),
   source |-> Items(<<JsonText("src")>>),
   topology |-> Object([slug |-> JsonText("p"), assembly |-> JsonText("r"), docs_base |-> JsonText("u/")])]
CrossedKeys ==
  [unversioned |-> JsonFlag(TRUE), source |-> MCCode, versions |-> MCVersions,
   deploy |-> Named("provider", "cloudflare-pages"), feedback |-> Object(NoObject)]
DoubledKeys ==
  [versions |-> Items(<<Named("version", "1"), Named("version", "2"), Named("version", "1")>>),
   locales |-> Items(<<MCLocaleItem("en", TRUE), MCLocaleItem("de", TRUE)>>),
   root_files |-> Items(<<Template("a", <<"README">>), Template("b", <<"LICENSE", "README">>)>>),
   unified |-> MCUnifiedItem("core", "x/core")]
NullKeys ==
  [docs |-> Null, redirects |-> Null, versions |-> Null, branding |-> Null, coverage_threshold |-> JsonInt(2),
   examples |-> Named("go", "run"), unversioned |-> Null]
MCDocuments == {RequiredKeys @@ RetiredKeys, NoObject, RequiredKeys @@ CrossedKeys, RequiredKeys @@ DoubledKeys, NullKeys @@ RequiredKeys}
MCEdits ==
  { <<"base_url", NoField>>, <<"base_url", Null>>, <<"search_engine", JsonText("lunr")>>,
    <<"coverage_threshold", Float(-1)>>, <<"feed_max_entries", JsonInt(0)>>,
    <<"versions", Items(<<Null>>)>>, <<"versions", MCVersions>>, <<"locales", Items(<<Named("code", "xx")>>)>>,
    <<"source", MCCode>>, <<"source", Null>>, <<"unversioned", JsonFlag(TRUE)>>, <<"author", Null>>,
    <<"docs", Null>>, <<"theme", Null>>, <<"gen", Named("only", "x")>>,
    <<"root_files", Items(<<Template("a", <<"../x">>)>>)>>, <<"root_files", Items(<<JsonText("a")>>)>>,
    <<"posts", Named("dir", "p")>> }
MCRight ==
  [ base_url |-> {JsonText("u"), JsonText("/")}, search_engine |-> {JsonText("pagefind")}, author |-> {RequiredKeys.author},
    source |-> {MCCode, Items(<<>>)}, coverage_threshold |-> {Float(0), JsonInt(1)},
    feed_max_entries |-> {JsonInt(1)}, versions |-> {MCVersions, Items(<<Named("version", "1")>>)},
    locales |-> {Items(<<MCLocaleItem("en", TRUE), MCLocaleItem("de", FALSE)>>)},
    root_files |-> {Items(<<Template("a", <<"README">>), Template("b", <<"LICENSE">>)>>)},
    unified |-> {MCUnifiedItem("core", "cli")}, feedback |-> {Named("ga", "G")},
    deploy |-> {Named("provider", "github-pages"),
                Object([provider |-> JsonText("cloudflare-pages"), project |-> JsonText("p")])},
    gen |-> {Object(NoObject)}, examples |-> {Named("go", "run {file}")} ]

(* The parts at rest.                                                          *)
NoMatch ==
  /\ pattern = <<>> /\ name = <<>> /\ p = 1 /\ n = 1 /\ starPat = 0 /\ starName = 1
  /\ matched = "yes"
NoWalk == language = "go" /\ root = <<>> /\ exclude = NoPattern /\ files = {}
NoBlocks == blocks = <<>> /\ matter = 0 /\ titled = FALSE
NoEffects ==
  /\ disk = Start(Absent, Absent, Absent, Absent) /\ meant = disk /\ replayed = disk
  /\ touched = {} /\ reach = {} /\ refused = FALSE /\ declined = FALSE /\ ops = 0
NoWrites ==
  /\ file = NoFile /\ mode = "rw" /\ open = [w \in Writers |-> NoFile] /\ temp = open
  /\ pc = [w \in Writers |-> "idle"] /\ asked = [w \in Writers |-> ModeDefault] /\ plain = {}
NoProcess ==
  /\ stages = 1 /\ proc = <<"unstarted">> /\ held = <<0>> /\ pipe = <<0>>
  /\ holder = FALSE /\ deadline = "none" /\ waiting = 0 /\ answer = "none"
NoProject ==
  /\ project = Project(<<>>, OnePage, <<>>, <<>>, TRUE, TRUE, TRUE, 50, {}, {})
  /\ step = "idle" /\ dry = TRUE /\ left = 0
  /\ result = NoResult /\ temps = {} /\ written = {} /\ followed = FALSE
NoProgram ==
  /\ schema = [commands |-> <<>>, groups |-> <<>>] /\ pages = [key \in {} |-> NoPage]
  /\ fresh = FALSE /\ found = NoPage

NoConfig == config = NoObject /\ repoLayout = "moved" /\ load = NotLoaded /\ edits = 0

Parts ==
  {"globs", "walks", "lints", "previews", "writes", "processes", "check", "cli", "quality",
   "config"}

MCInit ==
  /\ part \in Parts /\ QualityInit
  /\ IF part = "globs" THEN GlobInit ELSE NoMatch
  /\ IF part = "walks" THEN WalkInit ELSE NoWalk
  /\ IF part = "lints" THEN PageInit ELSE NoBlocks
  /\ IF part = "previews" THEN EffectsInit ELSE NoEffects
  /\ IF part = "writes" THEN FilesInit ELSE NoWrites
  /\ IF part = "processes" THEN ProcInit ELSE NoProcess
  /\ IF part = "check" THEN CheckInit ELSE NoProject
  /\ IF part = "cli" THEN CliInit ELSE NoProgram
  /\ IF part = "config" THEN ConfigInit ELSE NoConfig

MCNext ==
  \/ /\ part = "globs" /\ GlobNext
     /\ UNCHANGED <<walkVars, lintVars, effectVars, fileVars, procVars, checkVars, cliVars, qualityVars, configVars, part>>
  \/ /\ part = "walks" /\ WalkNext
     /\ UNCHANGED <<globVars, lintVars, effectVars, fileVars, procVars, checkVars, cliVars, qualityVars, configVars, part>>
  \/ /\ part = "lints" /\ PageNext
     /\ UNCHANGED <<globVars, walkVars, effectVars, fileVars, procVars, checkVars, cliVars, qualityVars, configVars, part>>
  \/ /\ part = "previews" /\ EffectsNext
     /\ UNCHANGED <<globVars, walkVars, lintVars, fileVars, procVars, checkVars, cliVars, qualityVars, configVars, part>>
  \/ /\ part = "writes" /\ FilesNext
     /\ UNCHANGED <<globVars, walkVars, lintVars, effectVars, procVars, checkVars, cliVars, qualityVars, configVars, part>>
  \/ /\ part = "processes" /\ ProcNext
     /\ UNCHANGED <<globVars, walkVars, lintVars, effectVars, fileVars, checkVars, cliVars, qualityVars, configVars, part>>
  \/ /\ part = "check" /\ CheckNext
     /\ UNCHANGED <<globVars, walkVars, lintVars, effectVars, fileVars, procVars, cliVars, qualityVars, configVars, part>>
  \/ /\ part = "cli" /\ CliNext
     /\ UNCHANGED <<globVars, walkVars, lintVars, effectVars, fileVars, procVars, checkVars, qualityVars, configVars, part>>
  \/ /\ part = "quality" /\ QualityNext
     /\ UNCHANGED <<globVars, walkVars, lintVars, effectVars, fileVars, procVars, checkVars, cliVars, configVars, part>>
  \/ /\ part = "config" /\ ConfigNext
     /\ UNCHANGED <<globVars, walkVars, lintVars, effectVars, fileVars, procVars, checkVars, cliVars, qualityVars, part>>

checksVars ==
  <<globVars, walkVars, lintVars, effectVars, fileVars, procVars, checkVars, cliVars,
    qualityVars, configVars, part>>

(* GlobFair, ProcFair and ConfigFair, each in its own part.                    *)
MCFair ==
  /\ WF_globVars(part = "globs" /\ GlobNext)
  /\ WF_procVars(part = "processes" /\ (StartStage \/ StartFails \/ Wait))
  /\ WF_procVars(part = "processes" /\ DeadlinePasses)
  /\ WF_procVars(part = "processes" /\ DelayPasses)
  /\ \A i \in 1 .. MaxStages :
       WF_procVars(/\ part = "processes" /\ i \in StageNumbers
                   /\ WritePiece(i) \/ ReadPiece(i) \/ Exit(i))
  /\ []<>(part = "config" => load # NotLoaded)
  /\ []<>(part = "config" => load.ok \/ load = NotLoaded)

MCSpec == MCInit /\ [][MCNext]_checksVars /\ MCFair

(* What a project publishes of its program is of its own program: the pages   *)
(* of its command line, and the tier of its report.                           *)
ReportsAreOfTheProject == CliPagesAreTheProgram /\ TierIsTheProjects
===============================================================================
