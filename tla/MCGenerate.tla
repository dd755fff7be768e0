------------------------------- MODULE MCGenerate -------------------------------
(* The author's commands in one run: the pages of one essay, the module it is  *)
(* about and a command, with their hash store; or the root files of two        *)
(* templates and the data file of a script, with their commits; or the builds  *)
(* of a site of two locales, two versions and a post; or what is published of  *)
(* two pages, one of them with a term of the list.  The four share no state    *)
(* here, so a behaviour is of one of them.                                     *)
EXTENDS SiteBuild, Generate, GenCommands, Publishing

(* Two locales, one superseded version and one post; three trees: the site    *)
(* before a page was added and another dropped, the site after, and one whose  *)
(* second locale has no pages.                                                 *)

MCLocales  == <<"en", "de">>
MCVersions == <<"1", "2">>

Content(en, de, generated, unversioned, needs, of, changelog) ==
  [pages |-> "en" :> en @@ "de" :> de, generated |-> generated,
   unversioned |-> unversioned, needs |-> needs, sources |-> of,
   changelog |-> changelog]

MCTree ==
  "old"  :> Content({"index", "ref"}, {"index"}, {}, {}, {}, {}, FALSE) @@
  "new"  :> Content({"index", "about"}, {"index", "about"}, {"api"}, {"about"}, {"src"}, {"src"}, TRUE) @@
  "half" :> Content({"index", "ref"}, {}, {}, {}, {}, {"src"}, TRUE)

MCRedirects == {<<"about", "index">>, <<"gone", "index">>}

-------------------------------------------------------------------------------
VARIABLE part

MCRefs == [e \in Essays |-> Modules]

MCRootFiles == << {"README.md", "pypi/README.md"}, {".claude/CLAUDE.md"} >>
MCScripts   == << "a.json" >>

NoProject ==
  /\ code = [p \in Modules \cup Commands |-> CHOOSE s \in Sentences : TRUE]
  /\ claimed = {} /\ file = <<>> /\ store = <<>> /\ gen = Idle
  /\ author = [p \in Pages |-> "machine"] /\ reviewed = [p \in Pages |-> Unjudged]
  /\ settled = FALSE /\ edits = 0

NoRepository ==
  /\ work = [f \in Files |-> Absent] /\ index = work /\ head = work
  /\ ignored = {} /\ commit = NoCommit /\ outcome = "none" /\ asked = {}
  /\ touched = {} /\ steps = 0 /\ run = NoRun
  /\ templates = CHOOSE r \in Renderings : TRUE

NoBuilds ==
  /\ workTree = "old" /\ posts = {} /\ blog = <<>> /\ declared = {}
  /\ tags = [v \in SiteVersions \ {Latest} |-> "old"]
  /\ cache = [v \in SiteVersions \ {Latest} |-> [tree |-> None, sources |-> {}, hash |-> None]]
  /\ out = NoOutput /\ request = NotBuilding /\ result = "none"
  /\ spoilt = FALSE /\ moves = 0

(* Two pages: a plain one alone, or one that says a term, which is on the list *)
(* or not, and a picture that happens to hold it.                              *)
Bytes2(first, second) == "p" :> first @@ "q" :> second
PageFile(terms, text) == [terms |-> terms, text |-> text]
MCContents == {PageFile({}, TRUE), PageFile({"t"}, TRUE), PageFile({"t"}, FALSE)}
MCStarts ==
  {Bytes2(PageFile({}, TRUE), Missing), Bytes2(PageFile({"t"}, TRUE), PageFile({"t"}, FALSE))}
PublishStart ==
  /\ PublishInit /\ sources \in MCStarts /\ output \in MCStarts /\ refs.local = sources
  /\ licenses \in {{"proprietary"}, {"open"}}

NothingPublished ==
  /\ sources = [p \in Paths |-> Missing] /\ output = sources
  /\ refs = [local |-> sources, origin |-> sources]
  /\ list = {} /\ resolutions = {} /\ licenses = {} /\ command = NoPublish /\ staging = "none"
  /\ site = sources /\ revisions = sources /\ archive = sources
  /\ requests = 0 /\ publishes = 0 /\ disturbances = 0

MCInit ==
  \/ part = "pages" /\ Init /\ NoRepository /\ NoBuilds /\ NothingPublished
  \/ part = "commits" /\ CmdInit /\ NoProject /\ NoBuilds /\ NothingPublished
  \/ part = "builds" /\ BuildInit /\ NoProject /\ NoRepository /\ NothingPublished
  \/ part = "publishing" /\ PublishStart /\ NoProject /\ NoRepository /\ NoBuilds

MCNext ==
  \/ part = "pages" /\ Next /\ UNCHANGED <<cmdVars, buildVars, publishVars, part>>
  \/ part = "commits" /\ CmdNext /\ UNCHANGED <<vars, buildVars, publishVars, part>>
  \/ part = "builds" /\ BuildNext /\ UNCHANGED <<vars, cmdVars, publishVars, part>>
  \/ part = "publishing" /\ PublishNext /\ UNCHANGED <<vars, cmdVars, buildVars, part>>

MCSpec == MCInit /\ [][MCNext]_<<vars, cmdVars, buildVars, publishVars, part>>
===============================================================================
