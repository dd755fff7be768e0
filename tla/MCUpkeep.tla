------------------------------- MODULE MCUpkeep -------------------------------
(* What authors and operators do over the life of a project, in one run: posts *)
(* from scaffold to publish, their frontmatter and their words, the project's  *)
(* vocabulary and manifest, a unified site of several projects, and the moves  *)
(* of a repository to another layout and of an assembly to another schema.     *)
(* The parts share no state here: a behaviour is of one of them.               *)
EXTENDS Layout, Posts, Vocabulary, Rollout, UnifiedSite, Records

(* Repositories a migration meets: every layout, with the directories a       *)
(* project grants, one directory that is out of line, and each of the files   *)
(* beside them in each of its conditions.                                     *)

CONSTANT
  Misnamed   \* directories whose name may have the wrong dot

Owned(d, holds) == [owner |-> "selfdoc", named |-> TRUE, ignore |-> FALSE, holds |-> holds]

Presence == {{"docs", "docs-state"}, {"docs", "docs-state", "docs-cache", "vocabulary"},
             {"docs", "docs-cache", "posts"}}

Contents(d) == CASE d = "docs-state" -> {"none", "previous", "current"}
                 [] d = "vocabulary" -> {"none", "terms"}
                 [] OTHER -> {"none"}

PlainTrees(r) ==
  {[s \in Roots |-> [d \in Names |->
      IF s = r /\ d \in present THEN Owned(d, c[d]) ELSE Gone]] :
      present \in Presence,
      c \in {[d \in Names |-> IF d = "docs-state" THEN x ELSE IF d = "vocabulary" THEN y ELSE "none"] :
               x \in Contents("docs-state"), y \in Contents("vocabulary")}}

(* No directory is put beside one of its own name: which of the two is meant  *)
(* is not a question the advice answers.                                      *)
Absent(t, d) == \A r \in Roots : t[r][d] = Gone

OddTrees(t) ==
  (IF Absent(t, "posts")
   THEN {[t EXCEPT ![r]["posts"] = [BareEntry EXCEPT !.owner = o]] : r \in Roots, o \in {"none", "other"}}
   ELSE {})
  \cup (IF t[Root]["docs"] = Gone
        THEN {[t EXCEPT ![r]["docs"] = Owned("docs", "none")] : r \in Range(PreviousLayouts)}
        ELSE {})
  \cup {IF t[r][d] = Gone THEN t ELSE [t EXCEPT ![r][d].named = FALSE] :
          r \in Range(PreviousLayouts), d \in Misnamed}

Config(r, files) ==
  [present |-> TRUE, rootFiles |-> files, docs |-> r, output |-> r, template |-> r] @@
  [key \in {"posts.dir"} |-> r]

PlainRepository(r) ==
  [config |-> Config(r, "outputs"), claude |-> [root |-> "none", moved |-> r], rootIgnore |-> "none",
   prevIgnore |-> [s \in Range(PreviousLayouts) |-> IF s = r THEN "block" ELSE "none"],
   cli |-> [dir |-> FALSE, old |-> {}, now |-> {}, tracked |-> CLIFiles \cup {"stub"}, grants |-> {},
            ignore |-> FALSE, records |-> FALSE]]

OneOff(p, r) ==
  {[p EXCEPT !.config = Config(r, f)] : f \in {"templates", "plain", "none"}}
  \cup {[p EXCEPT !.config = [@ EXCEPT !.docs = Root]]}
  \cup {[p EXCEPT !.claude = c] : c \in {[root |-> r, moved |-> "none"], [root |-> "hand", moved |-> "none"],
                                         [root |-> r, moved |-> "hand"], [root |-> "hand", moved |-> r]}}
  \cup {[p EXCEPT !.rootIgnore = i] : i \in {"block", "foreign"}}
  \cup {[p EXCEPT !.prevIgnore = [s \in Range(PreviousLayouts) |-> IF s = r THEN i ELSE "none"]] :
          i \in {"none", "mixed"}}
  \cup {[p EXCEPT !.cli = [@ EXCEPT !.dir = TRUE, !.records = TRUE, !.old = o, !.now = n]] :
          o \in {CLIFiles \cup {"stub", "shards"}, {"shards", "odd"}, {"schema"}}, n \in {{}, {"schema"}}}
  \cup {[p EXCEPT !.cli = [@ EXCEPT !.dir = TRUE, !.old = {"schema"}, !.tracked = {}]]}

Adopting ==
  {[tree |-> [r \in Roots |-> [d \in Names |-> IF r = Root /\ d \in taken
                                                THEN [BareEntry EXCEPT !.owner = o] ELSE Gone]]]
   @@ [PlainRepository(Root) EXCEPT !.config.present = FALSE, !.claude.moved = "none"] :
     taken \in {{}, {"docs"}, {"docs-cache"}}, o \in {"none", "other", "selfdoc"}}

(* A key whose directory is not there is not declared, which means its default. *)
Fitting(t, b) ==
  [b EXCEPT !.config = [key \in {k \in DOMAIN KeyDir : t[@[k]][KeyDir[k]] = Gone} |-> Root] @@ @]

MCLayoutStarts ==
  Adopting \cup
  UNION {{[tree |-> t] @@ Fitting(t, PlainRepository(r)) : t \in UNION {OddTrees(u) : u \in PlainTrees(r)}}
         \cup {[tree |-> t] @@ Fitting(t, b) : t \in PlainTrees(r), b \in {PlainRepository(r)} \cup OneOff(PlainRepository(r), r)}
         : r \in Roots}

-------------------------------------------------------------------------------
VARIABLE part

MCOwnSlug == "p" :> "a" @@ "r" :> "b"

(* Vocabulary: a word and its capitals, patterns that start and end another.   *)
MCWords == <<"API", "api", "apis", "s">>
MCSpellings == "API" :> "api" @@ "api" :> "api" @@ "apis" :> "apis" @@ "s" :> "s"
MCSuffixOf == {<<"s", "apis">>}
MCPrefixOf == {<<"api", "apis">>}
MCBaselines ==
  { [accepted |-> {}, rejected |-> {}],
    [accepted |-> {[word |-> "api", alias |-> NoWord]},
     rejected |-> {[pattern |-> "s", kind |-> "suffix"]}] }

MCOrder == <<"p", "h">>

(* UnifiedSite: two projects and the shared pages, with pages of one version   *)
(* only, pages that are not versioned, and posts of one slug.                  *)
Tree(now, then, outside, slugs) ==
  [work |-> now, tag |-> then, unversioned |-> outside, posts |-> slugs]
Bare(slugs) == Tree({<<"index">>}, {<<"index">>, <<"old">>}, {}, slugs)
Faq(slugs) == Tree({<<"index">>, <<"faq">>}, {<<"index">>, <<"old">>}, {<<"faq">>}, slugs)
MCProjectList == <<"core", "cli">>
MCVersionList == <<"1", "2">>
MCLocaleList == <<"en">>
MCSites ==
  { "core" :> core @@ "cli" :> cli @@ "common" :> common :
      core \in {Bare({}), Bare({"a"}), Faq({"a"}), Faq({})},
      cli \in {Bare({}), Bare({"a"}), Bare({"b"}), Tree({<<"v">>}, {}, {}, {})},
      common \in {Bare({}), Faq({"b"}), Tree({}, {}, {}, {})} }
MCPinned == "1" :> {"core"} @@ "2" :> {}
Fault(what, whose) == [kind |-> what, owner |-> whose]
MCFaults ==
  { Fault("none", "none"), Fault("unreadable", "cli"), Fault("absent", "core"),
    Fault("post", "cli"), Fault("unresolved", "cli"), Fault("untagged", "core"),
    Fault("base_url", "common"), Fault("refused", "common") }

(* Spelling: words of two letters, their possessives and capitals.             *)
MCLower == "A" :> "a" @@ "S" :> "s"
MCAlphabet == <<"'", "A", "S", "a", "s">>
MCVocabularies ==
  { {<<"a", "s">>, <<"s", "a">>}, {<<"a", "s", "a">>}, {<<"s", "a">>, <<"A", "S">>, <<"a", "'", "s">>} }

(* Frontmatter: fields of every kind, lines that are none, what files start as.*)
MCSchema == [title |-> "string", date |-> "date", directives |-> "boolean"]
Value(class) == [class |-> class, text |-> <<>>]
MCMatterLines ==
  { Plain("fence"), Plain("indented fence"), Blank, Plain("comment"), Plain("prose"),
    Plain("close"), Field("title", Value("string")), Field("date", Value("date")),
    Field("date", Value("string")), Field("format_version", Value("integer")),
    Field("bogus", Value("integer")), Line("open", "title", NoValue) }
Begun(text, of, n) == [doc |-> text, kind |-> of, typed |-> n]
MCStarts ==
  { Begun(<<Plain("retired")>>, "page", 3), Begun(<<Plain("prose")>>, "page", 3),
    Begun(<<Plain("indented fence")>>, "page", 2), Begun(<<Plain("fence")>>, "page", 0),
    Begun(<<Plain("fence"), Field("date", Value("date")), Field("directives", Value("boolean"))>>,
          "post", 2) }

MCPageSets == {{"p"}, {"p", "q"}}
MCWordSets == {{}, {"w"}}

(* The parts at rest; of the assembly, one that has been moved.                *)
NoLists ==
  /\ accepted = <<>> /\ rejected = <<>> /\ pending = <<>>
  /\ baseline = [accepted |-> {}, rejected |-> {}] /\ approving = NoWord
  /\ changes = 0 /\ settling = FALSE /\ writer = "person"
Moved ==
  /\ repo = TRUE /\ roster = Given /\ pin = New /\ released = Schemas
  /\ base = [p \in Projects |-> IF p \in Given THEN [NoManifest EXCEPT !.schema = New] ELSE NoManifest]
  /\ tagged = base /\ overlay = [p \in Projects |-> NoOverlay]
  /\ work = [p \in Projects |-> [schema |-> New, committed |-> New, word |-> "says nothing", posts |-> {}]]
  /\ requests = {} /\ served = <<base, overlay>>
  /\ pass = [IdlePass EXCEPT !.pc = "done"] /\ disturbed = FALSE /\ moves = 0
NoSite ==
  /\ docs = [owner \in {"core", "cli", "common"} |-> Bare({})] /\ fault = Fault("none", "none")
  /\ injected = {} /\ build = NoBuild /\ site = <<>> /\ answer = "none" /\ spoilt = 0

Unwritten ==
  /\ pages = {"p"} /\ words = {} /\ disk = NoManifestFile /\ manifestHead = NoManifestFile
  /\ quiet = FALSE /\ turns = 0
NoLayout ==
  /\ repository = [tree |-> [r \in Roots |-> [d \in Names |-> Gone]]] @@
                  [PlainRepository(Root) EXCEPT !.config.present = FALSE, !.claude.moved = "none"]
  /\ gitHead = repository /\ run = NoRun /\ outcome = "idle" /\ deaths = 0 /\ behind = NothingBehind

Parts ==
  {"posts", "lists", "rollout", "unified", "words", "matter", "manifest", "layout"}

MCInit ==
  /\ part \in Parts /\ PostsInit
  /\ IF part = "lists" THEN VocabInit ELSE NoLists
  /\ IF part = "rollout" THEN RolloutInit ELSE Moved
  /\ IF part = "unified" THEN UnifiedInit ELSE NoSite
  /\ IF part = "words" THEN SpellInit ELSE line = <<>> /\ known = {}
  /\ IF part = "matter" THEN MatterInit ELSE doc = <<>> /\ kind = "page" /\ typed = 0
  /\ IF part = "manifest" THEN ManifestInit ELSE Unwritten
  /\ IF part = "layout" THEN LayoutInit ELSE NoLayout

MCNext ==
  \/ /\ part = "posts" /\ PostsNext
     /\ UNCHANGED <<vocabVars, rolloutVars, unifiedVars, spellVars,
                    matterVars, manifestVars, layoutVars, part>>
  \/ /\ part = "lists" /\ VocabNext
     /\ UNCHANGED <<postVars, rolloutVars, unifiedVars, spellVars,
                    matterVars, manifestVars, layoutVars, part>>
  \/ /\ part = "rollout" /\ RolloutNext
     /\ UNCHANGED <<postVars, vocabVars, unifiedVars, spellVars,
                    matterVars, manifestVars, layoutVars, part>>
  \/ /\ part = "unified" /\ UnifiedNext
     /\ UNCHANGED <<postVars, vocabVars, rolloutVars, spellVars,
                    matterVars, manifestVars, layoutVars, part>>
  \/ /\ part = "words" /\ SpellNext
     /\ UNCHANGED <<postVars, vocabVars, rolloutVars, unifiedVars,
                    matterVars, manifestVars, layoutVars, part>>
  \/ /\ part = "matter" /\ MatterNext
     /\ UNCHANGED <<postVars, vocabVars, rolloutVars, unifiedVars,
                    spellVars, manifestVars, layoutVars, part>>
  \/ /\ part = "manifest" /\ ManifestNext
     /\ UNCHANGED <<postVars, vocabVars, rolloutVars, unifiedVars,
                    spellVars, matterVars, layoutVars, part>>
  \/ /\ part = "layout" /\ LayoutNext
     /\ UNCHANGED <<postVars, vocabVars, rolloutVars, unifiedVars,
                    spellVars, matterVars, manifestVars, part>>

upkeepVars ==
  <<postVars, vocabVars, rolloutVars, unifiedVars, spellVars, matterVars, manifestVars,
    layoutVars, part>>

(* VocabFair, RolloutFair and LayoutFairness: a behaviour is of one part, so    *)
(* fairness to an action of each is fairness to their disjunction.             *)
OfLists(A) == part = "lists" /\ A /\ UNCHANGED <<rolloutVars, layoutVars>>
OfRollout(A) == part = "rollout" /\ A /\ UNCHANGED <<vocabVars, layoutVars>>
OfLayout(A) == part = "layout" /\ A /\ UNCHANGED <<vocabVars, rolloutVars>>
fairVars == <<vocabVars, rolloutVars, layoutVars>>
MCFair ==
  /\ WF_fairVars(\/ OfLists(\E word \in WordSet : FollowRemedy(word))
                 \/ OfRollout(PassGoesOn) \/ OfLayout(ApplyStep))
  /\ WF_fairVars(OfRollout(Operator) \/ OfLayout(FinishWithCommit))
  /\ WF_fairVars(\/ OfRollout(\E request \in requests : Deploy(request))
                 \/ OfLayout(cmdLayoutMigrate))
  /\ SF_fairVars(OfLayout(FollowAdvice))

MCSpec == MCInit /\ [][MCNext]_upkeepVars /\ MCFair

(* Words are settled: what spelling suggests, and the lists a word ends in.   *)
WordsAreSettled == ListsStaySound /\ []SpellingHelps

(* What was published is whole once everybody is done: every project is on    *)
(* the new schema and served (PassMakesTheSiteNew, RolloutEnds), and a unified *)
(* build serves every project's posts and returns every docs tree clean.      *)
SitesComeOutWhole == RolloutEnds /\ [](PassMakesTheSiteNew /\ TreesAreLeftClean /\ PostsReachTheSite)

(* What a project keeps in files between releases is read by the next one:    *)
(* frontmatter and manifests.                                                 *)
RecordsAreRead == BlocksAreReadAsWritten /\ ManifestsAreRead
===============================================================================
