------------------------------- MODULE Layout -------------------------------
(* The directories selfdoc keeps in a repository (internal/layout): which     *)
(* ones it claims, who owns each one, what a command checks before it writes  *)
(* into one, and what the validation of the whole tree reports.  A directory  *)
(* is an entry of a root with the owner its manifest names, its own ignore    *)
(* file, and the one document in it that a migration reads or converts.       *)
EXTENDS Naturals, Sequences, FiniteSets, SequencesExt

CONSTANT Gone  \* no such directory

Root == ".strictmetadata"

(* The roots of earlier layouts, newest first.                                *)
PreviousLayouts == <<"stricttools", ".stricttools">>

DottedGenerated == [r \in Range(PreviousLayouts) |-> r = "stricttools"]

Roots == Range(PreviousLayouts) \cup {Root}

Side == [d \in {"docs", "posts", "vocabulary"} |-> "handwritten"] @@
        [d \in {"docs-state", "docs-cache"} |-> "generated"]

Names == DOMAIN Side

Uncommitted == {"docs-cache"}

InitDirectories == <<"docs", "docs-state", "docs-cache", "vocabulary">>

(* What the tracked document of a directory holds: the schema of the build's  *)
(* manifest, the terms of the vocabulary.                                     *)
StoreSchemas == {"none", "previous", "current", "unknown"}
Holdings(d) == CASE d = "docs-state" -> StoreSchemas
                 [] d = "vocabulary" -> {"none", "empty", "terms"}
                 [] OTHER -> {"none"}

(* named: the entry's leading dot is the one the layout of its root asks for. *)
Entry(d) == [owner : {"none", "selfdoc", "other"}, named : BOOLEAN,
             ignore : BOOLEAN, holds : Holdings(d)]

Trees == [Roots -> [Names -> {Gone} \cup UNION {Entry(d) : d \in Names}]]

VARIABLES
  repository,  \* the working tree: tree, config, claude, the ignore files, cli
  gitHead   \* what git HEAD holds of it

DirTree == repository.tree

BareEntry == [owner |-> "none", named |-> TRUE, ignore |-> FALSE, holds |-> "none"]

(* The owner that the manifest at the directory's own path declares.          *)
ReadDirectoryManifest(d) ==
  IF DirTree[Root][d] = Gone \/ ~DirTree[Root][d].named THEN "none" ELSE DirTree[Root][d].owner

EnsureOwned(d) == ReadDirectoryManifest(d) = "selfdoc"

(* An entry counts as a claimed directory even when its dot is wrong; under   *)
(* an earlier root only when its manifest names selfdoc.                      *)
CurrentSelfdocEntries == {d \in Names : DirTree[Root][d] # Gone}

PreviousEntries(r) == {d \in Names : DirTree[r][d] # Gone}

PreviousSelfdocEntries(r) ==
  {d \in Names : DirTree[r][d] # Gone /\ DirTree[r][d].owner = "selfdoc"}

(* Under a root that dotted nothing a misnamed entry is not claimed at all.   *)

PreviousLookup(r, d) == DottedGenerated[r] \/ DirTree[r][d].named

RefuseUnmigrated ==
  /\ CurrentSelfdocEntries = {}
  /\ \E r \in Range(PreviousLayouts) : PreviousSelfdocEntries(r) # {}

ConfigKeys == {"docs", "output", "posts.dir"}

(* The config loader: a repository that was not moved, or whose declared      *)
(* paths are still under an earlier root, is refused by every command.        *)
RefuseOldLayout ==
  \/ RefuseUnmigrated
  \/ \E key \in ConfigKeys : repository.config[key] \in Range(PreviousLayouts)

OwnershipProblems ==
  {<<"ownership", d>> : d \in {e \in CurrentSelfdocEntries : DirTree[Root][e].owner # "selfdoc"}}
  \cup {<<"hidden", d>> : d \in {e \in CurrentSelfdocEntries :
                                   DirTree[Root][e].owner = "selfdoc" /\ ~DirTree[Root][e].named}}

IgnoreProblems ==
  {<<"ignore", Root>> : x \in {repository.rootIgnore} \ {"none"}}
  \cup {<<"ignore", d>> : d \in {e \in Uncommitted : EnsureOwned(e) /\ ~DirTree[Root][e].ignore}}

(* layout validate: an error before anything is judged, or the problems.      *)
Validates ==
  /\ ~RefuseUnmigrated
  /\ CurrentSelfdocEntries # {}
  /\ OwnershipProblems \cup IgnoreProblems = {}

SetEntry(r, d, entry) == [repository EXCEPT !.tree[r][d] = entry]

WriteManifest(d) ==
  SetEntry(Root, d, IF DirTree[Root][d] = Gone THEN [BareEntry EXCEPT !.owner = "selfdoc"]
                    ELSE [DirTree[Root][d] EXCEPT !.owner = "selfdoc"])

WriteDirectoryIgnore(d) ==
  IF d \in Uncommitted THEN [repository EXCEPT !.tree[Root][d].ignore = TRUE] ELSE repository

(* selfdoc init: a directory of another tool refuses it before anything is    *)
(* written; the manifests that are missing are written in their order, and    *)
(* then the ignore files.                                                     *)
GrantRefused ==
  \E d \in Range(InitDirectories) : ReadDirectoryManifest(d) = "other"

MissingGrants == SelectSeq(InitDirectories, LAMBDA d : ReadDirectoryManifest(d) = "none")

-------------------------------------------------------------------------------
(* selfdoc layout migrate (internal/migrate): it reads the repository, plans  *)
(* every step or refuses, performs the steps one by one with nothing that     *)
(* undoes them, and commits the paths the plan names.  Beside it selfdoc      *)
(* init, the builds, and the operator, who follows what a refusal prints.     *)

CONSTANTS
  LayoutStarts,     \* the repositories to begin with
  MaxDeaths   \* how often a command may stop half-way

CLIFiles == {"schema", "coverage"}
VARIABLES
  run,      \* the command that is running: its steps and the paths it commits
  outcome,  \* how the last command ended
  deaths,   \* how many commands stopped half-way
  behind    \* what they left: paths nobody has committed since, and whether
            \* directories had moved and the paths to them were not rewritten

layoutVars == <<repository, gitHead, run, outcome, deaths, behind>>

NothingBehind == [loose |-> {}, unrewritten |-> FALSE]

(* Directories and files as the plan goes through them.                       *)
InCodeOrder == <<"docs-cache", "docs-state", "docs", "posts", "vocabulary", "schema", "coverage", "shards">>

NoRun == [cmd |-> "none", from |-> Root, moved |-> {}, todo |-> <<>>, commit |-> {}]

Do(step, what) == [do |-> step, what |-> what]

(* A part of a plan: its refusal, its steps, the paths it commits.            *)
NoPart == [refuse |-> "", steps |-> <<>>, commit |-> {}]
Refuse(why) == [NoPart EXCEPT !.refuse = why]
Part(steps, commit) == [refuse |-> "", steps |-> steps, commit |-> commit]
When(condition, part) == IF condition THEN part ELSE NoPart

(* The parts of a plan in order: the first refusal is the plan's.             *)
Joined(parts) ==
  LET refused == {i \in DOMAIN parts : parts[i].refuse # ""}
  IN IF refused # {} THEN parts[CHOOSE i \in refused : \A j \in refused : i <= j]
     ELSE Part(FlattenSeq([i \in DOMAIN parts |-> parts[i].steps]),
               UNION {parts[i].commit : i \in DOMAIN parts})

Plan(parts) == CHOOSE plan \in {Joined(p) : p \in {parts}} : TRUE

InOrder(step, of) == SelectSeq([i \in DOMAIN InCodeOrder |-> Do(step, InCodeOrder[i])], LAMBDA s : s.what \in of)

Grant(d) == <<"owner", Root, d>>
Ignore(d) == <<"ignore", Root, d>>
Document(d) == <<"holds", Root, d>>

(* What is tracked of a directory that moves is committed at both places.     *)

PlanMoves(from, moved) ==
  Part(InOrder("move", moved),
       {"owner", "ignore", "holds"} \X {from, Root} \X {d \in moved : gitHead.tree[from][d] # Gone})

planIgnores(arriving) ==
  LET lacks == {d \in Uncommitted :
                  \/ d \in arriving
                  \/ DirTree[Root][d] # Gone /\ EnsureOwned(d) /\ ~DirTree[Root][d].ignore}
  IN IF repository.rootIgnore = "foreign" THEN Refuse("root ignore")
     ELSE Plan(<<When(repository.rootIgnore = "block",
                    Part(<<Do("delete", "rootIgnore")>>, {<<"rootIgnore">>})),
               Part(InOrder("ignore", lacks), {Ignore(d) : d \in lacks})>>)

(* Whether a directory moves is asked under the name it should have had.      *)
movedFunction(from, moved, d) == d \in moved /\ DirTree[from][d].named

WriteGrant == Part(<<Do("grant", "vocabulary")>>, {Grant("vocabulary")})
WriteTerms == Part(<<Do("terms", "vocabulary")>>, {Document("vocabulary")})

planVocabulary(from, moved) ==
  LET moves == movedFunction(from, moved, "vocabulary")
  IN Plan(<<When(~moves, WriteGrant),
          When(~(moves /\ DirTree[from]["vocabulary"].holds # "none"), WriteTerms)>>)

planMissingVocabulary ==
  When(ReadDirectoryManifest("vocabulary") = "none",
       Plan(<<WriteGrant,
            When(DirTree[Root]["vocabulary"] = Gone \/ DirTree[Root]["vocabulary"].holds = "none",
                 WriteTerms)>>))

(* The manifest is read where it is and rewritten where it goes; one that is  *)
(* current on disk and not at HEAD is committed as it is.                     *)
planManifests(from, stateMoves) ==
  LET state == DirTree[IF stateMoves THEN from ELSE Root]["docs-state"]
      declared == IF state = Gone \/ ~state.named THEN "none" ELSE state.holds
      atHead == gitHead.tree[Root]["docs-state"]
  IN CASE declared = "previous" ->
            Part(<<Do("convert", "docs-state")>>, {Document("docs-state")})
       [] declared = "unknown" -> Refuse("unknown schema")
       [] declared = "current" /\ ~stateMoves /\ atHead # Gone ->
            When(atHead.holds \notin {"none", "current"},
                 Part(<<Do("keep", "docs-state")>>, {Document("docs-state")}))
       [] OTHER -> NoPart

planPreviousIgnore(from) ==
  When(repository.prevIgnore[from] # "none",
       Part(<<Do(IF repository.prevIgnore[from] = "block" THEN "delete" ELSE "rewrite", "prevIgnore")>>,
            {<<"prevIgnore", from>>}))

KeyDir == [docs |-> "docs", output |-> "docs-cache", template |-> "docs"] @@
          [key \in {"posts.dir"} |-> "posts"]

olds(from, moved) ==
  {key \in DOMAIN KeyDir : repository.config[key] = from /\ KeyDir[key] \in moved}

(* The paths of the moved directories, and the root_files entries that name   *)
(* only a template; one that generated nothing names no output to convert to. *)
planConfig(from, moved) ==
  IF ~repository.config.present THEN NoPart
  ELSE IF repository.config.rootFiles = "plain" THEN Refuse("plain root file")
  ELSE When(olds(from, moved) # {} \/ repository.config.rootFiles = "templates",
            Part(<<Do("config", "config")>>, {<<"config">>}))

HasGeneratedHeader == repository.claude.root \in Roots

planRootClaude ==
  IF ~HasGeneratedHeader THEN NoPart
  ELSE IF repository.claude.moved # "none" THEN Refuse("two CLAUDE files")
  ELSE Part(<<Do("claude", "claude")>>, {<<"claude">>})

(* Only in a full move: the first line of the generated file names its        *)
(* template; a file this plan also moves is read where it is.                 *)
planRootFileHeaders(from) ==
  LET reads == IF HasGeneratedHeader THEN repository.claude.root ELSE repository.claude.moved
  IN When(/\ repository.config.present /\ repository.config.rootFiles # "none"
          /\ repository.config.template # Root
          /\ reads = repository.config.template,
          Part(<<Do("header", "claude")>>, {<<"claude">>}))

CLIReceives == [schema |-> {"schema"}, coverage |-> {"coverage", "shards"}]

planCLIGrant(k) ==
  LET arrive == CLIReceives[k] \cap repository.cli.old
      exists == CLIReceives[k] \cap repository.cli.now # {} \/ k \in repository.cli.grants
  IN When(arrive # {} \/ exists,
          Plan(<<When(k \notin repository.cli.grants, Part(<<Do("cli grant", k)>>, {<<"cli">>})),
               When(k = "coverage" /\ ~repository.cli.ignore, Part(<<Do("cli ignore", k)>>, {<<"cli">>}))>>))

(* A file whose place is unknown, or that git does not track where it should, *)
(* refuses the plan, and so does one whose new place is taken.                *)
planCLIFiles ==
  LET old == repository.cli.old
      unplaceable == (old \cap {"odd"})
                     \cup {f \in old \cap {"schema", "coverage", "stub"} : f \notin repository.cli.tracked}
                     \cup (old \cap {"shards"} \cap repository.cli.tracked)
      moves == old \cap {"schema", "coverage", "shards"}
  IN IF ~repository.cli.dir THEN NoPart
     ELSE IF moves \cap repository.cli.now # {} THEN Refuse("cli file at both places")
     ELSE IF unplaceable # {} THEN Refuse("unplaceable")
     ELSE Plan(<<Part(InOrder("cli move", moves), {<<"cli">>}),
                 When("stub" \in old, Part(<<Do("delete", "stub")>>, {<<"cli">>})),
                 planCLIGrant("schema"), planCLIGrant("coverage"),
                 Part(<<Do("remove", "cli")>>, {}),
                 When(repository.cli.records, Part(<<Do("records", "cli")>>, {<<"cli">>}))>>)


(* The current layout with nothing under an earlier root is converted in      *)
(* place; what lies under two roots is not guessed about.                     *)
PlanMigration ==
  LET occupied == {i \in DOMAIN PreviousLayouts :
                     PreviousSelfdocEntries(PreviousLayouts[i]) # {}}
      from == PreviousLayouts[CHOOSE i \in occupied : \A j \in occupied : i <= j]
      previous == PreviousSelfdocEntries(from)
      OrNotNeeded(plan) ==
        IF plan.refuse = "" /\ plan.steps = <<>> THEN Refuse("not needed") ELSE plan
  IN IF occupied = {} /\ CurrentSelfdocEntries # {}
     THEN OrNotNeeded(Plan(<<planConfig(Root, {}), planRootClaude, planMissingVocabulary,
                             planManifests(Root, FALSE), planIgnores({}), planCLIFiles>>))
          @@ [from |-> Root, moved |-> {}]
     ELSE IF occupied = {} THEN OrNotNeeded(planCLIFiles) @@ [from |-> Root, moved |-> {}]
     ELSE (IF CurrentSelfdocEntries # {} THEN Refuse("partial")
           ELSE IF Cardinality(occupied) > 1 THEN Refuse("several roots")
           ELSE IF \E d \in previous : ~PreviousLookup(from, d) THEN Refuse("unclaimed")
           ELSE Plan(<<PlanMoves(from, previous), planIgnores(previous),
                       planVocabulary(from, previous),
                       planManifests(from, movedFunction(from, previous, "docs-state")),
                       planPreviousIgnore(from), planConfig(from, previous), planRootClaude,
                       planRootFileHeaders(from), planCLIFiles>>))
          @@ [from |-> from, moved |-> previous]

(* Apply goes through the kinds of steps in this order, and through the steps *)
(* of a kind in the order they were planned.                                  *)
Stages == <<{"move"}, {"claude"}, {"cli move"},
            {"grant", "terms", "ignore", "cli grant", "cli ignore"},
            {"convert", "keep", "rewrite", "config", "header", "records"}, {"delete"}, {"remove"}>>

Staged(steps) ==
  FlattenSeq([i \in DOMAIN Stages |-> SelectSeq(steps, LAMBDA s : s.do \in Stages[i])])

Perform(step, d) ==
  CASE step = "move" ->
         [repository EXCEPT !.tree[run.from][d] = Gone,
                      !.tree[Root][d] = [repository.tree[run.from][d] EXCEPT !.named = TRUE]]
    [] step = "claude" -> [repository EXCEPT !.claude = [root |-> "none", moved |-> repository.claude.root]]
    [] step = "cli move" -> [repository EXCEPT !.cli.old = @ \ {d}, !.cli.now = @ \cup {d}]
    [] step = "grant" -> WriteManifest(d)
    [] step = "terms" -> [repository EXCEPT !.tree[Root][d].holds = "empty"]
    [] step = "ignore" -> WriteDirectoryIgnore(d)
    [] step = "cli grant" -> [repository EXCEPT !.cli.grants = @ \cup {d}]
    [] step = "cli ignore" -> [repository EXCEPT !.cli.ignore = TRUE]
    [] step = "convert" -> [repository EXCEPT !.tree[Root][d].holds = "current"]
    [] step = "keep" -> repository
    [] step = "config" ->
         [repository EXCEPT !.config =
            [key \in olds(run.from, run.moved) |-> Root]
            @@ [rootFiles |-> IF @.rootFiles = "templates" THEN "outputs" ELSE @.rootFiles] @@ @]
    [] step = "header" -> [repository EXCEPT !.claude.moved = Root]
    [] step = "records" -> [repository EXCEPT !.cli.records = FALSE]
    [] step = "rewrite" -> [repository EXCEPT !.prevIgnore[run.from] = "none"]
    [] step = "delete" -> (CASE d = "rootIgnore" -> [repository EXCEPT !.rootIgnore = "none"]
                            [] d = "prevIgnore" -> [repository EXCEPT !.prevIgnore[run.from] = "none"]
                            [] d = "stub" -> [repository EXCEPT !.cli.old = @ \ {"stub"}])
    [] step = "remove" -> [repository EXCEPT !.cli.dir = FALSE]

(* A commit of paths: each file as it is in the working tree, or its absence. *)
CommitEntry(r, d, fields) ==
  IF fields = {} THEN gitHead.tree[r][d]
  ELSE IF DirTree[r][d] = Gone THEN Gone
  ELSE LET base == IF gitHead.tree[r][d] = Gone THEN BareEntry ELSE gitHead.tree[r][d]
       IN [f \in fields |-> DirTree[r][d][f]] @@ base

CommitMove(paths) ==
  [tree |-> [r \in Roots |-> [d \in Names |->
               CommitEntry(r, d, {f \in {"owner", "ignore", "holds"} : <<f, r, d>> \in paths})]],
   prevIgnore |-> [r \in Range(PreviousLayouts) |->
                     IF <<"prevIgnore", r>> \in paths THEN repository.prevIgnore[r] ELSE gitHead.prevIgnore[r]]]
  @@ [part \in {"config", "claude", "rootIgnore", "cli"} |->
        IF <<part>> \in paths THEN repository[part] ELSE gitHead[part]]

NotMoving == run = NoRun

cmdLayoutMigrate ==
  /\ NotMoving
  /\ \E plan \in {PlanMigration} :
        IF plan.refuse # ""
        THEN outcome' = plan.refuse /\ UNCHANGED run
        ELSE /\ run' = [cmd |-> "migrated", from |-> plan.from, moved |-> plan.moved,
                        todo |-> Staged(plan.steps), commit |-> plan.commit]
             /\ outcome' = "running"
  /\ UNCHANGED <<repository, gitHead, deaths, behind>>

(* selfdoc init: a directory of another tool refuses it before anything is    *)
(* written; then the missing manifests, the ignore files, and the config.     *)
cmdInit ==
  /\ NotMoving
  /\ IF repository.config.present \/ GrantRefused
     THEN outcome' = "refused" /\ UNCHANGED run
     ELSE LET grants == MissingGrants
              ignores == SelectSeq(InitDirectories, LAMBDA d : d \in Uncommitted)
          IN /\ run' = [NoRun EXCEPT !.cmd = "initialised",
                  !.todo = [i \in DOMAIN grants |-> Do("grant", grants[i])]
                           \o [i \in DOMAIN ignores |-> Do("ignore", ignores[i])]
                           \o <<Do("scaffold", "config")>>,
                  !.commit = {Grant(d) : d \in Range(grants)} \cup {<<"config">>}
                             \cup {Ignore(d) : d \in Range(ignores)}]
             /\ outcome' = "running"
  /\ UNCHANGED <<repository, gitHead, deaths, behind>>

Scaffold ==
  [repository EXCEPT !.config = [present |-> TRUE, rootFiles |-> "none"]
                          @@ [key \in DOMAIN KeyDir |-> Root]]

ApplyStep ==
  /\ run.todo # <<>>
  /\ LET step == Head(run.todo)
     IN repository' = IF step.do = "scaffold" THEN Scaffold ELSE Perform(step.do, step.what)
  /\ run' = [run EXCEPT !.todo = Tail(@)]
  /\ UNCHANGED <<gitHead, outcome, deaths, behind>>

FinishWithCommit ==
  /\ ~NotMoving /\ run.todo = <<>>
  /\ gitHead' = CommitMove(run.commit)
  /\ outcome' = run.cmd
  /\ run' = NoRun
  /\ behind' = [behind EXCEPT !.loose = @ \ run.commit]
  /\ UNCHANGED <<repository, deaths>>

(* A step that fails, a commit that fails and a process that dies leave alike *)
(* what was done before; nothing undoes it.                                   *)
ToDo == {run.todo[i].do : i \in DOMAIN run.todo}

StopHalfway ==
  /\ ~NotMoving /\ deaths < MaxDeaths
  /\ deaths' = deaths + 1
  /\ outcome' = "stopped"
  /\ run' = NoRun
  /\ behind' = [loose |-> behind.loose \cup run.commit,
                 unrewritten |-> \/ behind.unrewritten
                                 \/ run.moved # {} /\ "move" \notin ToDo
                                                   /\ {"config", "header"} \cap ToDo # {}]
  /\ UNCHANGED <<repository, gitHead>>

(* Any build: refused over the layout, or it writes the current manifest and  *)
(* the ignore file of the cache, in directories it owns.                      *)
EnsureDirs ==
  /\ NotMoving /\ repository.config.present
  /\ IF RefuseOldLayout
     THEN /\ outcome' = IF RefuseUnmigrated THEN "unmigrated" ELSE "old paths"
          /\ UNCHANGED repository
     ELSE /\ EnsureOwned("docs-state") /\ EnsureOwned("docs-cache")
          /\ repository' = [WriteDirectoryIgnore("docs-cache") EXCEPT
                              !.tree[Root]["docs-state"].holds = "current"]
          /\ outcome' = "built"
  /\ UNCHANGED <<gitHead, run, deaths, behind>>

Back(r, d) == [DirTree[Root][d] EXCEPT !.named = TRUE]

(* What the operator does about a refusal, as the refusal words it, and then   *)
(* commits all that there is.                                                 *)
Repaired ==
  CASE outcome = "partial" ->
         LET from == CHOOSE r \in Range(PreviousLayouts) : PreviousSelfdocEntries(r) # {}
         IN [repository EXCEPT !.tree =
               [@ EXCEPT ![from] = [d \in Names |-> IF DirTree[Root][d] # Gone THEN Back(from, d) ELSE @[d]],
                         ![Root] = [d \in Names |-> Gone]]]
    [] outcome = "several roots" ->
         [repository EXCEPT !.tree = [r \in Roots |->
            IF r = repository.config.docs THEN @[r] ELSE [d \in Names |-> Gone]]]
    [] outcome = "unclaimed" ->
         [repository EXCEPT !.tree[".stricttools"] =
            [d \in Names |-> IF @[d] = Gone THEN Gone ELSE [@[d] EXCEPT !.named = TRUE]]]
    [] outcome = "two CLAUDE files" -> [repository EXCEPT !.claude.root = "none"]
    [] outcome = "root ignore" -> [repository EXCEPT !.rootIgnore = "block"]
    [] outcome = "plain root file" -> [repository EXCEPT !.config.rootFiles = "none"]
    [] outcome = "unplaceable" ->
         [repository EXCEPT !.cli.old = @ \ {"odd"}, !.cli.tracked = CLIFiles \cup {"stub"}]
    [] outcome = "old paths" ->
         [repository EXCEPT !.config = [key \in ConfigKeys |-> Root] @@ @]
    [] outcome = "cli file at both places" -> [repository EXCEPT !.cli.old = @ \ repository.cli.now]

FollowAdvice ==
  /\ NotMoving
  /\ outcome \in {"partial", "several roots", "unclaimed", "two CLAUDE files", "root ignore",
                  "plain root file", "unplaceable", "cli file at both places", "old paths"}
  /\ repository' = Repaired
  /\ gitHead' = Repaired
  /\ outcome' = "repaired"
  /\ behind' = [behind EXCEPT !.loose = {}]
  /\ UNCHANGED <<run, deaths>>

LayoutInit ==
  /\ repository \in LayoutStarts /\ gitHead = repository
  /\ run = NoRun /\ outcome = "idle" /\ deaths = 0 /\ behind = NothingBehind

LayoutNext ==
  \/ cmdLayoutMigrate
  \/ cmdInit
  \/ ApplyStep
  \/ FinishWithCommit
  \/ StopHalfway
  \/ EnsureDirs
  \/ FollowAdvice

LayoutSpec == LayoutInit /\ [][LayoutNext]_layoutVars

(* Commands run to their end, and a person runs the migration again and does  *)
(* what it asks for.                                                          *)
LayoutFairness ==
  /\ WF_layoutVars(ApplyStep) /\ WF_layoutVars(FinishWithCommit)
  /\ WF_layoutVars(cmdLayoutMigrate) /\ SF_layoutVars(FollowAdvice)

FairLayoutSpec == LayoutSpec /\ LayoutFairness

-----------------------------------------------------------------------------

(* Type invariant: directories, steps and answers are of the declared kinds.  *)
LayoutTypeOK ==
  /\ repository.tree \in Trees /\ gitHead.tree \in Trees
  /\ \A r \in Roots, d \in Names : DirTree[r][d] # Gone => DirTree[r][d].holds \in Holdings(d)
  /\ run.from \in Roots /\ run.moved \subseteq Names
  /\ \A i \in DOMAIN run.todo : run.todo[i].do \in UNION Range(Stages) \cup {"scaffold"}
  /\ deaths \in 0 .. MaxDeaths

(* A migration that ended well leaves nothing for a second one, whatever        *)
(* stopped before it: what each plan writes is what the next plan, and the      *)
(* validation, look for.                                                      *)
SecondRunFindsNothing ==
  outcome = "migrated" =>
    /\ PlanMigration.refuse = "not needed"
    /\ CurrentSelfdocEntries # {} /\ OwnershipProblems = {} => Validates

(* What the builds write and leave to their own commits.                      *)
BuiltFields(d) == CASE d = "docs-cache" -> {"ignore"}
                    [] d = "docs-state" /\ gitHead.tree[Root][d] # Gone /\ gitHead.tree[Root][d].holds = "none" -> {"holds"}
                    [] OTHER -> {}

(* The paths the plan commits are all the tracked files its steps touched, at *)
(* the old and the new place.  After it only what builds wrote may still       *)
(* differ, and what a stopped command was to commit and no later one planned.  *)
MoveIsCommitted ==
  outcome = "migrated" =>
    /\ \A part \in {"config", "claude", "rootIgnore", "cli"} :
         gitHead[part] = repository[part] \/ <<part>> \in behind.loose
    /\ \A r \in Range(PreviousLayouts) :
         \/ gitHead.prevIgnore[r] = repository.prevIgnore[r]
         \/ <<"prevIgnore", r>> \in behind.loose
    /\ \A r \in Roots, d \in Names :
         LET fields == BuiltFields(d)
               \cup {f \in {"owner", "ignore", "holds"} : <<f, r, d>> \in behind.loose}
         IN CommitEntry(r, d, fields) = DirTree[r][d]

(* Once a migration has ended, or has nothing to do, nothing in the config     *)
(* names a place that a directory left, nor the generated file's header a      *)
(* template that is not there: unless an earlier one stopped after its moves    *)
(* and before the rewrite.  No later migration makes up for that, but every    *)
(* command refuses a key that still names the old root, and says what to       *)
(* declare.                                                                   *)
MovedPathsResolve ==
  outcome \in {"migrated", "not needed"} /\ repository.config.present =>
    LET Left(key) == \E r \in Range(PreviousLayouts) :
          repository.config[key] = r /\ DirTree[r][KeyDir[key]] = Gone
        HeaderLeft == /\ repository.config.rootFiles = "outputs"
                      /\ repository.claude.moved \in Range(PreviousLayouts)
                      /\ DirTree[repository.claude.moved]["docs"] = Gone
    IN /\ (\E key \in DOMAIN KeyDir : Left(key)) \/ HeaderLeft => behind.unrewritten
       /\ (\E key \in ConfigKeys : Left(key)) => RefuseOldLayout

(* Stopped anywhere, a directory is still at exactly one place, and no step   *)
(* touches what another tool owns or a person wrote.                          *)
OthersAreLeftAlone ==
  [][~NotMoving =>
      /\ \A r \in Range(PreviousLayouts), d \in Names :
           DirTree[r][d] # Gone /\ DirTree[r][d].owner # "selfdoc" => DirTree'[r][d] = DirTree[r][d]
      /\ \A d \in Names :
           Cardinality({r \in Roots : DirTree'[r][d] # Gone})
             >= Cardinality({r \in Roots : DirTree[r][d] # Gone})
      /\ repository.claude.moved = "hand" => repository'.claude.moved = "hand"
      /\ repository.claude.root = "hand" => repository'.claude.root = "hand"]_layoutVars

(* However often it stops half-way, running it again and doing what it prints *)
(* ends with nothing of selfdoc's under an earlier root.                      *)
EventuallyMoved ==
  <>[](\A r \in Range(PreviousLayouts) : PreviousSelfdocEntries(r) = {})

(* A migration, stopped anywhere and run again, moves everything that is      *)
(* selfdoc's and nothing of anybody else's, and leaves a later one nothing to  *)
(* do.  What a stop leaves undone is bounded: paths that the stopped command    *)
(* was to commit may stay uncommitted, and a stop between the moves and the     *)
(* rewrite leaves paths to the old place, which the commands refuse to use.    *)
MigrationIsWhole ==
  /\ []LayoutTypeOK /\ [](SecondRunFindsNothing /\ MoveIsCommitted /\ MovedPathsResolve)
  /\ OthersAreLeftAlone /\ EventuallyMoved
===============================================================================
