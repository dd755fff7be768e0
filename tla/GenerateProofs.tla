---------------------------- MODULE GenerateProofs ----------------------------
(***************************************************************************)
(* What gen decides and what its author decides: proofs for any modules,   *)
(* commands, pages, texts and edits; and what the commands that commit for *)
(* their author commit, for any files, entries, scripts and owner.         *)
(***************************************************************************)
EXTENDS GenCommands, Generate, Integers, TLAPS

-----------------------------------------------------------------------------
(* Automatic commits.                                                      *)

Runs == [cmd : {"none", "gen", "gen-data"}, next : Int, wrote : SUBSET Files]

\* A command runs or its commit does, and it writes what it declares.
RunInv ==
    /\ templates \in Renderings /\ steps \in Nat /\ touched \subseteq Files
    /\ commit \in [phase : {"none", "add", "commit"}, files : SUBSET Files]
    /\ commit.phase = "none" => commit = NoCommit
    /\ run \in Runs
    /\ run # NoRun => commit = NoCommit
    /\ run.cmd = "none" => run.wrote = {}
    /\ run.cmd = "gen" => run.wrote \subseteq RootOutputs
    /\ run.cmd = "gen-data" => run.wrote \subseteq DataOutputs

\* The check for ignored outputs still holds of those nobody has staged since.
IgnoreInv == run.cmd = "gen" => \A f \in RootOutputs \ touched : ~GitIgnores(f)

\* Only what a commit has added so far, or somebody touched, is staged.
StagedInv ==
    \A f \in Files \ touched :
        index[f] = head[f] \/ (commit.phase = "commit" /\ f \in commit.files)

\* What a commit passes over was committed as it stands.
PassedInv ==
    commit # NoCommit =>
        \A f \in (asked \cap RootOutputs) \ (commit.files \cup touched) : head[f] = work[f]

GenInv == CmdTypeOK /\ RunInv /\ IgnoreInv /\ StagedInv /\ PassedInv

Outputs == RootOutputs \cup DataOutputs

LEMMA OutputsAreFiles ==
    /\ RootOutputs \subseteq Files /\ DataOutputs \subseteq Files
    /\ RootOutputs \cap DataOutputs = {}
    /\ \A i \in 1..Len(RootFiles) : RootFiles[i] \subseteq RootOutputs
    /\ \A i \in 1..Len(Scripts) : Scripts[i] \in DataOutputs
BY EntriesAreDisjoint DEF RootOutputs, DataOutputs

LEMMA GenInit == CmdInit => GenInv
<1> SUFFICES ASSUME CmdInit PROVE GenInv
  OBVIOUS
<1>1. CmdTypeOK
  BY DEF CmdInit, CmdTypeOK, Versions, NoCommit, NoRun
<1>2. RunInv
  BY DEF CmdInit, RunInv, NoCommit, NoRun, Runs
<1>3. IgnoreInv /\ StagedInv
  <2>1. run.cmd = "none" /\ index = head
    BY DEF CmdInit, NoRun
  <2> QED
    BY <2>1 DEF IgnoreInv, StagedInv
<1>4. PassedInv
  BY DEF CmdInit, PassedInv
<1> QED
  BY <1>1, <1>2, <1>3, <1>4 DEF GenInv

LEMMA GenStep == GenInv /\ [CmdNext]_cmdVars => GenInv'
<1> SUFFICES ASSUME GenInv, [CmdNext]_cmdVars PROVE GenInv'
  OBVIOUS
<1> USE DEF GenInv
<1>1. CASE cmdGen
  <2>1. /\ UNCHANGED <<work, index, head, ignored, commit, asked, touched, templates>>
        /\ run = NoRun /\ commit = NoCommit /\ steps' = steps + 1
        /\ \/ run' = NoRun
           \/ run' = [cmd |-> "gen", next |-> 1, wrote |-> {}] /\ RootFileOutputPreconditions
    BY <1>1 DEF cmdGen, Stops
  <2>2. CmdTypeOK' /\ RunInv'
    BY <2>1 DEF CmdTypeOK, RunInv, NoRun, Runs
  <2>3. IgnoreInv'
    BY <2>1 DEF IgnoreInv, RootFileOutputPreconditions, GitIgnores, Tracked, NoRun
  <2>4. StagedInv' /\ PassedInv'
    BY <2>1 DEF StagedInv, PassedInv
  <2> QED
    BY <2>2, <2>3, <2>4
<1>2. CASE GenerateRootFile
  <2> DEFINE outputs == RootFiles[run.next]
  <2>1. /\ UNCHANGED <<index, head, ignored, commit, asked, touched, templates, steps>>
        /\ run.cmd = "gen" /\ commit = NoCommit
        /\ outputs \subseteq RootOutputs
    BY <1>2, OutputsAreFiles DEF GenerateRootFile, RunInv, NoRun
  <2>2. \/ /\ work' = [f \in Files |-> IF f \in outputs THEN templates ELSE work[f]]
           /\ run' = [run EXCEPT !.next = @ + 1, !.wrote = @ \cup outputs]
        \/ work' = work /\ run' = NoRun
    BY <1>2 DEF GenerateRootFile, Stops
  <2> HIDE DEF outputs
  <2>3. run' \in Runs /\ run'.wrote \subseteq RootOutputs /\ run'.cmd \in {"none", "gen"}
        /\ (run'.cmd = "none" => run'.wrote = {})
    <3>1. run \in Runs /\ run.wrote \subseteq RootOutputs
      BY <2>1 DEF RunInv
    <3>2. run.next + 1 \in Int /\ run.wrote \cup outputs \in SUBSET Files
      BY <2>1, <3>1, OutputsAreFiles DEF Runs
    <3>3. CASE run' = NoRun
      BY <3>3 DEF NoRun, Runs
    <3>4. CASE run' = [run EXCEPT !.next = @ + 1, !.wrote = @ \cup outputs]
      BY <2>1, <3>1, <3>2, <3>4 DEF Runs
    <3> QED
      BY <2>2, <3>3, <3>4
  <2>4. CmdTypeOK'
    BY <2>1, <2>2, <2>3, OutputsAreFiles DEF CmdTypeOK, RunInv, Runs, Versions
  <2>5. RunInv'
    BY <2>1, <2>3 DEF RunInv
  <2>6. IgnoreInv' /\ StagedInv' /\ PassedInv'
    BY <2>1 DEF IgnoreInv, StagedInv, PassedInv, GitIgnores, Tracked
  <2> QED
    BY <2>4, <2>5, <2>6
<1>3. CASE cmdGenData
  <2>1. /\ UNCHANGED <<work, index, head, ignored, commit, asked, touched, templates>>
        /\ run = NoRun /\ commit = NoCommit /\ steps' = steps + 1
        /\ run' \in {NoRun, [cmd |-> "gen-data", next |-> 1, wrote |-> {}]}
    BY <1>3 DEF cmdGenData, Stops
  <2>2. CmdTypeOK' /\ RunInv'
    BY <2>1 DEF CmdTypeOK, RunInv, NoRun, Runs
  <2>3. IgnoreInv' /\ StagedInv' /\ PassedInv'
    BY <2>1 DEF IgnoreInv, StagedInv, PassedInv, NoRun
  <2> QED
    BY <2>2, <2>3
<1>4. CASE RunScript
  <2> DEFINE output == Scripts[run.next]
  <2>1. /\ UNCHANGED <<index, head, ignored, commit, asked, touched, templates, steps>>
        /\ run.cmd = "gen-data" /\ commit = NoCommit
        /\ output \in DataOutputs
    BY <1>4, OutputsAreFiles DEF RunScript, RunInv, NoRun
  <2>2. PICK d \in Data \cup {work[output]} :
          /\ work' = [work EXCEPT ![output] = d]
          /\ \/ run' = [run EXCEPT !.next = @ + 1, !.wrote = @ \cup {output}]
             \/ run' = NoRun
    BY <1>4 DEF RunScript, Stops
  <2> HIDE DEF output
  <2>3. run' \in Runs /\ run'.wrote \subseteq DataOutputs /\ run'.cmd \in {"none", "gen-data"}
        /\ (run'.cmd = "none" => run'.wrote = {})
    <3>1. run \in Runs /\ run.wrote \subseteq DataOutputs
      BY <2>1 DEF RunInv
    <3>2. run.next + 1 \in Int /\ run.wrote \cup {output} \in SUBSET Files
      BY <2>1, <3>1, OutputsAreFiles DEF Runs
    <3>3. CASE run' = NoRun
      BY <3>3 DEF NoRun, Runs
    <3>4. CASE run' = [run EXCEPT !.next = @ + 1, !.wrote = @ \cup {output}]
      BY <2>1, <3>1, <3>2, <3>4 DEF Runs
    <3> QED
      BY <2>2, <3>3, <3>4
  <2>4. work' \in [Files -> Versions \cup {Absent}]
    BY <2>1, <2>2, OutputsAreFiles DEF CmdTypeOK, Versions
  <2>5. CmdTypeOK'
    BY <2>1, <2>3, <2>4 DEF CmdTypeOK, Runs
  <2>6. RunInv'
    BY <2>1, <2>3 DEF RunInv
  <2>7. IgnoreInv' /\ StagedInv' /\ PassedInv'
    BY <2>1, <2>3 DEF IgnoreInv, StagedInv, PassedInv
  <2> QED
    BY <2>5, <2>6, <2>7
<1>5. CASE CommitWhatWasWritten
  <2>1. PICK unasked \in SUBSET run.wrote : AutoCommit(run.wrote, unasked)
    BY <1>5 DEF CommitWhatWasWritten
  <2> DEFINE files == Committable(run.wrote, unasked)
  <2>2. /\ UNCHANGED <<work, index, head, ignored, touched, templates, steps>>
        /\ commit = NoCommit /\ run' = NoRun /\ asked' = run.wrote \ unasked
        /\ commit' \in {NoCommit, [phase |-> "add", files |-> files]}
        /\ run.cmd \in {"gen", "gen-data"}
    BY <1>5, <2>1 DEF AutoCommit, CommitWhatWasWritten
  <2>3. files \subseteq run.wrote \ unasked /\ files \in SUBSET Files
    BY DEF Committable, RunInv, Runs
  <2> HIDE DEF files
  <2>4. CmdTypeOK'
    BY <2>2, <2>3 DEF CmdTypeOK, RunInv, NoRun, NoCommit
  <2>5. RunInv'
    BY <2>2, <2>3 DEF RunInv, NoRun, NoCommit, Runs
  <2>6. IgnoreInv' /\ StagedInv'
    BY <2>2 DEF IgnoreInv, StagedInv, NoRun, NoCommit
  <2>7. ASSUME NEW f \in (asked' \cap RootOutputs) \ (files \cup touched)
        PROVE  head[f] = work[f]
    <3>1. run.cmd = "gen" /\ f \in Files
      BY <2>2, <2>7, OutputsAreFiles DEF RunInv
    <3>2. ~classify(f)
      BY <2>2, <2>7, <3>1 DEF files, Committable, IgnoreInv
    <3>3. work[f] = index[f]
      BY <3>2 DEF classify, Tracked
    <3> QED
      BY <2>2, <2>7, <3>1, <3>3 DEF StagedInv, NoCommit
  <2>8. PassedInv'
    BY <2>2, <2>7 DEF PassedInv, NoCommit
  <2> QED
    BY <2>4, <2>5, <2>6, <2>8
<1>6. CASE (DelegateCommit \/ GitAdd \/ GitCommitPaths) /\ UNCHANGED <<templates, run>>
  <2>1. /\ UNCHANGED <<work, ignored, asked, steps, templates, run>>
        /\ commit.phase \in {"add", "commit"}
        /\ \/ Succeeds /\ commit' = NoCommit
           \/ commit.phase = "add" /\ UNCHANGED <<head, index, touched>> /\ commit' = NoCommit
           \/ commit.phase = "add" /\ UNCHANGED <<head, touched>> /\ index' = Taken(index)
              /\ commit' = [commit EXCEPT !.phase = "commit"]
           \/ commit.phase = "commit" /\ UNCHANGED <<head, index>> /\ commit' = NoCommit
              /\ touched' = touched \cup commit.files
    BY <1>6 DEF DelegateCommit, GitAdd, GitCommitPaths
  <2>2. run = NoRun
    BY <2>1 DEF RunInv, NoCommit
  <2>3. /\ head' \in [Files -> Versions \cup {Absent}] /\ index' \in [Files -> Versions \cup {Absent}]
        /\ touched' \subseteq Files
    BY <2>1 DEF Succeeds, Taken, CmdTypeOK, RunInv
  <2>4. CmdTypeOK'
    BY <2>1, <2>3 DEF CmdTypeOK, RunInv, NoCommit
  <2>5. RunInv'
    BY <2>1, <2>2, <2>3 DEF RunInv, NoCommit
  <2>6. IgnoreInv'
    BY <2>1, <2>2 DEF IgnoreInv, NoRun
  <2>7. ASSUME NEW f \in Files \ touched'
        PROVE  index'[f] = head'[f] \/ (commit'.phase = "commit" /\ f \in commit'.files)
    <3>1. CASE Succeeds
      <4>1. /\ head'[f] = IF f \in commit.files THEN work[f] ELSE head[f]
            /\ index'[f] = IF f \in commit.files THEN work[f] ELSE index[f]
            /\ f \notin commit.files => f \notin touched
        BY <2>7, <3>1 DEF Succeeds, Taken
      <4> QED
        BY <4>1 DEF StagedInv
    <3>2. CASE commit.phase = "add" /\ UNCHANGED <<head, index, touched>>
      BY <2>7, <3>2 DEF StagedInv
    <3>3. CASE /\ commit.phase = "add" /\ UNCHANGED <<head, touched>> /\ index' = Taken(index)
               /\ commit' = [commit EXCEPT !.phase = "commit"]
      <4>1. /\ head'[f] = head[f]
            /\ index'[f] = IF f \in commit.files THEN work[f] ELSE index[f]
            /\ f \notin touched
        BY <2>7, <3>3 DEF Taken
      <4>2. commit \in [phase : {"none", "add", "commit"}, files : SUBSET Files]
        BY DEF RunInv
      <4>3. commit'.phase = "commit" /\ commit'.files = commit.files
        BY <3>3, <4>2
      <4> QED
        BY <3>3, <4>1, <4>3 DEF StagedInv
    <3>4. CASE /\ UNCHANGED <<head, index>>
               /\ touched' = touched \cup commit.files
      BY <2>7, <3>4 DEF StagedInv
    <3> QED
      BY <2>1, <3>1, <3>2, <3>3, <3>4
  <2>8. PassedInv'
    BY <2>1 DEF PassedInv, NoCommit, RunInv
  <2>9. StagedInv'
    BY <2>7 DEF StagedInv
  <2> QED
    BY <2>4, <2>5, <2>6, <2>8, <2>9
<1>7. CASE \E f \in Files : /\ (\E v \in {Handwritten, Absent} : WriteFile(f, v)) \/ StageByHand(f)
                            /\ UNCHANGED <<templates, run>>
  <2>1. PICK f \in Files : /\ (\E v \in {Handwritten, Absent} : WriteFile(f, v)) \/ StageByHand(f)
                           /\ UNCHANGED <<templates, run>>
    BY <1>7
  <2>2. CASE \E v \in {Handwritten, Absent} : WriteFile(f, v)
    <3>1. PICK v \in {Handwritten, Absent} : WriteFile(f, v)
      BY <2>2
    <3>2. CmdTypeOK' /\ RunInv'
      BY <2>1, <3>1 DEF WriteFile, CmdTypeOK, RunInv, Versions
    <3>3. IgnoreInv' /\ StagedInv'
      BY <2>1, <3>1 DEF WriteFile, IgnoreInv, GitIgnores, Tracked, StagedInv
    <3>4. PassedInv'
      BY <2>1, <3>1 DEF WriteFile, PassedInv, CmdTypeOK
    <3> QED
      BY <3>2, <3>3, <3>4
  <2>3. CASE StageByHand(f)
    <3>1. CmdTypeOK' /\ RunInv'
      BY <2>1, <2>3 DEF StageByHand, CmdTypeOK, RunInv
    <3>2. IgnoreInv' /\ StagedInv'
      BY <2>1, <2>3 DEF StageByHand, IgnoreInv, GitIgnores, Tracked, StagedInv, CmdTypeOK
    <3>3. PassedInv'
      BY <2>1, <2>3 DEF StageByHand, PassedInv
    <3> QED
      BY <3>1, <3>2, <3>3
  <2> QED
    BY <2>1, <2>2, <2>3
<1>8. CASE (\E r \in Renderings : EditTemplates(r)) \/ UNCHANGED cmdVars
  <2>1. /\ UNCHANGED <<work, index, head, ignored, commit, asked, touched, run>>
        /\ templates' \in Renderings /\ steps' \in Nat
    BY <1>8 DEF EditTemplates, cmdVars, gitVars, RunInv
  <2> QED
    BY <2>1 DEF CmdTypeOK, RunInv, IgnoreInv, StagedInv, PassedInv, GitIgnores, Tracked
<1> QED
  BY <1>1, <1>2, <1>3, <1>4, <1>5, <1>6, <1>7, <1>8 DEF CmdNext

LEMMA GenInvariant == CmdSpec => []GenInv
  BY GenInit, GenStep, PTL DEF CmdSpec

LEMMA NamedStep ==
    ASSUME GenInv, CmdNext, NEW f \in Files, head'[f] # head[f]
    PROVE  f \in asked /\ head'[f] = work[f]
<1>1. Succeeds
  BY DEF CmdNext, cmdGen, GenerateRootFile, cmdGenData, RunScript, CommitWhatWasWritten,
         AutoCommit, DelegateCommit, GitAdd, GitCommitPaths, WriteFile, StageByHand, EditTemplates
<1> QED
  BY <1>1 DEF Succeeds, Taken, GenInv, CmdTypeOK

LEMMA HandworkStep ==
    ASSUME GenInv, CmdNext, NEW i \in 1..Len(RootFiles),
           \E f \in RootFiles[i] : work[f] = Handwritten, run.cmd = "gen", steps' = steps
    PROVE  \A f \in RootFiles[i] : work'[f] = work[f]
<1>1. steps \in Nat /\ steps + 1 # steps
  BY DEF GenInv, RunInv
<1>2. CASE GenerateRootFile /\ work' # work
  <2> DEFINE j == run.next
  <2>1. /\ j \in 1..Len(RootFiles) /\ ~\E f \in RootFiles[j] : Owned(f)
        /\ work' = [f \in Files |-> IF f \in RootFiles[j] THEN templates ELSE work[f]]
    BY <1>2 DEF GenerateRootFile
  <2>2. i # j
    BY <2>1, HandworkHasNoHeader DEF Owned, HasGeneratedHeader
  <2>3. RootFiles[i] \cap RootFiles[j] = {} /\ RootFiles[i] \subseteq Files
    BY <2>1, <2>2, EntriesAreDisjoint, OutputsAreFiles
  <2> QED
    BY <2>1, <2>3
<1>3. CASE ~(GenerateRootFile /\ work' # work)
  <2>1. work' = work
    BY <1>1, <1>3 DEF CmdNext, cmdGen, cmdGenData, RunScript, CommitWhatWasWritten,
       AutoCommit, DelegateCommit, GitAdd, GitCommitPaths, WriteFile, StageByHand, EditTemplates
  <2> QED
    BY <2>1
<1> QED
  BY <1>2, <1>3

LEMMA SuccessStep ==
    ASSUME GenInv, CmdNext, outcome' \in Success, outcome \notin Success,
           NEW f \in (asked' \cap RootOutputs) \ touched
    PROVE  head'[f] = work[f]
<1>0. f \in Files
  BY OutputsAreFiles
<1>1. \/ CommitWhatWasWritten
      \/ (DelegateCommit \/ GitAdd \/ GitCommitPaths) /\ Succeeds
  BY DEF CmdNext, cmdGen, GenerateRootFile, cmdGenData, RunScript, Stops, Success,
         DelegateCommit, GitAdd, GitCommitPaths, WriteFile, StageByHand, EditTemplates
<1>2. CASE CommitWhatWasWritten
  <2>1. PICK unasked \in SUBSET run.wrote : AutoCommit(run.wrote, unasked)
    BY <1>2 DEF CommitWhatWasWritten
  <2>2. /\ Committable(run.wrote, unasked) = {} /\ asked' = run.wrote \ unasked
        /\ head' = head /\ commit = NoCommit
    BY <2>1 DEF AutoCommit, Success
  <2>3. run.cmd = "gen"
    BY <1>2, <2>2, OutputsAreFiles DEF GenInv, RunInv, CommitWhatWasWritten
  <2>4. ~classify(f)
    BY <2>2, <2>3 DEF Committable, GenInv, IgnoreInv
  <2>5. work[f] = index[f]
    BY <2>4 DEF classify, Tracked
  <2> QED
    BY <1>0, <2>2, <2>5 DEF GenInv, StagedInv, NoCommit
<1>3. CASE (DelegateCommit \/ GitAdd \/ GitCommitPaths) /\ Succeeds
  <2>1. asked' = asked /\ commit # NoCommit /\ head' = Taken(head)
    BY <1>3 DEF DelegateCommit, GitAdd, GitCommitPaths, Succeeds, NoCommit
  <2> QED
    BY <1>0, <2>1 DEF Taken, GenInv, PassedInv
<1> QED
  BY <1>1, <1>2, <1>3

\* Whatever the owner edits, stages or ignores while gen and gen-data run and
\* commit, a commit is of the files its command wrote, no handwritten root file
\* is overwritten, and success means that what could be asked about is committed.
THEOREM CommitsAreOfTheCommands == CmdSpec => CommitsAreTheCommands
<1>1. GenInv => CmdTypeOK
  BY DEF GenInv
<1>2. GenInv /\ [CmdNext]_cmdVars =>
        [\A f \in Files : head'[f] # head[f] => f \in asked /\ head'[f] = work[f]]_cmdVars
  BY NamedStep
<1>3. GenInv /\ [CmdNext]_cmdVars =>
        [\A i \in 1 .. Len(RootFiles) :
           (\E f \in RootFiles[i] : work[f] = Handwritten) /\ run.cmd = "gen" /\ steps' = steps
             => \A f \in RootFiles[i] : work'[f] = work[f]]_cmdVars
  BY HandworkStep
<1>4. GenInv /\ [CmdNext]_cmdVars =>
        [outcome' \in Success /\ outcome \notin Success =>
           \A f \in (asked' \cap RootOutputs) \ touched : head'[f] = work[f]]_cmdVars
  BY SuccessStep
<1> QED
  BY <1>1, <1>2, <1>3, <1>4, GenInvariant, PTL
     DEF CmdSpec, CommitsAreTheCommands, OnlyNamedFilesAreCommitted, HandworkSurvives,
         SuccessMeansCommitted
-----------------------------------------------------------------------------
(* Pages, descriptions and the hash store.                                 *)

\* The pages a gen writes.
Writable == ModulePages \cup Indexes \cup CommandPages

MachineTexts == Sentences \cup {Template, IndexText}

\* Pages, entries and gens as they may be.
IsPage(f) ==
    /\ f = [generated |-> f.generated, seeded |-> f.seeded, content |-> f.content,
            description |-> f.description]
    /\ f.generated \in BOOLEAN /\ f.seeded \in BOOLEAN
    /\ f.content # Unknown /\ f.description \in Texts

FileInv ==
    /\ DOMAIN file \subseteq Pages /\ file = [p \in DOMAIN file |-> file[p]]
    /\ \A p \in DOMAIN file :
         /\ IsPage(file[p]) /\ (file[p].generated <=> p \in Generated)

IsEntry(e) ==
    /\ e = Entry(e.content, e.description, e.source, e.schema, e.seed)
    /\ e.description \in Texts \cup {Unknown} /\ e.seed \in MachineTexts \cup {Unknown}

IsStore(stored) ==
    /\ DOMAIN stored \subseteq Pages /\ stored = [p \in DOMAIN stored |-> stored[p]]
    /\ \A p \in DOMAIN stored : IsEntry(stored[p])

HashInv == IsStore(store)

CodeInv ==
    /\ code \in [Modules \cup Commands -> Sentences \cup {Silent, Gone}]
    /\ \A c \in Commands : code[c] # Silent
    /\ claimed \subseteq Modules /\ edits \in Nat

\* What a person described has a person's words.
AuthorInv ==
    /\ author \in [Pages -> {"person", "machine"}] /\ DOMAIN reviewed = Pages
    /\ \A p \in DOMAIN file : author[p] = "person" => file[p].description \in Handwriting

\* A page this gen has written, before and after it records what it seeded.
Written(p) ==
    /\ p \in DOMAIN file /\ file[p].content = BodyOf(p)
    /\ IF file[p].seeded THEN file[p].description = SeedText(p) /\ reviewed[p] = Unjudged ELSE Keeps(p)

Recorded(p) ==
    /\ p \in DOMAIN file /\ file[p].content = BodyOf(p)
    /\ IF file[p].seeded
       THEN /\ file[p].description = SeedText(p)
            /\ p \in DOMAIN store /\ store[p].seed = file[p].description
       ELSE Keeps(p) /\ SeedOf(store, p) = Unknown

Swept == \A p \in DOMAIN file : p \in Generated => p \in Writable

PhaseInv ==
    /\ gen \in [phase : {"idle", "pages", "save", "baselines"}, todo : SUBSET Generated,
                deleted : SUBSET Generated]
    /\ gen.phase = "idle" => gen = Idle
    /\ gen.todo \subseteq Writable /\ gen.deleted \cap (DOMAIN file \cup Writable) = {}
    /\ gen.phase = "pages" => gen.deleted = {}
    /\ gen.phase \in {"pages", "save"} => \A p \in Writable \ gen.todo : Written(p)
    /\ gen.phase \in {"save", "baselines"} => gen.todo = {} /\ Swept
    /\ gen.phase = "baselines" => \A p \in Writable : Recorded(p)

\* What check measures of a page, and whether it has anything to say of it.
Now(p) == Entry(file[p].content, file[p].description, SourceOf(p), SchemaOf(p), Unknown)
Differs(p) ==
    CheckStaleness(p, Now(p), store) \/ CheckDrift(p, Now(p), store) \/ CheckSchemaDrift(p, Now(p), store)
Machine(p) == IsMachineOwned(p, file[p].description, SeedOf(store, p), HelpOf(p))

\* A page that was judged as it stands does not differ from the store; once a
\* gen has rewritten it, it stays rewritten until what it documents changes.
JudgedInv(p) ==
    reviewed[p] # Unjudged =>
      IF p \in DOMAIN file
      THEN /\ p \in Generated => ~Machine(p)
           /\ IF reviewed[p] = Measured(p) THEN ~Differs(p)
              ELSE p \in Generated /\ file[p].content = BodyOf(p)
      ELSE p \notin Writable

\* Another gen would find everything as it is.
SettledInv ==
    settled =>
      /\ \A p \in Writable : Recorded(p)
      /\ Swept /\ gen.deleted = {}
      /\ UpdateHashes(Docs, TRUE, machineOwnedKeys, store) = store

PersonsInv ==
    /\ FileInv /\ HashInv /\ CodeInv /\ AuthorInv /\ PhaseInv
    /\ (\A p \in Pages : JudgedInv(p)) /\ SettledInv
-----------------------------------------------------------------------------
\* The hash store.

\* What one pass measures of a page; a build measures neither sources nor schemas.
Fresh(p, measuring) ==
    Entry(file[p].content, file[p].description, IF measuring THEN SourceOf(p) ELSE Unknown,
          IF measuring THEN SchemaOf(p) ELSE Unknown, Unknown)

Reports(stored, p, measuring) ==
    \/ CheckStaleness(p, Fresh(p, measuring), stored)
    \/ CheckDrift(p, Fresh(p, measuring), stored)
    \/ CheckSchemaDrift(p, Fresh(p, measuring), stored)

LEMMA DocsAre ==
    ASSUME FileInv, NEW measuring \in BOOLEAN
    PROVE  ComputeCurrentHashes(Docs, measuring) = [p \in DOMAIN file |-> Fresh(p, measuring)]
<1>1. {p \in DOMAIN Docs : Docs[p].description # Unknown} = DOMAIN file
  BY TextsAreDistinct DEF FileInv, IsPage, Docs
<1>2. \A p \in DOMAIN file : /\ Docs[p].content = file[p].content
                             /\ Docs[p].description = file[p].description
                             /\ Docs[p].source = SourceOf(p) /\ Docs[p].schema = SchemaOf(p)
  BY DEF Docs
<1> QED
  BY <1>1, <1>2 DEF ComputeCurrentHashes, Fresh

LEMMA ReportedAre ==
    ASSUME FileInv, NEW stored, NEW measuring \in BOOLEAN, NEW exempt
    PROVE  Reported(Docs, measuring, exempt, stored) = {p \in DOMAIN file : Reports(stored, p, measuring)} \ exempt
BY DocsAre DEF Reported, Reports

LEMMA FindingsAre ==
    ASSUME FileInv
    PROVE  /\ machineOwnedKeys = {p \in DOMAIN file : p \in Generated /\ Machine(p)}
           /\ Findings = {p \in DOMAIN file : Differs(p)} \ machineOwnedKeys
<1>1. \A p : Differs(p) <=> Reports(store, p, TRUE)
  BY DEF Differs, Reports, Now, Fresh
<1>2. machineOwnedKeys = {p \in DOMAIN file : p \in Generated /\ Machine(p)}
  BY DEF machineOwnedKeys, FileInv, Machine
<1>3. Findings = {p \in DOMAIN file : Reports(store, p, TRUE)} \ machineOwnedKeys
  BY ReportedAre DEF Findings
<1> QED
  BY <1>1, <1>2, <1>3

\* Advancing an entry, field by field.
LEMMA AdvancedEntry ==
    ASSUME FileInv, NEW stored, IsStore(stored), NEW p \in DOMAIN file, NEW measuring \in BOOLEAN
    PROVE  LET next == Advanced(stored, p, Fresh(p, measuring))
               fresh == Fresh(p, measuring)
           IN /\ IsEntry(next) /\ next.seed = SeedOf(stored, p)
              /\ next.content = file[p].content /\ next.description = file[p].description
              /\ p \notin DOMAIN stored => next.source = fresh.source /\ next.schema = fresh.schema
              /\ p \in DOMAIN stored =>
                   IF file[p].description = stored[p].description
                   THEN /\ next.source = IF fresh.source = Unknown THEN stored[p].source ELSE fresh.source
                        /\ next.schema = IF fresh.schema = Unknown THEN stored[p].schema ELSE fresh.schema
                   ELSE next.source = fresh.source /\ next.schema = fresh.schema
<1> DEFINE fresh == Fresh(p, measuring)
           c == file[p].content
           d == file[p].description
<1>1. c # Unknown /\ d # Unknown /\ d \in Texts
  BY TextsAreDistinct DEF FileInv, IsPage
<1>2. /\ fresh = Entry(c, d, fresh.source, fresh.schema, Unknown)
      /\ fresh.content = c /\ fresh.description = d
  BY DEF Fresh, Entry
<1> HIDE DEF fresh, c, d
<1>3. CASE p \notin DOMAIN stored
  <2>1. Advanced(stored, p, fresh) = Entry(c, d, fresh.source, fresh.schema, Unknown)
    <3>1. Advanced(stored, p, fresh) = Merge(Entry(Unknown, Unknown, Unknown, Unknown, Unknown), fresh)
      BY <1>3 DEF Advanced, Blank
    <3>2. Merge(Entry(Unknown, Unknown, Unknown, Unknown, Unknown),
                Entry(c, d, fresh.source, fresh.schema, Unknown)) =
            Entry(IF c = Unknown THEN Unknown ELSE c, IF d = Unknown THEN Unknown ELSE d,
                  IF fresh.source = Unknown THEN Unknown ELSE fresh.source,
                  IF fresh.schema = Unknown THEN Unknown ELSE fresh.schema,
                  IF Unknown = Unknown THEN Unknown ELSE Unknown)
      BY DEF Merge, Entry
    <3>3. /\ (IF c = Unknown THEN Unknown ELSE c) = c /\ (IF d = Unknown THEN Unknown ELSE d) = d
          /\ (IF fresh.source = Unknown THEN Unknown ELSE fresh.source) = fresh.source
          /\ (IF fresh.schema = Unknown THEN Unknown ELSE fresh.schema) = fresh.schema
      OBVIOUS
    <3> QED
      BY <1>2, <3>1, <3>2, <3>3
  <2> QED
    BY <1>1, <1>3, <2>1 DEF Entry, IsEntry, SeedOf, fresh, c, d
<1>4. CASE p \in DOMAIN stored
  <2> DEFINE e == stored[p]
             so == IF fresh.source = Unknown THEN e.source ELSE fresh.source
             sc == IF fresh.schema = Unknown THEN e.schema ELSE fresh.schema
  <2>1. IsEntry(e)
    BY <1>4 DEF IsStore
  <2>2. e = Entry(e.content, e.description, e.source, e.schema, e.seed)
    BY <2>1 DEF IsEntry
  <2> HIDE DEF e
  <2>3. Merge(e, fresh) = Entry(c, d, so, sc, e.seed)
    <3>1. Merge(Entry(e.content, e.description, e.source, e.schema, e.seed),
                Entry(c, d, fresh.source, fresh.schema, Unknown)) =
            Entry(IF c = Unknown THEN e.content ELSE c, IF d = Unknown THEN e.description ELSE d,
                  IF fresh.source = Unknown THEN e.source ELSE fresh.source,
                  IF fresh.schema = Unknown THEN e.schema ELSE fresh.schema,
                  IF Unknown = Unknown THEN e.seed ELSE Unknown)
      BY DEF Merge, Entry
    <3>2. (IF c = Unknown THEN e.content ELSE c) = c /\ (IF d = Unknown THEN e.description ELSE d) = d
      BY <1>1
    <3> QED
      BY <1>2, <2>2, <3>1, <3>2
  <2>4. CASE d = e.description
    <3>1. Advanced(stored, p, fresh) = Entry(c, d, so, sc, e.seed)
      BY <1>2, <1>4, <2>3, <2>4 DEF Advanced, e
    <3> QED
      BY <1>1, <1>4, <2>1, <2>4, <3>1 DEF Entry, IsEntry, SeedOf, fresh, c, d, e
  <2>5. CASE d # e.description
    <3>1. Advanced(stored, p, fresh) =
            [Entry(c, d, so, sc, e.seed) EXCEPT !.source = fresh.source, !.schema = fresh.schema]
      BY <1>2, <1>4, <2>3, <2>5 DEF Advanced, e
    <3>2. Advanced(stored, p, fresh) = Entry(c, d, fresh.source, fresh.schema, e.seed)
      BY <3>1 DEF Entry
    <3> QED
      BY <1>1, <1>4, <2>1, <2>5, <3>2 DEF Entry, IsEntry, SeedOf, fresh, c, d, e
  <2> QED
    BY <2>4, <2>5
<1> QED
  BY <1>3, <1>4 DEF fresh, c, d

\* A pass leaves what it does not measure or reports, and advances the rest.
IsUpdate(stored, measuring, exempt, next) ==
    /\ next = [p \in DOMAIN stored \cup DOMAIN file |-> next[p]]
    /\ \A p \in DOMAIN stored : p \notin DOMAIN file => next[p] = stored[p]
    /\ \A p \in DOMAIN file :
         IF Reports(stored, p, measuring) /\ p \notin exempt
         THEN p \in DOMAIN stored /\ next[p] = stored[p]
         ELSE next[p] = Advanced(stored, p, Fresh(p, measuring))

LEMMA UpdatedAt ==
    ASSUME FileInv, NEW stored, IsStore(stored), NEW measuring \in BOOLEAN, NEW exempt
    PROVE  IsUpdate(stored, measuring, exempt, UpdateHashes(Docs, measuring, exempt, stored))
<1> DEFINE now == ComputeCurrentHashes(Docs, measuring)
           held == Reported(Docs, measuring, exempt, stored)
           next == UpdateHashes(Docs, measuring, exempt, stored)
<1>1. now = [p \in DOMAIN file |-> Fresh(p, measuring)]
      /\ held = {p \in DOMAIN file : Reports(stored, p, measuring)} \ exempt
  BY DocsAre, ReportedAre
<1>2. next = [p \in DOMAIN stored \cup DOMAIN now |->
                IF p \in held \/ p \notin DOMAIN now THEN stored[p] ELSE Advanced(stored, p, now[p])]
  BY DEF UpdateHashes
<1>3. \A p \in DOMAIN file : Reports(stored, p, measuring) => p \in DOMAIN stored
  BY DEF Reports, CheckStaleness, CheckDrift, CheckSchemaDrift
<1> HIDE DEF now, held, next
<1>4. /\ next = [p \in DOMAIN stored \cup DOMAIN file |-> next[p]]
      /\ \A p \in DOMAIN stored : p \notin DOMAIN file => next[p] = stored[p]
  BY <1>1, <1>2
<1>5. ASSUME NEW p \in DOMAIN file
      PROVE  next[p] = IF Reports(stored, p, measuring) /\ p \notin exempt THEN stored[p]
                       ELSE Advanced(stored, p, Fresh(p, measuring))
  <2>1. p \in DOMAIN now /\ now[p] = Fresh(p, measuring) /\ (p \in held <=> Reports(stored, p, measuring) /\ p \notin exempt)
    BY <1>1
  <2> QED
    BY <1>2, <2>1
<1> QED
  BY <1>3, <1>4, <1>5 DEF IsUpdate, next

\* The store stays a store, and seeds stay as they are.
LEMMA UpdatedStore ==
    ASSUME FileInv, NEW stored, IsStore(stored), NEW measuring \in BOOLEAN, NEW exempt, NEW next,
           IsUpdate(stored, measuring, exempt, next)
    PROVE  /\ IsStore(next) /\ DOMAIN next = DOMAIN stored \cup DOMAIN file
           /\ \A p : SeedOf(next, p) = SeedOf(stored, p)
<1>1. /\ next = [p \in DOMAIN stored \cup DOMAIN file |-> next[p]]
      /\ DOMAIN next = DOMAIN stored \cup DOMAIN file
  BY DEF IsUpdate
<1>2. ASSUME NEW p \in DOMAIN next
      PROVE  IsEntry(next[p]) /\ next[p].seed = SeedOf(stored, p)
  <2>1. CASE p \in DOMAIN stored /\ next[p] = stored[p]
    BY <2>1 DEF IsStore, SeedOf
  <2>2. CASE p \in DOMAIN file /\ next[p] = Advanced(stored, p, Fresh(p, measuring))
    BY <2>2, AdvancedEntry
  <2> QED
    BY <1>1, <2>1, <2>2 DEF IsUpdate
<1>3. DOMAIN next \subseteq Pages
  BY <1>1 DEF IsStore, FileInv
<1>4. IsStore(next)
  BY <1>1, <1>2, <1>3 DEF IsStore
<1>5. ASSUME NEW p PROVE SeedOf(next, p) = SeedOf(stored, p)
  <2>1. CASE p \in DOMAIN next
    BY <1>2, <2>1 DEF SeedOf
  <2>2. CASE p \notin DOMAIN next
    BY <1>1, <2>2 DEF SeedOf
  <2> QED
    BY <2>1, <2>2
<1> QED
  BY <1>1, <1>4, <1>5

\* The next pass over the same pages finds every entry as it would leave it.
LEMMA UpdatedTwice ==
    ASSUME FileInv, NEW stored, IsStore(stored), NEW measuring \in BOOLEAN, NEW exempt, NEW next,
           IsUpdate(stored, measuring, exempt, next)
    PROVE  UpdateHashes(Docs, measuring, exempt, next) = next
<1> SUFFICES ASSUME NEW again, IsUpdate(next, measuring, exempt, again)
             PROVE  again = next
  BY UpdatedStore, UpdatedAt
<1>1. IsStore(next) /\ DOMAIN next = DOMAIN stored \cup DOMAIN file
  BY UpdatedStore
<1>2. /\ again = [p \in DOMAIN next |-> again[p]]
      /\ \A p \in DOMAIN next : p \notin DOMAIN file => again[p] = next[p]
  BY <1>1 DEF IsUpdate
<1>5. \A p \in DOMAIN file :
        /\ Reports(stored, p, measuring) /\ p \notin exempt =>
             p \in DOMAIN stored /\ next[p] = stored[p]
        /\ ~(Reports(stored, p, measuring) /\ p \notin exempt) =>
             next[p] = Advanced(stored, p, Fresh(p, measuring))
  BY DEF IsUpdate
<1>6. \A p \in DOMAIN file :
        /\ Reports(next, p, measuring) /\ p \notin exempt =>
             p \in DOMAIN next /\ again[p] = next[p]
        /\ ~(Reports(next, p, measuring) /\ p \notin exempt) =>
             again[p] = Advanced(next, p, Fresh(p, measuring))
  BY <1>1 DEF IsUpdate
<1>3. ASSUME NEW p \in DOMAIN file PROVE again[p] = next[p]
  <2> DEFINE fresh == Fresh(p, measuring)
  <2>1. CASE Reports(stored, p, measuring) /\ p \notin exempt
    <3>1. next[p] = stored[p] /\ p \in DOMAIN stored /\ p \in DOMAIN next
      BY <1>1, <1>5, <2>1
    <3>2. Reports(next, p, measuring)
      BY <2>1, <3>1 DEF Reports, CheckStaleness, CheckDrift, CheckSchemaDrift
    <3> QED
      BY <1>6, <2>1, <3>2
  <2>2. CASE ~(Reports(stored, p, measuring) /\ p \notin exempt) /\ again[p] = Advanced(next, p, fresh)
    <3>1. next[p] = Advanced(stored, p, fresh)
      BY <1>5, <2>2
    <3>2. /\ IsEntry(next[p]) /\ next[p].content = file[p].content
          /\ next[p].description = file[p].description
          /\ fresh.source = Unknown \/ next[p].source = fresh.source
          /\ fresh.schema = Unknown \/ next[p].schema = fresh.schema
      BY <3>1, AdvancedEntry
    <3>3. p \in DOMAIN next /\ next[p].seed = SeedOf(next, p)
      BY <1>1 DEF SeedOf
    <3>4. /\ IsEntry(again[p]) /\ again[p].seed = next[p].seed
          /\ again[p].content = next[p].content /\ again[p].description = next[p].description
          /\ again[p].source = next[p].source /\ again[p].schema = next[p].schema
      BY <1>1, <2>2, <3>2, <3>3, AdvancedEntry
    <3> QED
      BY <3>2, <3>4 DEF IsEntry
  <2> QED
    BY <1>6, <2>1, <2>2
<1>4. next = [p \in DOMAIN next |-> next[p]]
  BY <1>1 DEF IsStore
<1> QED
  BY <1>2, <1>3, <1>4
-----------------------------------------------------------------------------
\* What a step leaves alone.

\* The code derives the same as long as it is the same.
LEMMA CodeKept ==
    ASSUME UNCHANGED <<code, claimed>>
    PROVE  /\ Writable' = Writable /\ ModulePages' = ModulePages
           /\ \A p : /\ SourceOf(p)' = SourceOf(p) /\ HelpOf(p)' = HelpOf(p) /\ BodyOf(p)' = BodyOf(p)
                     /\ SeedText(p)' = SeedText(p)
BY DEF Writable, ModulePages, CommandPages, Exists, SourceOf, HelpOf, BodyOf, SeedText

\* A page and its entry that stay the same are judged the same.
LEMMA JudgedKept ==
    ASSUME NEW p \in Pages, JudgedInv(p), reviewed'[p] = reviewed[p],
           p \in DOMAIN file' <=> p \in DOMAIN file,
           p \in DOMAIN file => /\ file'[p] = file[p]
                                /\ Machine(p)' => Machine(p)
                                /\ Differs(p)' => Differs(p),
           SourceOf(p)' = SourceOf(p), HelpOf(p)' = HelpOf(p), BodyOf(p)' = BodyOf(p),
           p \in Writable' => p \in Writable
    PROVE  JudgedInv(p)'
<1>1. p \in DOMAIN file => Measured(p)' = Measured(p)
  BY DEF Measured, SchemaOf
<1> QED
  BY <1>1 DEF JudgedInv

\* Whether a page differs depends on it, what it documents and its entry.
LEMMA DiffersKept ==
    ASSUME NEW p, file'[p].content = file[p].content, file'[p].description = file[p].description,
           p \in DOMAIN store' => p \in DOMAIN store,
           p \in DOMAIN store' => /\ store'[p].content = store[p].content
                                  /\ store'[p].description = store[p].description
                                  /\ store'[p].source = store[p].source
                                  /\ store'[p].schema = store[p].schema,
           SourceOf(p)' = SourceOf(p), HelpOf(p)' = HelpOf(p)
    PROVE  (Differs(p)' => Differs(p)) /\ (SeedOf(store', p) = SeedOf(store, p) => (Machine(p)' => Machine(p)))
<1>1. Now(p)' = Now(p)
  BY DEF Now, SchemaOf
<1>2. SeedOf(store', p) = SeedOf(store, p) => (Machine(p)' => Machine(p))
  BY DEF Machine
<1> QED
  BY <1>1, <1>2 DEF Differs, CheckStaleness, CheckDrift, CheckSchemaDrift

LEMMA Unjudging == ASSUME NEW p, reviewed'[p] = Unjudged PROVE JudgedInv(p)'
BY DEF JudgedInv

\* No gen runs after the step, and somebody has changed something since the last.
LEMMA AtRest ==
    ASSUME gen' = Idle, settled' = FALSE
    PROVE  PhaseInv' /\ SettledInv'
BY DEF PhaseInv, SettledInv, Idle

\* Where neither files nor code change, only the store has to be looked at.
LEMMA PagesKept ==
    ASSUME FileInv, CodeInv, AuthorInv, UNCHANGED <<code, claimed, file, author>>,
           edits' \in Nat, DOMAIN reviewed' = Pages
    PROVE  FileInv' /\ CodeInv' /\ AuthorInv'
BY DEF FileInv, CodeInv, AuthorInv

LEMMA PersonsInit == Init => PersonsInv
<1> SUFFICES ASSUME Init PROVE PersonsInv
  OBVIOUS
<1> USE DEF Init
<1>1. (CHOOSE s \in Sentences : TRUE) \in Sentences /\ (CHOOSE b \in Bodies : TRUE) \in Bodies
      /\ (CHOOSE t \in Handwriting : TRUE) \in Handwriting
  BY TextsAreDistinct
<1>2. FileInv
  <2>1. \A p \in Essays : p \in Pages /\ p \notin Generated
    BY PagesAreDistinct DEF Pages
  <2> QED
    BY <1>1, <2>1, TextsAreDistinct DEF FileInv, IsPage, Texts
<1>3. HashInv
  BY DEF HashInv, IsStore
<1>4. CodeInv
  BY <1>1, TextsAreDistinct DEF CodeInv
<1>5. AuthorInv
  BY <1>1 DEF AuthorInv
<1>6. PhaseInv
  BY DEF PhaseInv, Idle
<1>7. (\A p \in Pages : JudgedInv(p)) /\ SettledInv
  BY DEF JudgedInv, SettledInv
<1> QED
  BY <1>2, <1>3, <1>4, <1>5, <1>6, <1>7 DEF PersonsInv

-----------------------------------------------------------------------------
\* The author between two commands.

LEMMA CodeEdited ==
    ASSUME PersonsInv, gen.phase = "idle", UNCHANGED <<file, store, gen, author>>,
           settled' = FALSE, CodeInv',
           NEW judged \in SUBSET Pages, reviewed' = Outdated(judged),
           \A p \in Pages \ judged :
             /\ SourceOf(p)' = SourceOf(p) /\ HelpOf(p)' = HelpOf(p) /\ BodyOf(p)' = BodyOf(p)
             /\ p \in Writable' => p \in Writable
    PROVE  PersonsInv'
<1>1. FileInv' /\ HashInv' /\ AuthorInv'
  BY DEF PersonsInv, FileInv, HashInv, AuthorInv, Outdated
<1>2. PhaseInv' /\ SettledInv'
  BY AtRest DEF PersonsInv, PhaseInv
<1>3. ASSUME NEW p \in Pages PROVE JudgedInv(p)'
  <2>1. CASE p \in judged
    BY <2>1, Unjudging DEF Outdated
  <2>2. CASE p \notin judged
    <3>1. reviewed'[p] = reviewed[p]
      BY <2>2 DEF Outdated
    <3>2. (Differs(p)' => Differs(p)) /\ (Machine(p)' => Machine(p))
      BY <2>2, DiffersKept
    <3> QED
      BY <2>2, <3>1, <3>2, JudgedKept DEF PersonsInv
  <2> QED
    BY <2>1, <2>2
<1> QED
  BY <1>1, <1>2, <1>3 DEF PersonsInv

LEMMA EditCodeStep ==
    ASSUME PersonsInv, NEW p \in Modules \cup Commands,
           NEW text \in Sentences \cup {Silent, Gone}, p \in Commands => text # Silent, EditCode(p, text)
    PROVE  PersonsInv'
<1>1. /\ code' = [code EXCEPT ![p] = text] /\ UNCHANGED <<claimed, file, store, gen, author>>
      /\ gen.phase = "idle" /\ settled' = FALSE /\ edits' = edits + 1
      /\ reviewed' = Outdated(Documenting(p))
  BY DEF EditCode, MayEdit
<1>2. CodeInv'
  BY <1>1, PagesAreDistinct DEF PersonsInv, CodeInv
<1>3. DOMAIN code = Modules \cup Commands /\ \A q \in (Modules \cup Commands) \ {p} : code'[q] = code[q]
  BY <1>1 DEF PersonsInv, CodeInv
<1>4. Documenting(p) \in SUBSET Pages
  BY DEF Documenting, Pages, Generated
<1>5. ASSUME NEW q \in Pages \ Documenting(p)
      PROVE  /\ SourceOf(q)' = SourceOf(q) /\ HelpOf(q)' = HelpOf(q) /\ BodyOf(q)' = BodyOf(q)
             /\ q \in Writable' => q \in Writable
  <2>1. q # p /\ (q \in Essays => p \notin Refs[q]) /\ (q \in Indexes => ModulePages' = ModulePages)
    BY <1>5 DEF Documenting
  <2>2. \A m \in (IF q \in Essays THEN Refs[q] ELSE {q} \cap Modules) : code'[m] = code[m]
    BY <1>3, <2>1, PagesAreDistinct
  <2>3. SourceOf(q)' = SourceOf(q)
    BY <2>2 DEF SourceOf
  <2>4. HelpOf(q)' = HelpOf(q) /\ (q \in Writable' => q \in Writable)
    BY <1>1, <1>3, <2>1 DEF HelpOf, Exists, Writable, ModulePages, CommandPages
  <2>5. BodyOf(q)' = BodyOf(q)
    BY <1>3, <2>1 DEF BodyOf
  <2> QED
    BY <2>3, <2>4, <2>5
<1> QED
  BY <1>1, <1>2, <1>4, <1>5, CodeEdited

LEMMA ClaimStep ==
    ASSUME PersonsInv, NEW m \in Modules, Claim(m)
    PROVE  PersonsInv'
<1> DEFINE judged == IF ModulePages' # ModulePages THEN Indexes ELSE {}
<1>1. /\ claimed' = claimed \cup {m} /\ UNCHANGED <<code, file, store, gen, author>>
      /\ gen.phase = "idle" /\ settled' = FALSE /\ edits' = edits + 1
      /\ reviewed' = Outdated(judged)
  BY DEF Claim, MayEdit
<1>2. CodeInv'
  BY <1>1 DEF PersonsInv, CodeInv
<1>3. judged \in SUBSET Pages
  BY DEF Pages, Generated
<1>4. ASSUME NEW q \in Pages \ judged
      PROVE  /\ SourceOf(q)' = SourceOf(q) /\ HelpOf(q)' = HelpOf(q) /\ BodyOf(q)' = BodyOf(q)
             /\ q \in Writable' => q \in Writable
  BY <1>1, <1>4 DEF SourceOf, HelpOf, Exists, BodyOf, Writable, ModulePages, CommandPages
<1> HIDE DEF judged
<1> QED
  BY <1>1, <1>2, <1>3, <1>4, CodeEdited

\* Words of a person are no machine's.
LEMMA HandwritingIsNoMachines ==
    ASSUME PersonsInv, NEW p \in Pages, NEW text \in Handwriting
    PROVE  ~IsMachineOwned(p, text, SeedOf(store, p), HelpOf(p)) /\ text # HelpOf(p)
<1>1. text \notin MachineTexts /\ text # Unknown
  BY TextsAreDistinct DEF MachineTexts, Texts
<1>2. SeedOf(store, p) \in MachineTexts \cup {Unknown}
  BY DEF PersonsInv, HashInv, IsStore, IsEntry, SeedOf
<1>3. HelpOf(p) \in MachineTexts \cup {Unknown}
  BY DEF PersonsInv, CodeInv, HelpOf, Exists, MachineTexts
<1> QED
  BY <1>1, <1>2, <1>3 DEF IsMachineOwned, MachineTexts

LEMMA DescribeStep ==
    ASSUME PersonsInv, NEW p \in Pages, NEW text \in Handwriting, Describe(p, text)
    PROVE  PersonsInv'
<1>1. /\ p \in DOMAIN file /\ text # file[p].description
      /\ p \in DOMAIN store => text # store[p].description
      /\ file' = [file EXCEPT ![p].description = text]
      /\ author' = [author EXCEPT ![p] = "person"]
      /\ reviewed' = [reviewed EXCEPT ![p] = Measured(p)]
      /\ gen.phase = "idle" /\ edits' = edits + 1 /\ settled' = FALSE
      /\ UNCHANGED <<code, claimed, store, gen>>
  BY DEF Describe, MayEdit
<1>2. /\ DOMAIN file' = DOMAIN file /\ file' = [q \in DOMAIN file |-> file'[q]]
      /\ \A q \in DOMAIN file \ {p} : file'[q] = file[q]
      /\ file'[p] = [file[p] EXCEPT !.description = text]
  BY <1>1
<1>3. IsPage(file[p]) /\ FileInv
  BY <1>1 DEF PersonsInv, FileInv
<1>4. /\ file'[p] = [generated |-> file[p].generated, seeded |-> file[p].seeded,
                     content |-> file[p].content, description |-> text]
  BY <1>2, <1>3 DEF IsPage
<1>5. IsPage(file'[p]) /\ file'[p].generated = file[p].generated
  BY <1>3, <1>4 DEF IsPage, Texts
<1>6. FileInv'
  BY <1>2, <1>3, <1>5 DEF FileInv
<1>7. AuthorInv' /\ HashInv' /\ CodeInv'
  BY <1>1, <1>2, <1>4 DEF PersonsInv, AuthorInv, HashInv, CodeInv
<1>8. PhaseInv' /\ SettledInv'
  BY <1>1, AtRest DEF PersonsInv, PhaseInv
<1>9. ASSUME NEW q \in Pages PROVE JudgedInv(q)'
  <2>1. /\ SourceOf(q)' = SourceOf(q) /\ HelpOf(q)' = HelpOf(q) /\ BodyOf(q)' = BodyOf(q)
        /\ Writable' = Writable
    BY <1>1, CodeKept
  <2>2. CASE q = p
    <3>1. Measured(p)' = Measured(p) /\ reviewed'[p] = Measured(p)
      BY <1>1, <1>4, <2>1, <2>2 DEF Measured, SchemaOf, PersonsInv, AuthorInv
    <3>2. ~Differs(p)'
      BY <1>1, <1>4 DEF Differs, Now, Entry, CheckStaleness, CheckDrift, CheckSchemaDrift
    <3>3. ~Machine(p)'
      BY <1>1, <1>4, <2>1, <2>2, HandwritingIsNoMachines DEF Machine
    <3> QED
      BY <1>1, <1>2, <2>2, <3>1, <3>2, <3>3 DEF JudgedInv
  <2>3. CASE q # p /\ q \in DOMAIN file
    <3>1. reviewed'[q] = reviewed[q] /\ file'[q] = file[q]
      BY <1>1, <1>2, <2>3 DEF PersonsInv, AuthorInv
    <3>2. (Differs(q)' => Differs(q)) /\ (Machine(q)' => Machine(q))
      BY <1>1, <2>1, <3>1, DiffersKept
    <3> QED
      BY <1>1, <1>2, <2>1, <2>3, <3>1, <3>2, JudgedKept DEF PersonsInv
  <2>4. CASE q # p /\ q \notin DOMAIN file
    <3>1. reviewed'[q] = reviewed[q] /\ q \notin DOMAIN file'
      BY <1>1, <1>2, <2>4 DEF PersonsInv, AuthorInv
    <3> QED
      BY <2>1, <2>4, <3>1 DEF JudgedInv, PersonsInv
  <2> QED
    BY <2>2, <2>3, <2>4
<1> QED
  BY <1>6, <1>7, <1>8, <1>9 DEF PersonsInv

LEMMA EditBodyStep ==
    ASSUME PersonsInv, NEW p \in Essays, NEW body \in Bodies, EditBody(p, body)
    PROVE  PersonsInv'
<1>1. /\ file' = [file EXCEPT ![p].content = body] /\ reviewed' = Outdated({p})
      /\ gen.phase = "idle" /\ edits' = edits + 1 /\ settled' = FALSE
      /\ UNCHANGED <<code, claimed, store, gen, author>>
  BY DEF EditBody, MayEdit
<1>2. /\ DOMAIN file' = DOMAIN file /\ file' = [q \in DOMAIN file |-> file'[q]]
      /\ \A q \in DOMAIN file \ {p} : file'[q] = file[q]
      /\ p \in DOMAIN file => file'[p] = [file[p] EXCEPT !.content = body]
  BY <1>1 DEF PersonsInv, FileInv
<1>3. /\ p \in DOMAIN file =>
           /\ IsPage(file[p]) /\ IsPage(file'[p]) /\ file'[p].generated = file[p].generated
           /\ file'[p].description = file[p].description
  <2> SUFFICES ASSUME p \in DOMAIN file
               PROVE  /\ IsPage(file[p]) /\ IsPage(file'[p]) /\ file'[p].generated = file[p].generated
                      /\ file'[p].description = file[p].description
    OBVIOUS
  <2>1. IsPage(file[p])
    BY DEF PersonsInv, FileInv
  <2>2. file'[p] = [generated |-> file[p].generated, seeded |-> file[p].seeded,
                    content |-> body, description |-> file[p].description]
    BY <1>2, <2>1 DEF IsPage
  <2> QED
    BY <2>1, <2>2, TextsAreDistinct DEF IsPage
<1>4. FileInv'
  BY <1>2, <1>3 DEF PersonsInv, FileInv
<1>5. AuthorInv' /\ HashInv' /\ CodeInv'
  BY <1>1, <1>2, <1>3 DEF PersonsInv, AuthorInv, HashInv, CodeInv, Outdated
<1>6. PhaseInv' /\ SettledInv'
  BY <1>1, AtRest DEF PersonsInv, PhaseInv
<1>7. ASSUME NEW q \in Pages PROVE JudgedInv(q)'
  <2>1. /\ SourceOf(q)' = SourceOf(q) /\ HelpOf(q)' = HelpOf(q) /\ BodyOf(q)' = BodyOf(q)
        /\ Writable' = Writable
    BY <1>1, CodeKept
  <2>2. CASE q = p
    BY <1>1, <2>2, Unjudging DEF Outdated
  <2>3. CASE q # p /\ q \in DOMAIN file
    <3>1. reviewed'[q] = reviewed[q] /\ file'[q] = file[q]
      BY <1>1, <1>2, <2>3 DEF Outdated
    <3>2. (Differs(q)' => Differs(q)) /\ (Machine(q)' => Machine(q))
      BY <1>1, <2>1, <3>1, DiffersKept
    <3> QED
      BY <1>1, <1>2, <2>1, <2>3, <3>1, <3>2, JudgedKept DEF PersonsInv
  <2>4. CASE q # p /\ q \notin DOMAIN file
    <3>1. reviewed'[q] = reviewed[q] /\ q \notin DOMAIN file'
      BY <1>1, <1>2, <2>4 DEF Outdated
    <3> QED
      BY <2>1, <2>4, <3>1 DEF JudgedInv, PersonsInv
  <2> QED
    BY <2>2, <2>3, <2>4
<1> QED
  BY <1>4, <1>5, <1>6, <1>7 DEF PersonsInv
-----------------------------------------------------------------------------
\* Commands that only write the store.

\* A page whose entry has just been advanced does not differ from it, in what
\* the pass measured.
LEMMA AdvancedFits ==
    ASSUME FileInv, HashInv, NEW p \in DOMAIN file, NEW measuring \in BOOLEAN,
           p \in DOMAIN store', store'[p] = Advanced(store, p, Fresh(p, measuring)),
           UNCHANGED file, SourceOf(p)' = SourceOf(p), HelpOf(p)' = HelpOf(p)
    PROVE  /\ Differs(p)' => Differs(p) /\ ~measuring
           /\ Machine(p)' => Machine(p)
           /\ IsEntry(store'[p])
<1> DEFINE fresh == Fresh(p, measuring)
<1>1. /\ store'[p].content = file[p].content /\ store'[p].description = file[p].description
      /\ store'[p].seed = SeedOf(store, p) /\ IsEntry(store'[p])
      /\ p \notin DOMAIN store => store'[p].source = fresh.source /\ store'[p].schema = fresh.schema
      /\ p \in DOMAIN store =>
           IF file[p].description = store[p].description
           THEN /\ store'[p].source = IF fresh.source = Unknown THEN store[p].source ELSE fresh.source
                /\ store'[p].schema = IF fresh.schema = Unknown THEN store[p].schema ELSE fresh.schema
           ELSE store'[p].source = fresh.source /\ store'[p].schema = fresh.schema
  BY AdvancedEntry DEF HashInv
<1>2. /\ fresh.source = IF measuring THEN SourceOf(p) ELSE Unknown
      /\ fresh.schema = IF measuring THEN HelpOf(p) ELSE Unknown
  BY DEF Fresh, Entry, SchemaOf
<1>3. /\ Now(p)' = Now(p) /\ Now(p).content = file[p].content /\ Now(p).description = file[p].description
      /\ Now(p).source = SourceOf(p) /\ Now(p).schema = HelpOf(p)
  BY DEF Now, Entry, SchemaOf
<1>4. Machine(p)' => Machine(p)
  BY <1>1 DEF Machine, SeedOf
<1> HIDE DEF fresh
<1>5. Differs(p)' => \/ CheckDrift(p, Now(p), store)' \/ CheckSchemaDrift(p, Now(p), store)'
  BY <1>1, <1>3 DEF Differs, CheckStaleness
<1>6. CheckDrift(p, Now(p), store)' => ~measuring /\ CheckDrift(p, Now(p), store)
  BY <1>1, <1>2, <1>3 DEF CheckDrift
<1>7. CheckSchemaDrift(p, Now(p), store)' => ~measuring /\ CheckSchemaDrift(p, Now(p), store)
  BY <1>1, <1>2, <1>3 DEF CheckSchemaDrift
<1> QED
  BY <1>1, <1>4, <1>5, <1>6, <1>7 DEF Differs

\* A pass of gen, build or check over the store leaves every judgement right.
LEMMA PassKeeps ==
    ASSUME PersonsInv, NEW measuring \in BOOLEAN, NEW exempt,
           store' = UpdateHashes(Docs, measuring, exempt, store),
           UNCHANGED <<code, claimed, file, author, reviewed, edits>>
    PROVE  /\ FileInv' /\ HashInv' /\ CodeInv' /\ AuthorInv' /\ \A p \in Pages : JudgedInv(p)'
           /\ IsUpdate(store, measuring, exempt, store')
           /\ DOMAIN store' = DOMAIN store \cup DOMAIN file
           /\ \A p : SeedOf(store', p) = SeedOf(store, p)
<1>0. FileInv /\ IsStore(store)
  BY DEF PersonsInv, HashInv
<1>1. IsUpdate(store, measuring, exempt, store')
  BY <1>0, UpdatedAt
<1>2. /\ IsStore(store') /\ DOMAIN store' = DOMAIN store \cup DOMAIN file
      /\ \A p : SeedOf(store', p) = SeedOf(store, p)
  BY <1>0, <1>1, UpdatedStore
<1>3. FileInv' /\ CodeInv' /\ AuthorInv' /\ HashInv'
  BY <1>2, PagesKept DEF PersonsInv, CodeInv, AuthorInv, HashInv
<1>4. ASSUME NEW p \in Pages PROVE JudgedInv(p)'
  <2>1. /\ SourceOf(p)' = SourceOf(p) /\ HelpOf(p)' = HelpOf(p) /\ BodyOf(p)' = BodyOf(p)
        /\ Writable' = Writable
    BY CodeKept
  <2>2. ASSUME p \in DOMAIN file
        PROVE  (Differs(p)' => Differs(p)) /\ (Machine(p)' => Machine(p))
    <3>1. CASE p \in DOMAIN store /\ store'[p] = store[p]
      BY <1>2, <2>1, <3>1, DiffersKept
    <3>2. CASE store'[p] = Advanced(store, p, Fresh(p, measuring))
      BY <1>2, <2>1, <2>2, <3>2, AdvancedFits DEF PersonsInv
    <3> QED
      BY <1>1, <2>2, <3>1, <3>2 DEF IsUpdate
  <2> QED
    BY <2>1, <2>2, JudgedKept DEF PersonsInv
<1> QED
  BY <1>1, <1>2, <1>3, <1>4

LEMMA BuildStep ==
    ASSUME PersonsInv, Build
    PROVE  PersonsInv'
<1>1. /\ store' = UpdateHashes(Docs, FALSE, {}, store) /\ settled' = FALSE /\ gen.phase = "idle"
      /\ UNCHANGED <<code, claimed, file, gen, author, reviewed, edits>>
  BY DEF Build
<1>2. FileInv' /\ HashInv' /\ CodeInv' /\ AuthorInv' /\ \A p \in Pages : JudgedInv(p)'
  BY <1>1, PassKeeps
<1>3. PhaseInv' /\ SettledInv'
  BY <1>1, AtRest DEF PersonsInv, PhaseInv
<1> QED
  BY <1>2, <1>3 DEF PersonsInv

\* What is accepted is advanced: a page that is reported says what was recorded.
LEMMA AcceptedAt ==
    ASSUME PersonsInv, NEW pages, AcceptBaselines(pages)
    PROVE  /\ DOMAIN store' = DOMAIN store /\ store' = [p \in DOMAIN store |-> store'[p]]
           /\ \A p \in DOMAIN store \ pages : store'[p] = store[p]
           /\ \A p \in pages : /\ p \in DOMAIN file /\ p \in DOMAIN store
                               /\ ~(p \in Generated /\ Machine(p))
                               /\ store'[p] = Advanced(store, p, Fresh(p, TRUE))
<1> DEFINE now == ComputeCurrentHashes(Docs, TRUE)
<1>1. store' = [p \in DOMAIN store |-> IF p \in pages THEN Merge(store[p], now[p]) ELSE store[p]]
      /\ pages \subseteq Findings
  BY DEF AcceptBaselines
<1>2. now = [p \in DOMAIN file |-> Fresh(p, TRUE)]
  BY DocsAre DEF PersonsInv
<1> HIDE DEF now
<1>3. ASSUME NEW p \in pages
      PROVE  /\ p \in DOMAIN file /\ p \in DOMAIN store
             /\ ~(p \in Generated /\ Machine(p))
             /\ store'[p] = Advanced(store, p, Fresh(p, TRUE))
  <2>1. p \in DOMAIN file /\ Differs(p) /\ ~(p \in Generated /\ Machine(p))
    BY <1>1, FindingsAre DEF PersonsInv
  <2>2. p \in DOMAIN store /\ file[p].description = store[p].description
    BY <2>1 DEF Differs, CheckStaleness, CheckDrift, CheckSchemaDrift, Now, Entry
  <2>3. store'[p] = Merge(store[p], Fresh(p, TRUE))
    BY <1>1, <1>2, <2>1, <2>2
  <2>4. Fresh(p, TRUE).description = store[p].description
    BY <2>2 DEF Fresh, Entry
  <2> QED
    BY <2>1, <2>2, <2>3, <2>4 DEF Advanced
<1> QED
  BY <1>1, <1>3

LEMMA AcceptStep ==
    ASSUME PersonsInv, NEW pages, AcceptBaselines(pages)
    PROVE  PersonsInv'
<1>1. /\ reviewed' = [p \in Pages |-> IF p \in pages THEN Measured(p) ELSE reviewed[p]]
      /\ settled' = FALSE /\ gen.phase = "idle"
      /\ UNCHANGED <<code, claimed, file, gen, author, edits>>
  BY DEF AcceptBaselines
<1>2. FileInv' /\ CodeInv' /\ AuthorInv'
  BY <1>1, PagesKept DEF PersonsInv, CodeInv
<1>3. PhaseInv' /\ SettledInv'
  BY <1>1, AtRest DEF PersonsInv, PhaseInv
<1>4. HashInv'
  <2>1. ASSUME NEW p \in DOMAIN store PROVE IsEntry(store'[p])
    <3>1. CASE p \in pages
      <4>1. p \in DOMAIN file /\ store'[p] = Advanced(store, p, Fresh(p, TRUE))
        BY <3>1, AcceptedAt
      <4>2. SourceOf(p)' = SourceOf(p) /\ HelpOf(p)' = HelpOf(p)
        BY <1>1, CodeKept
      <4> QED
        BY <1>1, <2>1, <4>1, <4>2, AcceptedAt, AdvancedFits DEF PersonsInv
    <3>2. CASE p \notin pages
      BY <2>1, <3>2, AcceptedAt DEF PersonsInv, HashInv, IsStore
    <3> QED
      BY <3>1, <3>2
  <2> QED
    BY <2>1, AcceptedAt DEF PersonsInv, HashInv, IsStore
<1>5. ASSUME NEW p \in Pages PROVE JudgedInv(p)'
  <2>1. /\ SourceOf(p)' = SourceOf(p) /\ HelpOf(p)' = HelpOf(p) /\ BodyOf(p)' = BodyOf(p)
        /\ Writable' = Writable
    BY <1>1, CodeKept
  <2>2. CASE p \in pages
    <3>1. /\ p \in DOMAIN file /\ p \in DOMAIN store' /\ ~(p \in Generated /\ Machine(p))
          /\ store'[p] = Advanced(store, p, Fresh(p, TRUE))
      BY <2>2, AcceptedAt
    <3>2. ~Differs(p)' /\ (Machine(p)' => Machine(p))
      BY <1>1, <2>1, <3>1, AdvancedFits DEF PersonsInv
    <3>3. reviewed'[p] = Measured(p)'
      BY <1>1, <2>1, <2>2 DEF Measured, SchemaOf
    <3> QED
      BY <1>1, <3>1, <3>2, <3>3 DEF JudgedInv
  <2>3. CASE p \notin pages
    <3>1. reviewed'[p] = reviewed[p]
      BY <1>1, <2>3
    <3>2. p \in DOMAIN store' <=> p \in DOMAIN store
      BY AcceptedAt
    <3>3. p \in DOMAIN store => store'[p] = store[p]
      BY <2>3, AcceptedAt
    <3>4. (Differs(p)' => Differs(p)) /\ (Machine(p)' => Machine(p))
      BY <1>1, <2>1, <3>2, <3>3, DiffersKept DEF SeedOf
    <3> QED
      BY <1>1, <2>1, <3>1, <3>4, JudgedKept DEF PersonsInv
  <2> QED
    BY <2>2, <2>3
<1> QED
  BY <1>2, <1>3, <1>4, <1>5 DEF PersonsInv
-----------------------------------------------------------------------------
\* gen.

\* While neither code nor pages nor the store change, all else is as it was.
LEMMA NothingWritten ==
    ASSUME PersonsInv, UNCHANGED <<code, claimed, file, store, author, reviewed>>, edits' \in Nat
    PROVE  /\ FileInv' /\ HashInv' /\ CodeInv' /\ AuthorInv' /\ (\A p \in Pages : JudgedInv(p)')
           /\ Writable' = Writable /\ (Swept' <=> Swept)
           /\ \A p : (Written(p)' <=> Written(p)) /\ (Recorded(p)' <=> Recorded(p))
           /\ settled' = settled /\ (settled' => gen'.deleted = {}) => SettledInv'
<1>1. /\ Writable' = Writable /\ ModulePages' = ModulePages
      /\ \A p : /\ SourceOf(p)' = SourceOf(p) /\ HelpOf(p)' = HelpOf(p) /\ BodyOf(p)' = BodyOf(p)
                /\ SeedText(p)' = SeedText(p)
  BY CodeKept
<1>2. FileInv' /\ CodeInv' /\ AuthorInv' /\ HashInv'
  BY PagesKept DEF PersonsInv, AuthorInv, HashInv
<1>3. ASSUME NEW p \in Pages PROVE JudgedInv(p)'
  <2>1. (Differs(p)' => Differs(p)) /\ (Machine(p)' => Machine(p))
    BY <1>1, DiffersKept DEF SeedOf
  <2> QED
    BY <1>1, <2>1, JudgedKept DEF PersonsInv
<1>4. \A p : Keeps(p)' <=> Keeps(p)
  BY <1>1 DEF Keeps
<1>5. (Swept' <=> Swept) /\ \A p : (Written(p)' <=> Written(p)) /\ (Recorded(p)' <=> Recorded(p))
  BY <1>1, <1>4 DEF Swept, Written, Recorded
<1>6. Docs' = Docs /\ machineOwnedKeys' = machineOwnedKeys
  BY <1>1 DEF Docs, machineOwnedKeys, SchemaOf
<1>7. settled' = settled /\ (settled' => gen'.deleted = {}) => SettledInv'
  BY <1>1, <1>5, <1>6 DEF SettledInv, PersonsInv
<1> QED
  BY <1>1, <1>2, <1>3, <1>5, <1>7

LEMMA StartGenStep ==
    ASSUME PersonsInv, StartGen
    PROVE  PersonsInv'
<1>1. /\ gen' = [phase |-> "pages", deleted |-> {}, todo |-> Writable]
      /\ UNCHANGED <<code, claimed, file, store, author, reviewed, settled, edits>>
  BY DEF StartGen, Writable
<1>2. Writable \subseteq Generated /\ Writable' = Writable
  BY <1>1, CodeKept DEF Writable, ModulePages, CommandPages, Generated
<1>3. PhaseInv'
  BY <1>1, <1>2 DEF PhaseInv
<1>4. SettledInv' /\ edits \in Nat
  BY <1>1, NothingWritten DEF PersonsInv, CodeInv
<1> QED
  BY <1>1, <1>3, <1>4, NothingWritten DEF PersonsInv

LEMMA DieInGenStep ==
    ASSUME PersonsInv, DieInGen
    PROVE  PersonsInv'
<1>1. /\ gen' = Idle /\ settled' = FALSE /\ edits' = edits + 1
      /\ UNCHANGED <<code, claimed, file, store, author, reviewed>>
  BY DEF DieInGen
<1>2. edits' \in Nat
  BY <1>1 DEF PersonsInv, CodeInv
<1> QED
  BY <1>1, <1>2, AtRest, NothingWritten DEF PersonsInv

\* What gen writes on a page is its body and, unless a person described it, the
\* machine's own text.
LEMMA SeedTexts ==
    ASSUME CodeInv, NEW p \in Writable
    PROVE  /\ p \in Generated /\ SeedText(p) \in MachineTexts /\ BodyOf(p) # Unknown
           /\ p \in Commands => HelpOf(p) = SeedText(p)
<1>1. p \in Generated
  BY DEF Writable, ModulePages, CommandPages, Generated
<1>2. CASE p \in Indexes
  BY <1>1, <1>2, PagesAreDistinct, TextsAreDistinct
     DEF SeedText, BodyOf, MachineTexts, ModulePages
<1>3. CASE p \notin Indexes
  <2>1. code[p] \in Sentences \cup {Silent} /\ (p \in Commands => code[p] # Silent)
    BY <1>1, <1>3 DEF CodeInv, Writable, ModulePages, CommandPages, Exists, Generated
  <2>2. p \in Commands \/ p \in Modules
    BY <1>1, <1>3 DEF Generated
  <2>3. BodyOf(p) # Unknown
    BY <1>3, <2>1, <2>2, TextsAreDistinct DEF BodyOf
  <2> QED
    BY <1>1, <1>3, <2>1, <2>3, TextsAreDistinct DEF SeedText, MachineTexts, HelpOf, Exists
<1> QED
  BY <1>2, <1>3

\* gen keeps what it would not take for a machine's text.
LEMMA KeepsAre ==
    ASSUME PersonsInv, NEW p \in DOMAIN file, p \in Generated
    PROVE  /\ ~Machine(p) => Keeps(p)
           /\ Keeps(p) /\ SeedOf(store, p) = Unknown => ~Machine(p)
<1>1. p \in Commands => p \notin Modules \cup Indexes
  BY PagesAreDistinct
<1>2. file[p].description # Unknown
  BY TextsAreDistinct DEF PersonsInv, FileInv, IsPage
<1> QED
  BY <1>1, <1>2 DEF Machine, Keeps, IsMachineOwned, IsDefaultCLIDescription

\* A page that is as the store records it would be written as it is.
LEMMA RecordedRests ==
    ASSUME PersonsInv, NEW p \in Writable, Recorded(p)
    PROVE  file[p] = PageContent(p)
<1>1. p \in DOMAIN file /\ IsPage(file[p]) /\ file[p].generated = TRUE /\ file[p].content = BodyOf(p)
  BY SeedTexts DEF Recorded, PersonsInv, FileInv, IsPage
<1>2. CASE file[p].seeded
  <2>1. /\ file[p].description = SeedText(p) /\ p \in DOMAIN store
        /\ store[p].seed = file[p].description
    BY <1>2 DEF Recorded
  <2>2. ~Keeps(p)
    BY <2>1, SeedTexts
       DEF Keeps, IsDefaultCLIDescription, IsMachineOwned, SeedOf, PersonsInv
  <2> QED
    BY <1>1, <1>2, <2>1, <2>2 DEF IsPage, PageContent
<1>3. CASE ~file[p].seeded
  BY <1>1, <1>3 DEF IsPage, PageContent, Recorded
<1> QED
  BY <1>2, <1>3

LEMMA PageWritten ==
    ASSUME PersonsInv, NEW p \in Writable
    PROVE  LET page == PageContent(p)
           IN /\ IsPage(page) /\ page.generated = TRUE /\ page.content = BodyOf(p)
              /\ page.seeded = ~Keeps(p)
              /\ page.description = IF Keeps(p) THEN file[p].description ELSE SeedText(p)
<1>1. Keeps(p) \in BOOLEAN /\ (Keeps(p) => p \in DOMAIN file)
  BY DEF Keeps
<1>2. SeedText(p) \in Texts /\ BodyOf(p) # Unknown
  BY SeedTexts DEF MachineTexts, Texts, PersonsInv
<1>3. Keeps(p) => file[p].description \in Texts
  BY <1>1 DEF PersonsInv, FileInv, IsPage
<1> QED
  BY <1>1, <1>2, <1>3 DEF PageContent, IsPage

LEMMA WritePageStep ==
    ASSUME PersonsInv, NEW p \in Generated, WritePage(p)
    PROVE  PersonsInv'
<1> DEFINE page == PageContent(p)
<1>1. /\ p \in gen.todo
      /\ file' = [q \in DOMAIN file \cup {p} |-> IF q = p THEN page ELSE file[q]]
      /\ gen' = [gen EXCEPT !.todo = @ \ {p}]
      /\ author' = IF Keeps(p) THEN author ELSE [author EXCEPT ![p] = "machine"]
      /\ UNCHANGED <<code, claimed, store, reviewed, settled, edits>>
  BY DEF WritePage, IsNext
<1>2. /\ gen.phase = "pages" /\ p \in Writable /\ p \in Pages
  BY <1>1 DEF PersonsInv, PhaseInv, Idle, Pages
<1>3. /\ IsPage(page) /\ page.generated = TRUE /\ page.content = BodyOf(p)
      /\ page.seeded = ~Keeps(p)
      /\ page.description = IF Keeps(p) THEN file[p].description ELSE SeedText(p)
  BY <1>2, PageWritten
<1> HIDE DEF page
<1>4. /\ DOMAIN file' = DOMAIN file \cup {p} /\ file'[p] = page
      /\ \A q \in DOMAIN file \ {p} : file'[q] = file[q]
      /\ file' = [q \in DOMAIN file' |-> file'[q]]
  BY <1>1
<1>5. /\ Writable' = Writable
      /\ \A q : /\ SourceOf(q)' = SourceOf(q) /\ HelpOf(q)' = HelpOf(q) /\ BodyOf(q)' = BodyOf(q)
                /\ SeedText(q)' = SeedText(q)
  BY <1>1, CodeKept
<1>6. FileInv'
  BY <1>2, <1>3, <1>4 DEF PersonsInv, FileInv
<1>7. HashInv' /\ CodeInv'
  BY <1>1 DEF PersonsInv, HashInv, CodeInv
<1>8. Keeps(p) => p \in DOMAIN file
  BY DEF Keeps
<1>9. AuthorInv'
  <2>1. author' \in [Pages -> {"person", "machine"}] /\ \A q \in Pages \ {p} : author'[q] = author[q]
    BY <1>1, <1>2 DEF PersonsInv, AuthorInv
  <2>2. author'[p] = "person" => Keeps(p) /\ author[p] = "person"
    BY <1>1, <1>2 DEF PersonsInv, AuthorInv
  <2>3. author'[p] = "person" => file'[p].description \in Handwriting
    BY <1>3, <1>4, <1>8, <2>2 DEF PersonsInv, AuthorInv
  <2> QED
    BY <1>1, <1>4, <1>6, <2>1, <2>3 DEF PersonsInv, AuthorInv, FileInv
<1>10. reviewed[p] # Unjudged => p \in DOMAIN file /\ ~Machine(p) /\ Keeps(p)
  BY <1>2, KeepsAre DEF PersonsInv, JudgedInv
<1>11. Written(p)'
  <2>1. CASE Keeps(p)
    <3>1. Keeps(p)'
      BY <1>1, <1>3, <1>4, <1>5, <2>1 DEF Keeps
    <3> QED
      BY <1>3, <1>4, <1>5, <2>1, <3>1 DEF Written
  <2>2. CASE ~Keeps(p)
    BY <1>1, <1>3, <1>4, <1>5, <1>10, <2>2 DEF Written
  <2> QED
    BY <2>1, <2>2
<1>12. ASSUME NEW q \in Writable \ gen'.todo PROVE Written(q)'
  <2>1. CASE q = p
    BY <1>11, <2>1
  <2>2. CASE q # p
    <3>1. Written(q)
      BY <1>1, <1>2, <2>2, <1>12 DEF PersonsInv, PhaseInv
    <3>2. q \in DOMAIN file' /\ file'[q] = file[q]
      BY <1>4, <2>2, <3>1 DEF Written
    <3>3. Keeps(q)' <=> Keeps(q)
      BY <1>1, <1>5, <3>1, <3>2 DEF Keeps, Written
    <3> QED
      BY <1>1, <1>5, <3>1, <3>2, <3>3 DEF Written
  <2> QED
    BY <2>1, <2>2
<1>13. PhaseInv'
  <2>1. gen \in [phase : {"idle", "pages", "save", "baselines"}, todo : SUBSET Generated,
                 deleted : SUBSET Generated]
    BY DEF PersonsInv, PhaseInv
  <2>2. /\ gen' \in [phase : {"idle", "pages", "save", "baselines"}, todo : SUBSET Generated,
                     deleted : SUBSET Generated]
        /\ gen'.phase = "pages" /\ gen'.deleted = {} /\ gen'.todo \subseteq Writable
    BY <1>1, <1>2, <2>1 DEF PersonsInv, PhaseInv
  <2> QED
    BY <1>5, <1>12, <2>2 DEF PhaseInv
<1>14. ASSUME NEW q \in Pages PROVE JudgedInv(q)'
  <2>1. CASE q = p
    <3> SUFFICES ASSUME reviewed[p] # Unjudged PROVE JudgedInv(p)'
      BY <1>1, <2>1 DEF JudgedInv
    <3>1. /\ p \in DOMAIN file /\ ~Machine(p) /\ Keeps(p)
          /\ file'[p].description = file[p].description /\ file'[p].content = BodyOf(p)
      BY <1>3, <1>4, <1>10
    <3>2. ~Machine(p)'
      BY <1>1, <1>5, <3>1 DEF Machine
    <3>3. CASE file[p].content = BodyOf(p)
      <4>1. Measured(p)' = Measured(p)
        BY <1>5, <3>1, <3>3 DEF Measured, SchemaOf
      <4>2. Differs(p)' => Differs(p)
        BY <1>1, <1>5, <3>1, <3>3, DiffersKept
      <4> QED
        BY <1>1, <1>2, <1>4, <1>5, <3>1, <3>2, <3>3, <4>1, <4>2 DEF PersonsInv, JudgedInv
    <3>4. CASE file[p].content # BodyOf(p)
      <4>1. reviewed[p] = Measured(p)
        BY <1>2, <3>1, <3>4 DEF PersonsInv, JudgedInv
      <4>2. Measured(p)' # Measured(p)
        BY <3>1, <3>4 DEF Measured
      <4> QED
        BY <1>1, <1>4, <1>5, <3>1, <3>2, <4>1, <4>2 DEF JudgedInv
    <3> QED
      BY <3>3, <3>4
  <2>2. CASE q # p
    <3>1. q \in DOMAIN file' <=> q \in DOMAIN file
      BY <1>4, <2>2
    <3>2. ASSUME q \in DOMAIN file
          PROVE  file'[q] = file[q] /\ (Differs(q)' => Differs(q)) /\ (Machine(q)' => Machine(q))
      <4>1. file'[q] = file[q]
        BY <1>4, <2>2, <3>2
      <4> QED
        BY <1>1, <1>5, <4>1, DiffersKept
    <3> QED
      BY <1>1, <1>5, <3>1, <3>2, JudgedKept DEF PersonsInv
  <2> QED
    BY <2>1, <2>2
<1>15. SettledInv'
  <2> SUFFICES ASSUME settled' PROVE SettledInv'
    BY DEF SettledInv
  <2>1. Recorded(p) /\ gen'.deleted = {}
    BY <1>1, <1>2 DEF PersonsInv, SettledInv, PhaseInv
  <2>2. file[p] = page /\ p \in DOMAIN file
    BY <1>2, <2>1, RecordedRests DEF Recorded, page
  <2>3. file' = file
    BY <1>1, <2>2 DEF PersonsInv, FileInv
  <2>4. author' = author \/ UNCHANGED <<code, claimed, file, store, reviewed>>
    BY <1>1, <2>3
  <2>5. \A q : Recorded(q)' <=> Recorded(q)
    BY <1>1, <1>5, <2>3 DEF Recorded, Keeps
  <2>6. Docs' = Docs /\ machineOwnedKeys' = machineOwnedKeys /\ (Swept' <=> Swept)
    BY <1>1, <1>5, <2>3 DEF Docs, machineOwnedKeys, SchemaOf, Swept
  <2> QED
    BY <1>1, <1>5, <2>1, <2>5, <2>6 DEF SettledInv, PersonsInv
<1> QED
  BY <1>6, <1>7, <1>9, <1>13, <1>14, <1>15 DEF PersonsInv
LEMMA SweepStep ==
    ASSUME PersonsInv, removeStaleGenerated
    PROVE  PersonsInv'
<1> DEFINE stale == {p \in DOMAIN file \ Writable : file[p].generated}
<1>1. /\ gen.phase = "pages" /\ gen.todo = {}
      /\ file' = Restrict(file, DOMAIN file \ stale)
      /\ gen' = [gen EXCEPT !.phase = "save", !.deleted = stale]
      /\ UNCHANGED <<code, claimed, store, author, reviewed, settled, edits>>
  BY DEF removeStaleGenerated, Writable
<1>2. \A p \in DOMAIN file : p \in stale <=> p \in Generated /\ p \notin Writable
  BY DEF PersonsInv, FileInv
<1> HIDE DEF stale
<1>3. /\ DOMAIN file' = DOMAIN file \ stale /\ file' = [p \in DOMAIN file' |-> file'[p]]
      /\ \A p \in DOMAIN file' : file'[p] = file[p]
  BY <1>1 DEF Restrict
<1>4. /\ Writable' = Writable
      /\ \A q : /\ SourceOf(q)' = SourceOf(q) /\ HelpOf(q)' = HelpOf(q) /\ BodyOf(q)' = BodyOf(q)
                /\ SeedText(q)' = SeedText(q)
  BY <1>1, CodeKept
<1>5. FileInv' /\ HashInv' /\ CodeInv' /\ AuthorInv'
  BY <1>1, <1>3 DEF PersonsInv, FileInv, HashInv, CodeInv, AuthorInv
<1>6. stale \subseteq Generated /\ stale \cap Writable = {} /\ stale \cap DOMAIN file' = {}
  BY <1>2, <1>3 DEF stale
<1>7. ASSUME NEW p \in Writable PROVE Written(p)'
  <2>1. Written(p)
    BY <1>1 DEF PersonsInv, PhaseInv
  <2>2. p \in DOMAIN file' /\ file'[p] = file[p]
    BY <1>3, <1>6, <2>1 DEF Written
  <2>3. Keeps(p)' <=> Keeps(p)
    BY <1>1, <1>4, <2>1, <2>2 DEF Keeps, Written
  <2> QED
    BY <1>1, <1>4, <2>1, <2>2, <2>3 DEF Written
<1>8. PhaseInv'
  <2>1. gen \in [phase : {"idle", "pages", "save", "baselines"}, todo : SUBSET Generated,
                 deleted : SUBSET Generated]
    BY DEF PersonsInv, PhaseInv
  <2>2. /\ gen' \in [phase : {"idle", "pages", "save", "baselines"}, todo : SUBSET Generated,
                     deleted : SUBSET Generated]
        /\ gen'.phase = "save" /\ gen'.deleted = stale /\ gen'.todo = {}
    BY <1>1, <1>6, <2>1
  <2>3. Swept'
    BY <1>2, <1>3, <1>4 DEF Swept
  <2> QED
    BY <1>4, <1>6, <1>7, <2>2, <2>3 DEF PhaseInv
<1>9. ASSUME NEW p \in Pages PROVE JudgedInv(p)'
  <2>1. CASE p \in DOMAIN file'
    <3>1. p \in DOMAIN file /\ file'[p] = file[p]
      BY <1>3, <2>1
    <3>2. (Differs(p)' => Differs(p)) /\ (Machine(p)' => Machine(p))
      BY <1>1, <1>4, <3>1, DiffersKept
    <3> QED
      BY <1>1, <1>4, <2>1, <3>1, <3>2, JudgedKept DEF PersonsInv
  <2>2. CASE p \notin DOMAIN file'
    <3>1. p \notin DOMAIN file \/ p \notin Writable
      BY <1>3, <1>6, <2>2
    <3> QED
      BY <1>1, <1>4, <2>2, <3>1 DEF PersonsInv, JudgedInv
  <2> QED
    BY <2>1, <2>2
<1>10. SettledInv'
  <2> SUFFICES ASSUME settled' PROVE SettledInv'
    BY DEF SettledInv
  <2>1. stale = {} /\ SettledInv /\ settled
    BY <1>1, <1>2 DEF PersonsInv, SettledInv, Swept, stale
  <2>2. gen'.deleted = {}
    BY <1>8, <2>1, <1>1 DEF PersonsInv, PhaseInv
  <2>3. file' = file
    BY <1>3, <2>1 DEF PersonsInv, FileInv
  <2> QED
    BY <1>1, <2>2, <2>3, NothingWritten DEF PersonsInv, CodeInv
<1> QED
  BY <1>5, <1>8, <1>9, <1>10 DEF PersonsInv

\* What the store becomes once gen records its seeds.
LEMMA SeedsAre ==
    ASSUME PersonsInv, SaveSeeds
    PROVE  LET seeded == {p \in Writable : file[p].seeded}
               kept   == DOMAIN store \ gen.deleted
           IN /\ DOMAIN store' = kept \cup seeded /\ store' = [p \in kept \cup seeded |-> store'[p]]
              /\ \A p \in DOMAIN store' :
                   LET e == IF p \in kept THEN store[p] ELSE Blank
                   IN store'[p] = Entry(e.content, e.description, e.source, e.schema,
                                        IF p \in seeded THEN file[p].description
                                        ELSE IF p \in Writable THEN Unknown ELSE e.seed)
<1> DEFINE seeded == {p \in Writable : file[p].seeded}
           kept == DOMAIN store \ gen.deleted
           entry(p) == IF p \in kept THEN store[p] ELSE Blank
<1>1. store' = [p \in kept \cup seeded |->
                  IF p \in seeded THEN [entry(p) EXCEPT !.seed = file[p].description]
                  ELSE IF p \in Writable THEN [entry(p) EXCEPT !.seed = Unknown]
                  ELSE entry(p)]
  BY DEF SaveSeeds, recordSeedHashes, Writable
<1>2. \A p : entry(p) = Entry(entry(p).content, entry(p).description, entry(p).source,
                              entry(p).schema, entry(p).seed)
  BY DEF PersonsInv, HashInv, IsStore, IsEntry, Blank, Entry
<1> HIDE DEF seeded, kept, entry
<1>3. ASSUME NEW p \in kept \cup seeded
      PROVE  store'[p] = Entry(entry(p).content, entry(p).description, entry(p).source, entry(p).schema,
                               IF p \in seeded THEN file[p].description
                               ELSE IF p \in Writable THEN Unknown ELSE entry(p).seed)
  <2>1. \A seed : [entry(p) EXCEPT !.seed = seed] =
                    Entry(entry(p).content, entry(p).description, entry(p).source, entry(p).schema, seed)
    BY <1>2 DEF Entry
  <2> QED
    BY <1>1, <1>2, <2>1
<1> QED
  BY <1>1, <1>3 DEF seeded, kept, entry

\* A gen that follows one that ended well records the seeds it finds.
LEMMA SeedsRest ==
    ASSUME PersonsInv, SaveSeeds, settled
    PROVE  store' = store
<1> DEFINE seeded == {p \in Writable : file[p].seeded}
           kept == DOMAIN store \ gen.deleted
           old(p) == IF p \in kept THEN store[p] ELSE Blank
<1>1. gen.deleted = {} /\ \A p \in Writable : Recorded(p)
  BY DEF PersonsInv, SettledInv
<1>2. DOMAIN store' = kept \cup seeded /\ store' = [p \in DOMAIN store' |-> store'[p]]
  BY SeedsAre
<1>3. \A p \in DOMAIN store' :
        store'[p] = Entry(old(p).content, old(p).description, old(p).source, old(p).schema,
                          IF p \in seeded THEN file[p].description
                          ELSE IF p \in Writable THEN Unknown ELSE old(p).seed)
  BY SeedsAre
<1>4. seeded \subseteq DOMAIN store /\ DOMAIN store' = DOMAIN store
  BY <1>1, <1>2 DEF Recorded
<1>5. ASSUME NEW p \in DOMAIN store PROVE store'[p] = store[p]
  <2>1. p \in kept /\ old(p) = store[p] /\ IsEntry(store[p])
    BY <1>1, <1>5 DEF PersonsInv, HashInv, IsStore
  <2>2. (IF p \in seeded THEN file[p].description
         ELSE IF p \in Writable THEN Unknown ELSE old(p).seed) = store[p].seed
    <3>1. CASE p \in seeded
      BY <1>1, <1>4, <3>1 DEF Recorded
    <3>2. CASE p \in Writable /\ p \notin seeded
      BY <1>1, <1>4, <1>5, <3>2 DEF Recorded, SeedOf
    <3>3. CASE p \notin Writable
      BY <2>1, <3>3
    <3> QED
      BY <3>1, <3>2, <3>3
  <2> HIDE DEF seeded, kept, old
  <2> QED
    BY <1>3, <1>4, <1>5, <2>1, <2>2 DEF IsEntry
<1> QED
  BY <1>2, <1>4, <1>5 DEF PersonsInv, HashInv, IsStore

LEMMA SaveSeedsStep ==
    ASSUME PersonsInv, SaveSeeds
    PROVE  PersonsInv'
<1> DEFINE seeded == {p \in Writable : file[p].seeded}
           kept == DOMAIN store \ gen.deleted
           old(p) == IF p \in kept THEN store[p] ELSE Blank
<1>1. /\ gen.phase = "save" /\ gen' = [gen EXCEPT !.phase = "baselines"]
      /\ UNCHANGED <<code, claimed, file, author, reviewed, settled, edits>>
  BY DEF SaveSeeds
<1>2. DOMAIN store' = kept \cup seeded /\ store' = [p \in DOMAIN store' |-> store'[p]]
  BY SeedsAre
<1>3. \A p \in DOMAIN store' :
        /\ store'[p] = Entry(store'[p].content, store'[p].description, store'[p].source,
                             store'[p].schema, store'[p].seed)
        /\ store'[p].content = old(p).content /\ store'[p].description = old(p).description
        /\ store'[p].source = old(p).source /\ store'[p].schema = old(p).schema
        /\ store'[p].seed = IF p \in seeded THEN file[p].description
                            ELSE IF p \in Writable THEN Unknown ELSE old(p).seed
  BY SeedsAre DEF Entry
<1>4. gen.todo = {} /\ Swept /\ gen.deleted \cap (DOMAIN file \cup Writable) = {}
      /\ \A p \in Writable : Written(p)
  BY <1>1 DEF PersonsInv, PhaseInv
<1>5. \A p \in Writable : p \in DOMAIN file /\ p \in Generated /\ file[p].description # Unknown
  BY <1>4, SeedTexts, TextsAreDistinct DEF Written, PersonsInv, FileInv, IsPage
<1>6. /\ Writable' = Writable
      /\ \A q : /\ SourceOf(q)' = SourceOf(q) /\ HelpOf(q)' = HelpOf(q) /\ BodyOf(q)' = BodyOf(q)
                /\ SeedText(q)' = SeedText(q)
  BY <1>1, CodeKept
<1>7. FileInv' /\ CodeInv' /\ AuthorInv'
  BY <1>1, PagesKept DEF PersonsInv, CodeInv, AuthorInv
<1>8. HashInv'
  <2>1. ASSUME NEW p \in DOMAIN store' PROVE IsEntry(store'[p]) /\ p \in Pages
    <3>1. old(p).description \in Texts \cup {Unknown} /\ old(p).seed \in MachineTexts \cup {Unknown}
      BY DEF PersonsInv, HashInv, IsStore, IsEntry, Blank, Entry
    <3>2. p \in seeded => file[p].description \in MachineTexts
      BY <1>4, SeedTexts DEF Written, PersonsInv
    <3>3. p \in Pages
      BY <1>2, <1>5, <2>1 DEF PersonsInv, HashInv, IsStore, Pages
    <3> HIDE DEF seeded, kept, old
    <3> QED
      BY <1>3, <2>1, <3>1, <3>2, <3>3 DEF IsEntry
  <2> QED
    BY <1>2, <2>1 DEF HashInv, IsStore
<1>9. ASSUME NEW p \in Writable PROVE Recorded(p)'
  <2>1. Written(p) /\ p \in DOMAIN file /\ p \in Generated /\ file[p].description # Unknown
    BY <1>4, <1>5
  <2>2. CASE file[p].seeded
    <3>1. p \in seeded /\ p \in DOMAIN store'
      BY <1>2, <2>2
    <3>2. store'[p].seed = file[p].description
      BY <1>3, <3>1
    <3> QED
      BY <1>1, <1>6, <2>1, <2>2, <3>1, <3>2 DEF Recorded, Written
  <2>3. CASE ~file[p].seeded
    <3>1. p \notin seeded /\ SeedOf(store', p) = Unknown
      BY <1>3, <2>3 DEF SeedOf
    <3>2. Keeps(p)
      BY <2>1, <2>3 DEF Written
    <3>3. Keeps(p)'
      BY <1>1, <1>6, <2>1, <3>1, <3>2 DEF Keeps, IsMachineOwned
    <3> QED
      BY <1>1, <1>6, <2>1, <2>3, <3>1, <3>3 DEF Recorded, Written
  <2> QED
    BY <2>2, <2>3
<1>10. PhaseInv'
  <2>1. gen \in [phase : {"idle", "pages", "save", "baselines"}, todo : SUBSET Generated,
                 deleted : SUBSET Generated]
    BY DEF PersonsInv, PhaseInv
  <2>2. /\ gen' \in [phase : {"idle", "pages", "save", "baselines"}, todo : SUBSET Generated,
                     deleted : SUBSET Generated]
        /\ gen'.phase = "baselines" /\ gen'.deleted = gen.deleted /\ gen'.todo = {}
    BY <1>1, <1>4, <2>1
  <2>3. Swept'
    BY <1>1, <1>4, <1>6 DEF Swept
  <2> QED
    BY <1>1, <1>4, <1>6, <1>9, <2>2, <2>3 DEF PhaseInv
<1>11. ASSUME NEW p \in Pages PROVE JudgedInv(p)'
  <2> SUFFICES ASSUME reviewed[p] # Unjudged PROVE JudgedInv(p)'
    BY <1>1 DEF JudgedInv
  <2>1. ASSUME p \in DOMAIN file PROVE (Differs(p)' => Differs(p)) /\ (Machine(p)' => Machine(p))
    <3>1. p \notin gen.deleted /\ file[p].description # Unknown
      BY <1>4, <2>1, TextsAreDistinct DEF PersonsInv, FileInv, IsPage
    <3>2. p \notin seeded
      BY <1>4 DEF Written
    <3>3. p \in DOMAIN store' <=> p \in DOMAIN store
      BY <1>2, <3>1, <3>2
    <3>4. p \in DOMAIN store' => /\ store'[p].content = store[p].content
                                 /\ store'[p].description = store[p].description
                                 /\ store'[p].source = store[p].source
                                 /\ store'[p].schema = store[p].schema
                                 /\ store'[p].seed \in {Unknown, store[p].seed}
      BY <1>3, <3>1, <3>2, <3>3
    <3>5. Differs(p)' => Differs(p)
      BY <1>1, <1>6, <3>3, <3>4, DiffersKept
    <3>6. Machine(p)' => Machine(p)
      BY <1>1, <1>6, <3>1, <3>3, <3>4 DEF Machine, SeedOf, IsMachineOwned
    <3> QED
      BY <3>5, <3>6
  <2> QED
    BY <1>1, <1>6, <2>1, JudgedKept DEF PersonsInv
<1>12. SettledInv'
  <2> SUFFICES ASSUME settled' PROVE SettledInv'
    BY DEF SettledInv
  <2>1. store' = store /\ gen'.deleted = {}
    BY <1>1, SeedsRest DEF PersonsInv, SettledInv, PhaseInv
  <2> QED
    BY <1>1, <2>1, NothingWritten DEF PersonsInv, CodeInv
<1> QED
  BY <1>7, <1>8, <1>10, <1>11, <1>12 DEF PersonsInv

LEMMA RecordBaselinesStep ==
    ASSUME PersonsInv, RecordBaselines
    PROVE  PersonsInv'
<1>1. /\ gen.phase = "baselines" /\ gen' = Idle
      /\ store' = UpdateHashes(Docs, TRUE, machineOwnedKeys, store)
      /\ UNCHANGED <<code, claimed, file, author, reviewed, edits>>
  BY DEF RecordBaselines
<1>2. /\ FileInv' /\ HashInv' /\ CodeInv' /\ AuthorInv' /\ (\A p \in Pages : JudgedInv(p)')
      /\ IsUpdate(store, TRUE, machineOwnedKeys, store')
      /\ DOMAIN store' = DOMAIN store \cup DOMAIN file
      /\ \A p : SeedOf(store', p) = SeedOf(store, p)
  BY <1>1, PassKeeps
<1>3. PhaseInv'
  BY <1>1 DEF PhaseInv, Idle
<1>4. /\ Writable' = Writable
      /\ \A q : /\ SourceOf(q)' = SourceOf(q) /\ HelpOf(q)' = HelpOf(q) /\ BodyOf(q)' = BodyOf(q)
                /\ SeedText(q)' = SeedText(q)
  BY <1>1, CodeKept
<1>5. Swept /\ \A p \in Writable : Recorded(p)
  BY <1>1 DEF PersonsInv, PhaseInv
<1>6. ASSUME NEW p \in Writable PROVE Recorded(p)'
  <2>1. Recorded(p) /\ SeedOf(store', p) = SeedOf(store, p)
    BY <1>2, <1>5
  <2>2. Keeps(p)' <=> Keeps(p)
    BY <1>1, <1>4, <2>1 DEF Keeps
  <2>3. p \in DOMAIN store => p \in DOMAIN store' /\ store'[p].seed = store[p].seed
    BY <1>2, <2>1 DEF SeedOf
  <2> QED
    BY <1>1, <1>4, <2>1, <2>2, <2>3 DEF Recorded
<1>7. Docs' = Docs
  BY <1>1, <1>4 DEF Docs, SchemaOf
<1>8. machineOwnedKeys' = machineOwnedKeys
  BY <1>1, <1>2, <1>4 DEF machineOwnedKeys
<1>9. UpdateHashes(Docs, TRUE, machineOwnedKeys, store') = store'
  <2>1. FileInv /\ IsStore(store)
    BY DEF PersonsInv, HashInv
  <2> QED
    BY <1>2, <2>1, UpdatedTwice
<1>10. SettledInv'
  <2>1. Swept' /\ gen'.deleted = {}
    BY <1>1, <1>4, <1>5 DEF Swept, Idle
  <2> QED
    BY <1>4, <1>6, <1>7, <1>8, <1>9, <2>1 DEF SettledInv
<1> QED
  BY <1>2, <1>3, <1>10 DEF PersonsInv

LEMMA PersonsStep == PersonsInv /\ [Next]_vars => PersonsInv'
<1> SUFFICES ASSUME PersonsInv, [Next]_vars PROVE PersonsInv'
  OBVIOUS
<1>1. CASE StartGen \/ removeStaleGenerated \/ SaveSeeds \/ RecordBaselines \/ DieInGen \/ Build
  BY <1>1, StartGenStep, SweepStep, SaveSeedsStep, RecordBaselinesStep, DieInGenStep, BuildStep
<1>2. ASSUME NEW p \in Generated, WritePage(p) PROVE PersonsInv'
  BY <1>2, WritePageStep
<1>3. ASSUME NEW pages \in SUBSET Pages, AcceptBaselines(pages) PROVE PersonsInv'
  BY <1>3, AcceptStep
<1>4. ASSUME NEW m \in Modules, NEW text \in Sentences \cup {Silent, Gone}, EditCode(m, text)
      PROVE  PersonsInv'
  BY <1>4, EditCodeStep, PagesAreDistinct
<1>5. ASSUME NEW c \in Commands, NEW text \in Sentences \cup {Gone}, EditCode(c, text)
      PROVE  PersonsInv'
  <2>1. text # Silent /\ text \in Sentences \cup {Silent, Gone}
    BY TextsAreDistinct DEF Silent, Gone
  <2> QED
    BY <1>5, <2>1, EditCodeStep
<1>6. ASSUME NEW p \in Pages, NEW text \in Handwriting, Describe(p, text) PROVE PersonsInv'
  BY <1>6, DescribeStep
<1>7. ASSUME NEW p \in Essays, NEW body \in Bodies, EditBody(p, body) PROVE PersonsInv'
  BY <1>7, EditBodyStep
<1>8. ASSUME NEW m \in Modules, Claim(m) PROVE PersonsInv'
  BY <1>8, ClaimStep
<1>9. CASE UNCHANGED vars
  <2>1. /\ UNCHANGED <<code, claimed, file, store, gen, author, reviewed, settled, edits>>
        /\ edits \in Nat
    BY <1>9 DEF vars, PersonsInv, CodeInv
  <2>2. PhaseInv'
    BY <2>1, NothingWritten DEF PersonsInv, PhaseInv
  <2>3. SettledInv'
    BY <2>1, NothingWritten DEF PersonsInv, SettledInv
  <2> QED
    BY <2>1, <2>2, <2>3, NothingWritten DEF PersonsInv
<1> QED
  BY <1>1, <1>2, <1>3, <1>4, <1>5, <1>6, <1>7, <1>8, <1>9 DEF Next
-----------------------------------------------------------------------------
\* What the invariant is for.

LEMMA PersonsTypes == PersonsInv => TypeOK
<1> SUFFICES ASSUME PersonsInv PROVE TypeOK
  OBVIOUS
<1>1. \A p \in DOMAIN file : file[p].description \in Texts
  BY DEF PersonsInv, FileInv, IsPage
<1>2. \A p \in DOMAIN store : /\ store[p].description \in Texts \cup {Unknown}
                              /\ store[p].seed \in Texts \cup {Unknown}
  BY DEF PersonsInv, HashInv, IsStore, IsEntry, MachineTexts, Texts
<1> QED
  BY <1>1, <1>2 DEF TypeOK, PersonsInv, FileInv, HashInv, IsStore, CodeInv, PhaseInv

LEMMA PersonsQuiet == PersonsInv => ReviewedIsQuiet
<1> SUFFICES ASSUME PersonsInv, NEW p \in DOMAIN file, reviewed[p] = Measured(p)
             PROVE  p \notin Findings
  BY DEF ReviewedIsQuiet
<1>1. p \in Pages /\ reviewed[p] # Unjudged
  BY DEF PersonsInv, FileInv, Measured, Unjudged
<1>2. ~Differs(p)
  BY <1>1 DEF PersonsInv, JudgedInv
<1> QED
  BY <1>2, FindingsAre DEF PersonsInv

\* The findings of the pages that a person described.
LEMMA PersonsFindings ==
    ASSUME PersonsInv, NEW p \in Findings, author[p] = "person"
    PROVE  /\ p \in DOMAIN file /\ p \in Pages /\ p \in DOMAIN store
           /\ file[p].description \in Handwriting /\ file[p].description = store[p].description
           /\ Differs(p) /\ p \notin machineOwnedKeys
<1>1. p \in DOMAIN file /\ p \in Pages /\ Differs(p) /\ p \notin machineOwnedKeys
  BY FindingsAre DEF PersonsInv, FileInv
<1>2. p \in DOMAIN store /\ file[p].description = store[p].description
  BY <1>1 DEF Differs, CheckStaleness, CheckDrift, CheckSchemaDrift, Now, Entry
<1> QED
  BY <1>1, <1>2 DEF PersonsInv, AuthorInv

FindingsDiffer ==
    /\ machineOwnedKeys = {p \in DOMAIN file : p \in Generated /\ Machine(p)}
    /\ Findings = {p \in DOMAIN file : Differs(p)} \ machineOwnedKeys

LEMMA FindingsNext == FileInv' => FindingsDiffer'
<1>1. FileInv => FindingsDiffer
  BY FindingsAre DEF FindingsDiffer
<1> QED
  BY <1>1, PTL

\* While its description, what it documents and its entry stay, a finding stays,
\* unless the page is given the recorded body back.
LEMMA FindingStays ==
    ASSUME PersonsInv, PersonsInv', NEW p \in Findings, author[p] = "person",
           UNCHANGED <<code, claimed>>, p \in DOMAIN file',
           file'[p].description = file[p].description,
           file'[p].content = file[p].content \/ file'[p].content # store[p].content,
           p \in DOMAIN store', store'[p].content = store[p].content,
           store'[p].description = store[p].description,
           store'[p].source = store[p].source, store'[p].schema = store[p].schema
    PROVE  p \in Findings'
<1>1. /\ p \in DOMAIN file /\ p \in Pages /\ p \in DOMAIN store
      /\ file[p].description \in Handwriting /\ file[p].description = store[p].description
      /\ Differs(p)
  BY PersonsFindings
<1>2. SourceOf(p)' = SourceOf(p) /\ HelpOf(p)' = HelpOf(p)
  BY CodeKept
<1>3. /\ Now(p).content = file[p].content /\ Now(p)'.content = file'[p].content
      /\ Now(p).description = file[p].description /\ Now(p)'.description = file[p].description
      /\ Now(p)'.source = Now(p).source /\ Now(p)'.schema = Now(p).schema
  BY <1>2 DEF Now, Entry, SchemaOf
<1>4. Differs(p)'
  BY <1>1, <1>3 DEF Differs, CheckStaleness, CheckDrift, CheckSchemaDrift
<1>5. ~Machine(p)'
  <2>1. file[p].description \notin MachineTexts /\ file[p].description # Unknown
    BY <1>1, TextsAreDistinct DEF MachineTexts, Texts
  <2>2. SeedOf(store', p) \in MachineTexts \cup {Unknown}
    BY DEF PersonsInv, HashInv, IsStore, IsEntry, SeedOf
  <2>3. HelpOf(p) \in MachineTexts \cup {Unknown}
    BY DEF PersonsInv, CodeInv, HelpOf, Exists, MachineTexts
  <2> QED
    BY <1>2, <2>1, <2>2, <2>3 DEF Machine, IsMachineOwned, MachineTexts
<1>6. FindingsDiffer'
  BY FindingsNext DEF PersonsInv
<1> QED
  BY <1>4, <1>5, <1>6 DEF FindingsDiffer

\* What becomes of one finding in one step.
Outlasts(p) ==
    \/ p \in Findings'
    \/ p \notin DOMAIN file'
    \/ edits' # edits
    \/ reviewed'[p] # reviewed[p]
    \/ file'[p].content = store[p].content /\ file[p].content # store[p].content

LEMMA FindingOutlastsGen ==
    ASSUME PersonsInv, PersonsInv', NEW p \in Findings, author[p] = "person",
           removeStaleGenerated \/ SaveSeeds \/ \E q \in Generated : WritePage(q)
    PROVE  Outlasts(p)
<1>1. /\ p \in DOMAIN file /\ p \in Pages /\ p \in DOMAIN store
      /\ file[p].description \in Handwriting
  BY PersonsFindings
<1>2. CASE removeStaleGenerated
  <2>1. /\ UNCHANGED <<code, claimed, store>>
        /\ \A q \in DOMAIN file' : file'[q] = file[q]
    BY <1>2 DEF removeStaleGenerated, Restrict
  <2> QED
    BY <1>1, <2>1, FindingStays DEF Outlasts
<1>3. CASE SaveSeeds
  <2> DEFINE seeded == {q \in Writable : file[q].seeded}
             kept == DOMAIN store \ gen.deleted
  <2>1. /\ UNCHANGED <<code, claimed, file>> /\ p \notin gen.deleted
    BY <1>1, <1>3 DEF SaveSeeds, PersonsInv, PhaseInv
  <2>2. p \in kept /\ p \in DOMAIN store'
    BY <1>1, <1>3, <2>1, SeedsAre
  <2>3. /\ store'[p].content = store[p].content /\ store'[p].source = store[p].source
        /\ store'[p].schema = store[p].schema /\ store'[p].description = store[p].description
    BY <1>3, <2>2, SeedsAre DEF Entry
  <2> QED
    BY <1>1, <2>1, <2>2, <2>3, FindingStays DEF Outlasts
<1>4. ASSUME NEW q \in Generated, WritePage(q) PROVE Outlasts(p)
  <2>1. /\ file' = [r \in DOMAIN file \cup {q} |-> IF r = q THEN PageContent(q) ELSE file[r]]
        /\ UNCHANGED <<code, claimed, store>> /\ q \in gen.todo
    BY <1>4 DEF WritePage, IsNext
  <2>2. p # q => file'[p] = file[p]
    BY <1>1, <2>1
  <2>3. p = q => file'[p].description = file[p].description
    <3> SUFFICES ASSUME p = q PROVE file'[p].description = file[p].description
      OBVIOUS
    <3>1. ~Machine(p)
      BY <1>1, HandwritingIsNoMachines DEF Machine
    <3>2. Keeps(p)
      BY <1>1, <3>1, KeepsAre
    <3> QED
      BY <2>1, <3>2 DEF PageContent
  <2> QED
    BY <1>1, <2>1, <2>2, <2>3, FindingStays DEF Outlasts
<1> QED
  BY <1>2, <1>3, <1>4

LEMMA FindingOutlastsPasses ==
    ASSUME PersonsInv, PersonsInv', NEW p \in Findings, author[p] = "person",
           RecordBaselines \/ Build
    PROVE  Outlasts(p)
<1>1. /\ p \in DOMAIN file /\ p \in Pages /\ p \in DOMAIN store
      /\ file[p].description = store[p].description
      /\ Differs(p) /\ p \notin machineOwnedKeys
  BY PersonsFindings
<1>2. UNCHANGED <<code, claimed, file, author, reviewed, edits>>
  BY DEF RecordBaselines, Build
<1>3. SUFFICES p \in DOMAIN store' /\ store'[p].content = store[p].content
               /\ store'[p].description = store[p].description
               /\ store'[p].source = store[p].source /\ store'[p].schema = store[p].schema
  BY <1>1, <1>2, FindingStays DEF Outlasts
<1>4. CASE RecordBaselines
  <2>1. IsUpdate(store, TRUE, machineOwnedKeys, store') /\ DOMAIN store' = DOMAIN store \cup DOMAIN file
    BY <1>2, <1>4, PassKeeps DEF RecordBaselines
  <2>2. Reports(store, p, TRUE)
    BY <1>1 DEF Reports, Differs, Now, Fresh
  <2> QED
    BY <1>1, <2>1, <2>2 DEF IsUpdate
<1>5. CASE Build
  <2>1. IsUpdate(store, FALSE, {}, store') /\ DOMAIN store' = DOMAIN store \cup DOMAIN file
    BY <1>2, <1>5, PassKeeps DEF Build
  <2>2. CASE Reports(store, p, FALSE)
    BY <1>1, <2>1, <2>2 DEF IsUpdate
  <2>3. CASE ~Reports(store, p, FALSE)
    <3> DEFINE fresh == Fresh(p, FALSE)
               next == Advanced(store, p, fresh)
    <3>1. store'[p] = next /\ p \in DOMAIN store'
      BY <1>1, <2>1, <2>3 DEF IsUpdate
    <3>2. fresh.source = Unknown /\ fresh.schema = Unknown /\ fresh.content = file[p].content
          /\ fresh.description = file[p].description
      BY DEF Fresh, Entry
    <3>3. file[p].content = store[p].content
      BY <1>1, <2>3, <3>2 DEF Reports, CheckStaleness
    <3>4. /\ next.content = file[p].content /\ next.description = file[p].description
          /\ next.source = store[p].source /\ next.schema = store[p].schema
      BY <1>1, <3>2, AdvancedEntry DEF PersonsInv, HashInv
    <3> QED
      BY <1>1, <3>1, <3>3, <3>4
  <2> QED
    BY <2>2, <2>3
<1> QED
  BY <1>4, <1>5

LEMMA FindingOutlastsAccept ==
    ASSUME PersonsInv, PersonsInv', NEW p \in Findings, author[p] = "person",
           NEW pages, AcceptBaselines(pages)
    PROVE  Outlasts(p)
<1>1. p \in DOMAIN file /\ p \in Pages /\ p \in DOMAIN store
  BY PersonsFindings
<1>2. /\ reviewed' = [q \in Pages |-> IF q \in pages THEN Measured(q) ELSE reviewed[q]]
      /\ UNCHANGED <<code, claimed, file>>
  BY DEF AcceptBaselines
<1>3. CASE p \in pages
  BY <1>1, <1>2, <1>3, PersonsQuiet DEF ReviewedIsQuiet, Outlasts
<1>4. CASE p \notin pages
  <2>1. p \in DOMAIN store' /\ store'[p] = store[p]
    BY <1>1, <1>4, AcceptedAt
  <2> QED
    BY <1>1, <1>2, <2>1, FindingStays DEF Outlasts
<1> QED
  BY <1>3, <1>4

LEMMA FindingsOutlast ==
    PersonsInv /\ PersonsInv' /\ [Next]_vars => \A p \in {q \in Findings : author[q] = "person"} : Outlasts(p)
<1> SUFFICES ASSUME PersonsInv, PersonsInv', [Next]_vars, NEW p \in Findings, author[p] = "person"
             PROVE  Outlasts(p)
  OBVIOUS
<1>1. p \in DOMAIN file /\ p \in Pages /\ p \in DOMAIN store
  BY PersonsFindings
<1>2. ASSUME edits' = edits + 1 PROVE Outlasts(p)
  BY <1>2 DEF Outlasts, PersonsInv, CodeInv
<1>3. ASSUME UNCHANGED <<code, claimed, file, store>> PROVE Outlasts(p)
  BY <1>1, <1>3, FindingStays DEF Outlasts
<1>4. CASE StartGen
  BY <1>3, <1>4 DEF StartGen
<1>5. CASE UNCHANGED vars
  BY <1>3, <1>5 DEF vars
<1>6. CASE DieInGen
  BY <1>2, <1>6 DEF DieInGen
<1>7. ASSUME \/ \E m \in Modules : \E t \in Sentences \cup {Silent, Gone} : EditCode(m, t)
             \/ \E c \in Commands : \E t \in Sentences \cup {Gone} : EditCode(c, t)
             \/ \E q \in Pages : \E t \in Handwriting : Describe(q, t)
             \/ \E q \in Essays : \E b \in Bodies : EditBody(q, b)
             \/ \E m \in Modules : Claim(m)
      PROVE  Outlasts(p)
  BY <1>2, <1>7 DEF EditCode, Describe, EditBody, Claim
<1> QED
  BY <1>4, <1>5, <1>6, <1>7, FindingOutlastsGen, FindingOutlastsPasses, FindingOutlastsAccept DEF Next

LEMMA HandwritingOutlasts ==
    PersonsInv /\ [Next]_vars =>
      \A p \in Pages :
        author[p] = "person" /\ p \in DOMAIN file /\ p \in DOMAIN file' /\ gen.phase # "idle"
          => file'[p].description = file[p].description
<1> SUFFICES ASSUME PersonsInv, [Next]_vars, NEW p \in Pages, author[p] = "person",
                    p \in DOMAIN file, p \in DOMAIN file', gen.phase # "idle"
             PROVE  file'[p].description = file[p].description
  OBVIOUS
<1>1. CASE file' = file
  BY <1>1
<1>2. CASE removeStaleGenerated
  BY <1>2 DEF removeStaleGenerated, Restrict
<1>3. ASSUME NEW q \in Generated, WritePage(q)
      PROVE  file'[p].description = file[p].description
  <2>1. file' = [r \in DOMAIN file \cup {q} |-> IF r = q THEN PageContent(q) ELSE file[r]]
    BY <1>3 DEF WritePage
  <2>2. CASE p = q
    <3>1. file[p].description \in Handwriting
      BY DEF PersonsInv, AuthorInv
    <3>2. Keeps(p)
      BY <2>2, <3>1, HandwritingIsNoMachines, KeepsAre DEF Machine
    <3> QED
      BY <2>1, <2>2, <3>2 DEF PageContent
  <2> QED
    BY <2>1, <2>2
<1> QED
  BY <1>1, <1>2, <1>3
     DEF Next, vars, StartGen, SaveSeeds, RecordBaselines, DieInGen, Build, AcceptBaselines,
         MayEdit, EditCode, Describe, EditBody, Claim

LEMMA SettledRests == PersonsInv /\ [Next]_vars => (settled /\ settled' => UNCHANGED <<file, store>>)
<1> SUFFICES ASSUME PersonsInv, [Next]_vars, settled, settled' PROVE UNCHANGED <<file, store>>
  OBVIOUS
<1>1. (\A p \in Writable : Recorded(p)) /\ Swept /\ UpdateHashes(Docs, TRUE, machineOwnedKeys, store) = store
  BY DEF PersonsInv, SettledInv
<1>2. CASE removeStaleGenerated
  <2>1. {p \in DOMAIN file \ Writable : file[p].generated} = {}
    BY <1>1 DEF PersonsInv, FileInv, Swept
  <2>2. file' = Restrict(file, DOMAIN file) /\ store' = store
    BY <1>2, <2>1 DEF removeStaleGenerated, Writable
  <2> QED
    BY <2>2 DEF Restrict, PersonsInv, FileInv
<1>3. CASE SaveSeeds
  BY <1>3, SeedsRest DEF SaveSeeds
<1>4. CASE RecordBaselines
  BY <1>1, <1>4 DEF RecordBaselines
<1>5. ASSUME NEW p \in Generated, WritePage(p) PROVE UNCHANGED <<file, store>>
  <2>1. /\ file' = [q \in DOMAIN file \cup {p} |-> IF q = p THEN PageContent(p) ELSE file[q]]
        /\ store' = store /\ p \in gen.todo
    BY <1>5 DEF WritePage, IsNext
  <2>2. p \in Writable
    BY <2>1 DEF PersonsInv, PhaseInv
  <2>3. p \in DOMAIN file /\ file[p] = PageContent(p)
    BY <1>1, <2>2, RecordedRests DEF Recorded
  <2> QED
    BY <2>1, <2>3 DEF PersonsInv, FileInv
<1> QED
  BY <1>2, <1>3, <1>4, <1>5
     DEF Next, vars, StartGen, DieInGen, Build, AcceptBaselines, EditCode, Describe, EditBody, Claim

\* What a person wrote survives every gen, what a person has to look at stays
\* reported until somebody acts on it, what was judged as it stands is not
\* reported, and a gen that follows one that ended well changes nothing: with any
\* number of modules, commands, pages, edits and gens that die on the way
\* (internal/staleness, internal/ownership, and gen and check in internal/page).
THEOREM PersonsAlwaysDecide == Spec => PersonsDecide
<1>1. PersonsInv => TypeOK /\ ReviewedIsQuiet
  BY PersonsTypes, PersonsQuiet
<1>2. PersonsInv /\ [Next]_vars =>
        [\A p \in Pages :
           author[p] = "person" /\ p \in DOMAIN file /\ p \in DOMAIN file' /\ gen.phase # "idle"
             => file'[p].description = file[p].description]_vars
  BY HandwritingOutlasts
<1>3. PersonsInv /\ PersonsInv' /\ [Next]_vars =>
        [\A p \in {q \in Findings : author[q] = "person"} :
           \/ p \in Findings'
           \/ p \notin DOMAIN file'
           \/ edits' # edits
           \/ reviewed'[p] # reviewed[p]
           \/ file'[p].content = store[p].content /\ file[p].content # store[p].content]_vars
  BY FindingsOutlast DEF Outlasts
<1>4. PersonsInv /\ [Next]_vars => [settled /\ settled' => UNCHANGED <<file, store>>]_vars
  BY SettledRests
<1> QED
  BY <1>1, <1>2, <1>3, <1>4, PersonsInit, PersonsStep, PTL
     DEF Spec, PersonsDecide, HandwritingSurvives, FindingsStick, GenIsIdempotent
=============================================================================
