------------------------------- MODULE GenCommands -------------------------------
(* The two commands that write files outside the documentation pages and then *)
(* commit them (internal/cli gen and gen-data): the root files, generated     *)
(* from templates over files a person may own, and the data files, written by *)
(* sandboxed scripts that may fail one after the other.                       *)
EXTENDS Naturals, Sequences, FiniteSets

(* AutoCommit (internal/gitcommit): how a command commits the files it wrote. *)
(* It asks git about every file, then adds and commits the ones that need it, *)
(* each of them a child process that may fail or time out, in a repository    *)
(* whose owner edits, stages and ignores files at any moment.                 *)

CONSTANTS
  Files,       \* paths of the repository, in and out of a command's list
  Absent,      \* no file
  MaxSteps     \* bound on what happens to the repository

VARIABLES
  work,      \* the working tree
  index,     \* the staged content, Absent for an untracked file
  head,      \* the committed content
  ignored,   \* what the ignore rules match
  commit,    \* the AutoCommit that is running
  outcome,   \* what the last command answered
  asked,     \* history: the files the last AutoCommit was given and could ask about
  touched,   \* history: files staged by hand or by a commit that failed then, and
             \* files edited while a commit was running
  steps

gitVars == <<work, index, head, ignored, commit, outcome, asked, touched, steps>>

NoCommit == [phase |-> "none", files |-> {}]

Tracked(f) == index[f] # Absent

(* What git check-ignore matches: rules govern untracked files only.          *)
GitIgnores(f) == f \in ignored /\ ~Tracked(f)

(* classify: a tracked file that is gone or differs from the index, and an    *)
(* untracked one that exists.                                                 *)
classify(f) ==
  IF Tracked(f)
  THEN work[f] = Absent \/ work[f] # index[f]
  ELSE work[f] # Absent

(* The files a commit takes: those that could be asked about and need it.     *)
Committable(named, unasked) == {f \in named \ unasked : classify(f) /\ ~GitIgnores(f)}

(* A command names the files it wrote; with nothing to commit it is done.     *)
(* unasked are the files whose probe timed out.                               *)
AutoCommit(named, unasked) ==
  /\ commit = NoCommit
  /\ LET files == Committable(named, unasked)
     IN IF files = {}
        THEN commit' = NoCommit /\ outcome' = "nothing to commit"
        ELSE /\ commit' = [phase |-> "add", files |-> files]
             /\ outcome' = "running"
  /\ asked' = named \ unasked
  /\ UNCHANGED <<work, index, head, ignored, touched>>

Taken(tree) == [f \in Files |-> IF f \in commit.files THEN work[f] ELSE tree[f]]

Succeeds ==
  /\ head' = Taken(head) /\ index' = Taken(index)
  /\ outcome' = "committed"
  /\ touched' = touched \ commit.files

(* rlsbl or safegit, when installed, commit the named files in one command.   *)
DelegateCommit ==
  /\ commit.phase = "add"
  /\ \/ Succeeds
     \/ outcome' = "failed" /\ UNCHANGED <<head, index, touched>>
  /\ commit' = NoCommit
  /\ UNCHANGED <<work, ignored, asked, steps>>

(* plainGitCommit: git add, then git commit of the same paths.                *)
GitAdd ==
  /\ commit.phase = "add"
  /\ \/ /\ index' = Taken(index)
        /\ commit' = [commit EXCEPT !.phase = "commit"]
        /\ UNCHANGED outcome
     \/ /\ commit' = NoCommit /\ outcome' = "failed"
        /\ UNCHANGED index
  /\ UNCHANGED <<work, head, ignored, asked, touched, steps>>

(* git commit takes the named paths from the working tree and leaves what     *)
(* else is staged alone; a hook may refuse it, and what was added stays added.*)
GitCommitPaths ==
  /\ commit.phase = "commit"
  /\ \/ Succeeds
     \/ /\ outcome' = "failed"
        /\ touched' = touched \cup commit.files
        /\ UNCHANGED <<head, index>>
  /\ commit' = NoCommit
  /\ UNCHANGED <<work, ignored, asked, steps>>

(* The owner of the repository, at any moment.                                *)
WriteFile(f, v) ==
  /\ steps < MaxSteps
  /\ v # work[f]
  /\ work' = [work EXCEPT ![f] = v]
  /\ touched' = IF commit = NoCommit THEN touched ELSE touched \cup {f}
  /\ steps' = steps + 1
  /\ UNCHANGED <<index, head, ignored, commit, outcome, asked>>

StageByHand(f) ==
  /\ steps < MaxSteps
  /\ work[f] # index[f]
  /\ index' = [index EXCEPT ![f] = work[f]]
  /\ touched' = touched \cup {f}
  /\ steps' = steps + 1
  /\ UNCHANGED <<work, head, ignored, commit, outcome, asked>>

-------------------------------------------------------------------------------
CONSTANTS
  RootFiles,       \* the declared entries: a sequence of sets of outputs
  Scripts,         \* the declared scripts: a sequence of outputs
  PreviousOutput,  \* the root CLAUDE.md an earlier selfdoc generated
  Renderings,      \* what the templates can resolve to
  Handwritten,     \* a file a person wrote, without the generated header
  Ignorable,       \* files the ignore rules may match
  Data             \* what a script can leave at its output

RootOutputs == UNION {RootFiles[i] : i \in 1 .. Len(RootFiles)}
DataOutputs == {Scripts[i] : i \in 1 .. Len(Scripts)}

Versions == Renderings \cup {Handwritten} \cup Data

ASSUME EntriesAreDisjoint ==
  /\ \A i, j \in 1 .. Len(RootFiles) : i # j => RootFiles[i] \cap RootFiles[j] = {}
  /\ RootOutputs \cap DataOutputs = {}
  /\ RootOutputs \cup DataOutputs \cup {PreviousOutput} \subseteq Files

(* A handwritten file is one without the generated header.                     *)
ASSUME HandworkHasNoHeader == Handwritten \notin Renderings \cup {Absent}

VARIABLES
  templates,  \* what the templates resolve to now
  run         \* the command that is running: which, its next entry, what it wrote

cmdVars == <<gitVars, templates, run>>

NoRun == [cmd |-> "none", next |-> 0, wrote |-> {}]

HasGeneratedHeader(f) == work[f] \in Renderings

(* Before anything is written: no generated file where an earlier version put *)
(* one, and no output that git ignores, which could never be committed.       *)
RootFileOutputPreconditions ==
  /\ ~HasGeneratedHeader(PreviousOutput)
  /\ \A f \in RootOutputs : ~GitIgnores(f)

Stops(answer) == run' = NoRun /\ outcome' = answer

cmdGen ==
  /\ run = NoRun /\ commit = NoCommit /\ steps < MaxSteps
  /\ steps' = steps + 1
  /\ IF RootFileOutputPreconditions
     THEN run' = [cmd |-> "gen", next |-> 1, wrote |-> {}] /\ outcome' = "running"
     ELSE Stops("refused")
  /\ UNCHANGED <<work, index, head, ignored, commit, asked, touched, templates>>

(* Mutant: takes every tracked file for one of its own.                       *)
OwnedUntracked(f) == work[f] # Absent /\ ~HasGeneratedHeader(f) /\ ~Tracked(f)

Owned(f) == work[f] # Absent /\ ~HasGeneratedHeader(f)

(* One entry: a handwritten file at any of its outputs refuses it before it   *)
(* writes the first one; what earlier entries wrote stays written.  A         *)
(* template that is missing or does not resolve stops the command as well.    *)
GenerateRootFile ==
  /\ run.cmd = "gen" /\ run.next \in 1 .. Len(RootFiles)
  /\ LET outputs == RootFiles[run.next]
     IN \/ /\ ~\E f \in outputs : Owned(f)
           /\ work' = [f \in Files |-> IF f \in outputs THEN templates ELSE work[f]]
           /\ run' = [run EXCEPT !.next = @ + 1, !.wrote = @ \cup outputs]
           /\ UNCHANGED outcome
        \/ /\ \E f \in outputs : Owned(f)
           /\ Stops("refused")
           /\ UNCHANGED work
        \/ Stops("failed") /\ UNCHANGED work
  /\ UNCHANGED <<index, head, ignored, commit, asked, touched, templates, steps>>

(* GenerateData: every declaration and the sandbox are checked first.         *)
cmdGenData ==
  /\ run = NoRun /\ commit = NoCommit /\ steps < MaxSteps
  /\ Scripts # <<>>
  /\ steps' = steps + 1
  /\ \/ run' = [cmd |-> "gen-data", next |-> 1, wrote |-> {}] /\ outcome' = "running"
     \/ Stops("refused")
  /\ UNCHANGED <<work, index, head, ignored, commit, asked, touched, templates>>

(* A script exits, times out or leaves a file that does not parse; whatever   *)
(* it left at its output stays there.                                         *)
RunScript ==
  /\ run.cmd = "gen-data" /\ run.next \in 1 .. Len(Scripts)
  /\ LET output == Scripts[run.next]
     IN \E d \in Data \cup {work[output]} :
          /\ work' = [work EXCEPT ![output] = d]
          /\ \/ /\ d # Absent
                /\ run' = [run EXCEPT !.next = @ + 1, !.wrote = @ \cup {output}]
                /\ UNCHANGED outcome
             \/ Stops("failed")
  /\ UNCHANGED <<index, head, ignored, commit, asked, touched, templates, steps>>

(* The end of either command: the commit of everything it wrote.              *)
CommitWhatWasWritten ==
  /\ \/ run.cmd = "gen" /\ run.next = Len(RootFiles) + 1
     \/ run.cmd = "gen-data" /\ run.next = Len(Scripts) + 1
  /\ \E unasked \in SUBSET run.wrote : AutoCommit(run.wrote, unasked)
  /\ run' = NoRun
  /\ UNCHANGED <<templates, steps>>

EditTemplates(r) ==
  /\ steps < MaxSteps
  /\ r # templates
  /\ templates' = r
  /\ steps' = steps + 1
  /\ UNCHANGED <<work, index, head, ignored, commit, outcome, asked, touched, run>>

CmdInit ==
  /\ work \in [Files -> {Absent, Handwritten} \cup Renderings]
  /\ \A f \in DataOutputs : work[f] = Absent
  /\ index = work /\ head = work
  /\ ignored \in SUBSET Ignorable
  /\ commit = NoCommit
  /\ outcome = "none"
  /\ asked = {} /\ touched = {}
  /\ steps = 0
  /\ templates \in Renderings
  /\ run = NoRun

CmdNext ==
  \/ cmdGen \/ GenerateRootFile \/ cmdGenData \/ RunScript \/ CommitWhatWasWritten
  \/ (DelegateCommit \/ GitAdd \/ GitCommitPaths) /\ UNCHANGED <<templates, run>>
  \/ \E f \in Files :
       /\ \/ \E v \in {Handwritten, Absent} : WriteFile(f, v)
          \/ StageByHand(f)
       /\ UNCHANGED <<templates, run>>
  \/ \E r \in Renderings : EditTemplates(r)

CmdSpec == CmdInit /\ [][CmdNext]_cmdVars

-------------------------------------------------------------------------------
(* Properties.                                                                *)

CmdTypeOK ==
  /\ work \in [Files -> Versions \cup {Absent}]
  /\ index \in [Files -> Versions \cup {Absent}]
  /\ head \in [Files -> Versions \cup {Absent}]
  /\ commit.phase \in {"none", "add", "commit"}
  /\ commit.files \subseteq asked
  /\ asked \subseteq RootOutputs \cup DataOutputs
  /\ run.wrote \subseteq Files

(* A commit carries files its command named and nothing else: what the owner  *)
(* staged of other files stays staged and stays uncommitted.                  *)
OnlyNamedFilesAreCommitted ==
  [][\A f \in Files : head'[f] # head[f] =>
        f \in asked /\ head'[f] = work[f]]_cmdVars

(* A file a person put at a root output after it was adopted or before is not *)
(* overwritten by any later gen, and one such file keeps every output of its  *)
(* entry as it was (rootfiles.go: raised before any output of that entry is   *)
(* written).                                                                  *)
HandworkSurvives ==
  [][\A i \in 1 .. Len(RootFiles) :
       (\E f \in RootFiles[i] : work[f] = Handwritten) /\ run.cmd = "gen" /\ steps' = steps
         => \A f \in RootFiles[i] : work'[f] = work[f]]_cmdVars

Success == {"committed", "nothing to commit"}

(* When gen exits with success, each root file it wrote and could ask git     *)
(* about is committed as it stands; only files that were staged by hand, or   *)
(* by a commit that failed, or edited meanwhile may be left (rootfiles.go: the commit that should *)
(* carry it would pass over it in silence).                                   *)
SuccessMeansCommitted ==
  [][outcome' \in Success /\ outcome \notin Success =>
       \A f \in (asked' \cap RootOutputs) \ touched : head'[f] = work[f]]_cmdVars

(* An automatic commit takes what the command wrote, all of it and nothing    *)
(* that is somebody else's (gitcommit and its callers).                       *)
CommitsAreTheCommands ==
  []CmdTypeOK /\ OnlyNamedFilesAreCommitted /\ HandworkSurvives /\ SuccessMeansCommitted
===============================================================================
