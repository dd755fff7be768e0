------------------------------- MODULE Effects -------------------------------
(* What a command's handle does to the files (internal/effects): live, every   *)
(* operation is carried out; under --dry-run it is recorded and the files are  *)
(* only read.  A run is a sequence of operations, taken both ways at once.     *)
EXTENDS Naturals, Sequences, FiniteSets, SequencesExt, FiniteSetsExt, Functions, TLAPS

CONSTANTS
  Names,    \* names of directory entries
  Written,   \* what writes are made of
  Absent,   \* model value: no file there
  Dir,      \* model value: a directory
  Starts,   \* the trees runs begin with
  MaxOps    \* bound on the operations of a run

Paths == UNION {[1 .. n -> Names] : n \in 1 .. 2}
Contents == {<<piece>> : piece \in Written}

VARIABLES
  disk,      \* [Paths -> Absent, Dir or a sequence of pieces] before the run
  meant,     \* what the live run has made of it
  replayed,  \* what carrying out the recorded lines would make of it
  touched,   \* the paths the run's operations have changed so far
  reach,     \* the paths they have looked at after an earlier one changed them
  refused,   \* the live run has failed
  declined,  \* the preview has failed
  ops        \* how many operations so far

effectVars == <<disk, meant, replayed, touched, reach, refused, declined, ops>>

Under(path) == {p \in Paths : IsPrefix(path, p)}
Exists(tree, path) == tree[path] # Absent
IsFile(tree, path) == tree[path] \notin {Absent, Dir}
HasParent(tree, path) == Len(path) = 1 \/ tree[Front(path)] = Dir

(* A tree is one a file system can hold.                                       *)
Trees == {tree \in [Paths -> Contents \cup {Absent, Dir}] :
            \A path \in Paths : Exists(tree, path) => HasParent(tree, path)}

-------------------------------------------------------------------------------
(* Changes of a tree.                                                          *)
Put(tree, path, content) == [tree EXCEPT ![path] = content]
Cleared(tree, path) == [p \in Paths |-> IF p \in Under(path) THEN Absent ELSE tree[p]]
MadeDirs(tree, path) ==
  [p \in Paths |-> IF IsPrefix(p, path) THEN Dir ELSE tree[p]]
(* What lies under from, as it lies under to; what goes too deep is left out.  *)
Grafted(tree, from, to) ==
  [p \in Paths |->
     IF p \in Under(to) /\ from \o SubSeq(p, Len(to) + 1, Len(p)) \in Paths
        /\ Exists(tree, from \o SubSeq(p, Len(to) + 1, Len(p)))
     THEN tree[from \o SubSeq(p, Len(to) + 1, Len(p))] ELSE tree[p]]

(* Lines of the would-do log, and what carrying one out does.                  *)
LineWrite(path, content) == [verb |-> "write", path |-> path, to |-> path, content |-> content]
LineOf(verb, path) == [verb |-> verb, path |-> path, to |-> path, content |-> <<>>]
LineRename(path, to) == [verb |-> "rename", path |-> path, to |-> to, content |-> <<>>]
CarriedOut(tree, line) ==
  CASE line.verb = "write"  -> Put(tree, line.path, line.content)
    [] line.verb = "mkdir"  -> MadeDirs(tree, line.path)
    [] line.verb = "remove" -> Cleared(tree, line.path)
    [] line.verb = "rename" -> Cleared(Grafted(tree, line.path, line.to), line.path)
Replay(tree, lines) == FoldLeft(CarriedOut, tree, lines)

-------------------------------------------------------------------------------
(* One operation: what it does to a tree or "refuses", what it records given   *)
(* the files as they are or "declines", and the paths it looks at.             *)
Appended(tree, path, content) ==
  IF IsFile(tree, path) THEN tree[path] \o content ELSE content

(* The line carries the file as it is read when the writer is closed.          *)
RecordedAppend(path, content) == Appended(disk, path, content)

Writable(tree, path) == HasParent(tree, path) /\ tree[path] # Dir
Makeable(tree, path) == \A p \in Paths : IsPrefix(p, path) => ~IsFile(tree, p)

(* Write, AtomicWrite, OpenWrite                                               *)
OpWrite(path, content) ==
  [may |-> Writable(meant, path), does |-> Put(meant, path, content),
   records |-> <<LineWrite(path, content)>>, tells |-> TRUE, at |-> Under(path)]
OpAppend(path, content) ==
  [may |-> Writable(meant, path), does |-> Put(meant, path, Appended(meant, path, content)),
   records |-> <<LineWrite(path, RecordedAppend(path, content))>>, tells |-> TRUE,
   at |-> Under(path)]
(* Mkdir and MkdirAll                                                          *)
OpMkdir(path, existOK) ==
  [may |-> Makeable(meant, path) /\ (existOK \/ ~Exists(meant, path)),
   does |-> MadeDirs(meant, path), records |-> <<LineOf("mkdir", path)>>, tells |-> TRUE,
   at |-> {p \in Paths : IsPrefix(p, path)}]
(* Remove, Rmdir: a file, or an empty directory.                               *)
OpRemove(path) ==
  [may |-> Exists(meant, path) /\ \A p \in Under(path) \ {path} : ~Exists(meant, p),
   does |-> Cleared(meant, path), records |-> <<LineOf("remove", path)>>, tells |-> TRUE,
   at |-> Under(path)]
(* RmTree, and with missingOK RmTreeIgnoreErrors and, of files, RemoveIfExists *)
OpRmTree(path, missingOK) ==
  [may |-> missingOK \/ Exists(meant, path), does |-> Cleared(meant, path),
   records |-> <<LineOf("remove", path)>>, tells |-> TRUE, at |-> Under(path)]
(* A file takes the place of one that is there.                                *)
OpRename(path, to) ==
  [may |-> Exists(meant, path) /\ HasParent(meant, to) /\ to \notin Under(path)
           /\ IF IsFile(meant, path) THEN meant[to] # Dir
              ELSE ~Exists(meant, to) /\ Len(to) <= Len(path),
   does |-> Cleared(Grafted(meant, path, to), path),
   records |-> <<LineRename(path, to)>>, tells |-> TRUE, at |-> Under(path) \cup Under(to)]
(* CopyFile reads its source whether or not it records the write.              *)
OpCopyFile(path, to) ==
  [may |-> IsFile(meant, path) /\ Writable(meant, to),
   does |-> Put(meant, to, meant[path]),
   records |-> <<LineWrite(to, disk[path])>>, tells |-> IsFile(disk, path),
   at |-> Under(path) \cup Under(to)]
(* CopyTree walks the source in name order: a directory before its entries.    *)
CopyLines(path, to) ==
  LET within == {p \in Paths : p \in Under(path) /\ Exists(disk, p)
                               /\ to \o SubSeq(p, Len(path) + 1, Len(p)) \in Paths}
      lineOf(p) == LET target == to \o SubSeq(p, Len(path) + 1, Len(p))
                   IN IF disk[p] = Dir THEN LineOf("mkdir", target) ELSE LineWrite(target, disk[p])
  IN [i \in 1 .. Cardinality(within) |->
        lineOf(SetToSortSeq(within, LAMBDA p, q : Len(p) < Len(q))[i])]
MayCopyTo(to, existOK) == existOK \/ ~Exists(disk, to)
OpCopyTree(path, to, existOK) ==
  [may |-> /\ meant[path] = Dir /\ Makeable(meant, to) /\ (existOK \/ ~Exists(meant, to))
           /\ Len(to) = Len(path) /\ to # path
           /\ LET copied == Grafted(meant, path, to)
              IN \A p \in Paths : meant[p] = copied[p] \/ (meant[p] # Dir /\ copied[p] # Dir)
                                 \/ ~Exists(meant, p),
   does |-> Grafted(MadeDirs(meant, to), path, to),
   records |-> CopyLines(path, to),
   tells |-> disk[path] = Dir /\ MayCopyTo(to, existOK),
   at |-> Under(path) \cup Under(to)]

(* A declared read: it runs for real both ways (Read).                         *)
OpRead(path) ==
  [may |-> TRUE, does |-> meant, records |-> <<>>, tells |-> TRUE, at |-> Under(path)]

-------------------------------------------------------------------------------
EffectsInit ==
  /\ disk \in Starts \cap Trees /\ meant = disk /\ replayed = disk
  /\ touched = {} /\ reach = {} /\ refused = FALSE /\ declined = FALSE /\ ops = 0

Perform(op) ==
  /\ ops < MaxOps /\ ~refused /\ ~declined /\ ops' = ops + 1
  /\ refused' = ~op.may /\ declined' = ~op.tells
  /\ meant' = IF op.may THEN op.does ELSE meant
  /\ replayed' = IF op.tells THEN Replay(replayed, op.records) ELSE replayed
  /\ reach' = reach \cup (op.at \cap touched)
  /\ touched' = touched \cup {p \in Paths : meant'[p] # meant[p]}
  /\ UNCHANGED disk

EffectsNext ==
  \E path \in Paths :
    \/ \E content \in Contents : Perform(OpWrite(path, content)) \/ Perform(OpAppend(path, content))
    \/ Perform(OpRemove(path)) \/ Perform(OpRead(path))
    \/ \E ok \in BOOLEAN : Perform(OpMkdir(path, ok)) \/ Perform(OpRmTree(path, ok))
    \/ \E to \in Paths : \/ Perform(OpRename(path, to)) \/ Perform(OpCopyFile(path, to))
                         \/ \E ok \in BOOLEAN : Perform(OpCopyTree(path, to, ok))

-------------------------------------------------------------------------------
(* As long as no operation looks at what an earlier one of the run changed, the *)
(* lines a preview records describe what the run does: carried out, they leave  *)
(* the files as the live run does.                                             *)
PreviewIsTheRun == reach = {} /\ ~refused /\ ~declined => replayed = meant

(* A preview declines nothing the live run would have done.                     *)
PreviewsGoAsFar == reach = {} /\ declined => refused

-------------------------------------------------------------------------------
(* How a file is rewritten (internal/effects): in place, or by a sibling that  *)
(* is renamed over it; by several writers at once, on a disk that may be full, *)
(* in processes that may be killed.                                            *)

CONSTANTS
  Writers,   \* who writes
  NoFile,    \* model value: there is none
  Torn       \* model value: part of a content

ASSUME WritersAssumption == NoFile \notin Writers

Versions == Writers \cup {"before"}
ModeDefault == "default"

VARIABLES
  file,     \* what the path holds
  mode,     \* its mode: "rw", "ro"; of no meaning while there is no file
  open,     \* [writers -> the inode an in-place write has open: "target", "gone" or NoFile]
  temp,     \* [writers -> what the writer's sibling holds]
  pc,       \* [writers -> "idle" | "write" | "sibling" | "rename" | "done" | "failed" | "dead"]
  asked,    \* [writers -> the mode the caller passed, then the one to give]
  plain     \* the writers that write in place

fileVars == <<file, mode, open, temp, pc, asked, plain>>

FilesInit ==
  /\ file \in {"before", NoFile} /\ mode \in {"rw", "ro"} /\ (file = NoFile => mode = "rw")
  /\ open = [w \in Writers |-> NoFile] /\ temp = [w \in Writers |-> NoFile]
  /\ pc = [w \in Writers |-> "idle"]
  /\ asked \in [Writers -> {ModeDefault, "ro"}]
  /\ plain \in SUBSET Writers

To(w, next) == pc' = [pc EXCEPT ![w] = next]

(* Write: the file is opened and cut short, which a read-only one refuses.     *)
Open(w) ==
  /\ pc[w] = "idle" /\ w \in plain
  /\ IF file # NoFile /\ mode = "ro" THEN To(w, "failed") /\ UNCHANGED <<file, mode, open>>
     ELSE /\ To(w, "write") /\ file' = Torn /\ open' = [open EXCEPT ![w] = "target"]
          /\ mode' = IF file = NoFile /\ asked[w] # ModeDefault THEN asked[w] ELSE mode
  /\ UNCHANGED <<temp, asked, plain>>
(* The bytes go to the inode that was opened; then the chmod by path.          *)
WriteBytes(w) ==
  /\ pc[w] = "write" /\ To(w, "done")
  /\ file' = IF open[w] = "target" THEN w ELSE file
  /\ mode' = IF asked[w] # ModeDefault THEN asked[w] ELSE mode
  /\ open' = [open EXCEPT ![w] = NoFile] /\ UNCHANGED <<temp, asked, plain>>

AsAsked(w) == IF asked[w] = ModeDefault THEN "rw" ELSE asked[w]  \* mutant: no look at the file
(* ModeDefault keeps the mode of a file that is there.                         *)
GivenMode(w) == IF asked[w] # ModeDefault THEN asked[w] ELSE IF file = NoFile THEN "rw" ELSE mode

(* AtomicWrite: a look at the mode, a sibling of its own.                      *)
CreateSibling(w) ==
  /\ pc[w] = "idle" /\ w \notin plain /\ To(w, "sibling")
  /\ asked' = [asked EXCEPT ![w] = GivenMode(w)]
  /\ temp' = [temp EXCEPT ![w] = Torn] /\ UNCHANGED <<file, mode, open, plain>>
FillSibling(w) ==
  /\ pc[w] = "sibling" /\ To(w, "rename") /\ temp' = [temp EXCEPT ![w] = w]
  /\ UNCHANGED <<file, mode, open, asked, plain>>
Cleanup(w) == [temp EXCEPT ![w] = NoFile]
RenameOver(w) ==
  /\ pc[w] = "rename" /\ To(w, "done") /\ file' = temp[w] /\ mode' = asked[w]
  /\ temp' = [temp EXCEPT ![w] = NoFile]
  /\ open' = [v \in Writers |-> IF open[v] = "target" THEN "gone" ELSE open[v]]
  /\ UNCHANGED <<asked, plain>>

(* A write, a chmod or a rename fails; the process dies.                       *)
Fails(w) ==
  \/ /\ pc[w] = "write" /\ To(w, "failed") /\ open' = [open EXCEPT ![w] = NoFile]
     /\ UNCHANGED <<file, mode, temp, asked, plain>>
  \/ /\ pc[w] \in {"sibling", "rename"} /\ To(w, "failed") /\ temp' = Cleanup(w)
     /\ UNCHANGED <<file, mode, open, asked, plain>>
Dies(w) ==
  /\ pc[w] \in {"write", "sibling", "rename"} /\ To(w, "dead")
  /\ open' = [open EXCEPT ![w] = NoFile] /\ UNCHANGED <<file, mode, temp, asked, plain>>

FilesNext ==
  \E w \in Writers : \/ Open(w) \/ WriteBytes(w) \/ CreateSibling(w) \/ FillSibling(w)
                     \/ RenameOver(w) \/ Fails(w) \/ Dies(w)

FilesSpec == FilesInit /\ [][FilesNext]_fileVars

-------------------------------------------------------------------------------
(* A file rewritten atomically is never seen in part, whoever is killed and     *)
(* whatever fails ("A crash mid-write can therefore never leave a truncated     *)
(* file", AtomicWrite).                                                        *)
AtomicFilesAreWhole == plain = {} => file \in Versions \cup {NoFile}

(* A file that is read-only before stays so, however it is rewritten ("the only *)
(* way to rewrite the 0444 generated root files").                             *)
ReadOnlyFilesStay == mode = "ro" => [](mode = "ro")

(* A sibling is left behind only by a process that was killed.                  *)
SiblingsAreTakenAway ==
  \A w \in Writers : temp[w] # NoFile => pc[w] \in {"sibling", "rename", "dead"}

(* What the writers are at: a sibling is whole when it is renamed, and has its  *)
(* mode; only who opened the file in place writes into it.                     *)
WritersInv ==
  /\ pc \in [Writers -> {"idle", "write", "sibling", "rename", "done", "failed", "dead"}]
  /\ temp \in [Writers -> Writers \cup {Torn, NoFile}]
  /\ asked \in [Writers -> {ModeDefault, "ro", "rw"}] /\ mode \in {"ro", "rw"}
  /\ \A w \in Writers : /\ pc[w] = "write" => w \in plain
                        /\ pc[w] = "rename" => temp[w] = w
                        /\ pc[w] = "idle" => asked[w] # "rw"
                        /\ pc[w] \in {"sibling", "rename"} => asked[w] # ModeDefault

FilesInv == WritersInv /\ AtomicFilesAreWhole /\ SiblingsAreTakenAway

(* A read-only file is there, nobody writes into it, and who is about to        *)
(* replace it gives its mode.                                                   *)
StaysReadOnly ==
  mode = "ro" => /\ file # NoFile
                 /\ \A w \in Writers : /\ pc[w] # "write"
                                       /\ pc[w] \in {"sibling", "rename"} => asked[w] = "ro"

(* Every step of every writer keeps it.                                         *)
LEMMA FilesInvHolds == FilesSpec => []FilesInv
<1>1. FilesInit => FilesInv
  BY DEF FilesInit, FilesInv, WritersInv, AtomicFilesAreWhole, SiblingsAreTakenAway, Versions,
         ModeDefault
<1>2. FilesInv /\ [FilesNext]_fileVars => FilesInv'
  <2> SUFFICES ASSUME FilesInv, [FilesNext]_fileVars PROVE FilesInv'
    OBVIOUS
  <2> USE DEF FilesInv, WritersInv, AtomicFilesAreWhole, SiblingsAreTakenAway
  <2>1. ASSUME NEW w \in Writers, Open(w) PROVE FilesInv'
    BY <2>1 DEF Open, To
  <2>2. ASSUME NEW w \in Writers, WriteBytes(w) PROVE FilesInv'
    BY <2>2 DEF WriteBytes, To
  <2>3. ASSUME NEW w \in Writers, CreateSibling(w) PROVE FilesInv'
    BY <2>3 DEF CreateSibling, GivenMode, ModeDefault, To
  <2>4. ASSUME NEW w \in Writers, FillSibling(w) PROVE FilesInv'
    BY <2>4 DEF FillSibling, To
  <2>5. ASSUME NEW w \in Writers, RenameOver(w) PROVE FilesInv'
    BY <2>5 DEF RenameOver, ModeDefault, To, Versions
  <2>6. ASSUME NEW w \in Writers, Fails(w) PROVE FilesInv'
    BY <2>6 DEF Fails, Cleanup, To
  <2>7. ASSUME NEW w \in Writers, Dies(w) PROVE FilesInv'
    BY <2>7 DEF Dies, To
  <2>8. CASE UNCHANGED fileVars
    BY <2>8 DEF fileVars
  <2> QED
    BY <2>1, <2>2, <2>3, <2>4, <2>5, <2>6, <2>7, <2>8 DEF FilesNext
<1> QED
  BY <1>1, <1>2, PTL DEF FilesSpec

(* Whatever the writers do, in whatever order they fail and die, a file written *)
(* atomically is whole, a read-only file is only ever replaced by a read-only   *)
(* one, and no sibling outlives a process that was not killed.                  *)
THEOREM FilesAreReplacedWhole ==
  FilesSpec => [](AtomicFilesAreWhole /\ SiblingsAreTakenAway) /\ ReadOnlyFilesStay
<1> DEFINE kept == mode = "ro" /\ StaysReadOnly
<1>1. FilesInit => StaysReadOnly
  BY DEF FilesInit, StaysReadOnly
<1>2. FilesInv /\ kept /\ [FilesNext]_fileVars => kept'
  <2> SUFFICES ASSUME FilesInv, kept, [FilesNext]_fileVars PROVE kept'
    OBVIOUS
  <2> USE DEF FilesInv, WritersInv, StaysReadOnly
  <2>1. ASSUME NEW w \in Writers, Open(w) PROVE kept'
    <3>1. pc' = [pc EXCEPT ![w] = "failed"] /\ file' = file /\ mode' = mode /\ asked' = asked
      BY <2>1 DEF Open, To
    <3>2. \A v \in Writers : pc'[v] = pc[v] \/ pc'[v] = "failed"
      BY <3>1
    <3> QED
      BY <3>1, <3>2
  <2>2. ASSUME NEW w \in Writers, WriteBytes(w) PROVE kept'
    BY <2>2 DEF WriteBytes, To
  <2>3. ASSUME NEW w \in Writers, CreateSibling(w) PROVE kept'
    BY <2>3 DEF CreateSibling, GivenMode, ModeDefault, To
  <2>4. ASSUME NEW w \in Writers, FillSibling(w) PROVE kept'
    BY <2>4 DEF FillSibling, To
  <2>5. ASSUME NEW w \in Writers, RenameOver(w) PROVE kept'
    BY <2>5, WritersAssumption DEF RenameOver, To
  <2>6. ASSUME NEW w \in Writers, Fails(w) PROVE kept'
    BY <2>6 DEF Fails, Cleanup, To
  <2>7. ASSUME NEW w \in Writers, Dies(w) PROVE kept'
    BY <2>7 DEF Dies, To
  <2>8. CASE UNCHANGED fileVars
    BY <2>8 DEF fileVars
  <2> QED
    BY <2>1, <2>2, <2>3, <2>4, <2>5, <2>6, <2>7, <2>8 DEF FilesNext
<1>3. kept => mode = "ro"
  OBVIOUS
<1>4. FilesInv => AtomicFilesAreWhole /\ SiblingsAreTakenAway
  BY DEF FilesInv
<1>5. StaysReadOnly /\ mode = "ro" => kept
  OBVIOUS
<1> QED
  BY <1>1, <1>2, <1>3, <1>4, <1>5, FilesInvHolds, PTL DEF FilesSpec, ReadOnlyFilesStay

-------------------------------------------------------------------------------
(* A command run to its end, alone (Handle.Run) or as the stages of a pipeline *)
(* whose stage i writes what stage i + 1 reads (Handle.Pipeline): the pipes,   *)
(* the deadline and the order of waits (internal/effects, directRun and        *)
(* directPipeline).                                                            *)

CONSTANTS
  MaxStages,  \* stages of the longest pipeline
  Chunks,     \* pieces the first stage writes
  Capacity    \* pieces a pipe holds

VARIABLES
  stages,    \* how many stages this run has
  proc,      \* [stages -> "unstarted" | "running" | "exited" | "failed" | "killed"]
  held,      \* [stages -> pieces a stage has still to write]
  pipe,      \* [stages -> pieces in the pipe the stage writes]
  holder,    \* a process the last stage started holds the captured output open
  deadline,  \* "none" | "ahead" | "past" | "overdue": WaitDelay after it has passed
  waiting,   \* the stage selfdoc waits on; 0 while it starts them
  answer     \* "none" | "notStarted" | "timedOut" | "delayed" | "ok" | "nonzero"

procVars == <<stages, proc, held, pipe, holder, deadline, waiting, answer>>

StageNumbers == 1 .. stages
Running(i) == proc[i] = "running"
Ended(i) == proc[i] \in {"exited", "failed", "killed"}

(* command: the deadline is set before any stage starts.  StdoutPipe opens     *)
(* every stage's pipe but the last one's.                                      *)
ProcInit ==
  /\ stages \in 1 .. MaxStages
  /\ proc = [i \in 1 .. stages |-> "unstarted"]
  /\ held = [i \in 1 .. stages |-> IF i = 1 THEN Chunks ELSE 0]
  /\ pipe = [i \in 1 .. stages |-> 0]
  /\ holder = FALSE /\ deadline \in {"none", "ahead"}
  /\ waiting = 0 /\ answer = "none"

-------------------------------------------------------------------------------
NextToStart == CHOOSE i \in StageNumbers : proc[i] = "unstarted" /\ \A j \in 1 .. i - 1 : proc[j] # "unstarted"

(* Start, refused once the deadline has passed; after the last one selfdoc     *)
(* waits on it first.                                                          *)
StartStage ==
  /\ answer = "none" /\ waiting = 0 /\ deadline \in {"none", "ahead"}
  /\ proc' = [proc EXCEPT ![NextToStart] = "running"]
  /\ waiting' = IF NextToStart = stages THEN stages ELSE 0
  /\ UNCHANGED <<stages, held, pipe, holder, deadline, answer>>

Killed == [i \in StageNumbers |-> IF Running(i) THEN "killed" ELSE proc[i]]

(* A stage that cannot be started ends the call at once: the stages already    *)
(* running are only killed by cancelling the deadline they were given.         *)
StartFails ==
  /\ answer = "none" /\ waiting = 0
  /\ answer' = "notStarted"
  /\ proc' = IF deadline = "none" THEN proc ELSE Killed
  /\ UNCHANGED <<stages, held, pipe, holder, deadline, waiting>>

-------------------------------------------------------------------------------
(* What the processes do.  No write breaks a pipe: selfdoc holds the read end  *)
(* of each, which StdoutPipe opened, until it has waited for its writer.       *)
WritePiece(i) ==
  /\ Running(i) /\ held[i] > 0 /\ held' = [held EXCEPT ![i] = @ - 1]
  /\ IF i = stages THEN UNCHANGED pipe
     ELSE pipe[i] < Capacity /\ pipe' = [pipe EXCEPT ![i] = @ + 1]
  /\ UNCHANGED <<stages, proc, holder, deadline, waiting, answer>>

ReadPiece(i) ==
  /\ i > 1 /\ Running(i) /\ held[i] = 0 /\ pipe[i - 1] > 0
  /\ pipe' = [pipe EXCEPT ![i - 1] = @ - 1] /\ held' = [held EXCEPT ![i] = 1]
  /\ UNCHANGED <<stages, proc, holder, deadline, waiting, answer>>

(* A stage is through when it has written everything, and read to the end.     *)
Exit(i) ==
  /\ Running(i) /\ held[i] = 0
  /\ i > 1 => pipe[i - 1] = 0 /\ Ended(i - 1)
  /\ proc' = [proc EXCEPT ![i] = "exited"]
  /\ UNCHANGED <<stages, held, pipe, holder, deadline, waiting, answer>>

Fail(i) ==
  /\ Running(i) /\ proc' = [proc EXCEPT ![i] = "failed"]
  /\ UNCHANGED <<stages, held, pipe, holder, deadline, waiting, answer>>

Fork ==
  /\ ~holder /\ Running(stages) /\ holder' = TRUE
  /\ UNCHANGED <<stages, proc, held, pipe, deadline, waiting, answer>>
HolderEnds ==
  /\ holder /\ holder' = FALSE
  /\ UNCHANGED <<stages, proc, held, pipe, deadline, waiting, answer>>

-------------------------------------------------------------------------------
(* The deadline kills what runs, and no process of theirs.                     *)
DeadlinePasses ==
  /\ deadline = "ahead" /\ answer = "none" /\ deadline' = "past" /\ proc' = Killed
  /\ UNCHANGED <<stages, held, pipe, holder, waiting, answer>>

WaitDelayOver == deadline = "past" /\ answer = "none" /\ deadline' = "overdue"
DelayPasses ==
  /\ WaitDelayOver
  /\ UNCHANGED <<stages, proc, held, pipe, holder, waiting, answer>>

(* Only the last stage's status counts, and it is a timeout when the deadline  *)
(* has passed by the time every stage has been waited for.                     *)
Outcome(forced) ==
  IF proc[stages] = "exited" /\ ~forced THEN "ok"
  ELSE IF deadline \in {"past", "overdue"} THEN "timedOut"
  ELSE IF proc[stages] = "exited" THEN "delayed" ELSE "nonzero"

(* WaitDelay of a command with a deadline runs from its end or the deadline,   *)
(* whichever is first; after it Wait closes the captured output itself.        *)
ClosesHeldOutput ==
  deadline = "overdue" \/ (deadline # "none" /\ proc[stages] \in {"exited", "failed"})

(* Wait on the last stage, then on the others in order, until each has ended.  *)
Wait ==
  /\ answer = "none" /\ waiting > 0 /\ (Ended(waiting) \/ proc[waiting] = "unstarted")
  /\ waiting = stages /\ holder => ClosesHeldOutput
  /\ LET next == IF waiting = stages THEN 1 ELSE waiting + 1
     IN IF next < stages THEN waiting' = next /\ UNCHANGED answer
        ELSE waiting' = waiting /\ answer' = Outcome(holder)
  /\ UNCHANGED <<stages, proc, held, pipe, holder, deadline>>

ProcRest == answer # "none" /\ (\A i \in StageNumbers : ~Running(i)) /\ UNCHANGED procVars

ProcNext ==
  \/ StartStage \/ StartFails
  \/ \E i \in StageNumbers : WritePiece(i) \/ ReadPiece(i) \/ Exit(i) \/ Fail(i)
  \/ Fork \/ HolderEnds
  \/ DeadlinePasses \/ DelayPasses \/ Wait \/ ProcRest

(* Processes that can go on do, time passes, and selfdoc runs.                 *)
ProcFair ==
  /\ WF_procVars(StartStage \/ StartFails \/ Wait) /\ WF_procVars(DeadlinePasses) /\ WF_procVars(DelayPasses)
  /\ \A i \in 1 .. MaxStages :
       WF_procVars(i \in StageNumbers /\ (WritePiece(i) \/ ReadPiece(i) \/ Exit(i)))

-------------------------------------------------------------------------------
ProcTypeOK ==
  /\ stages \in 1 .. MaxStages
  /\ proc \in [StageNumbers -> {"unstarted", "running", "exited", "failed", "killed"}]
  /\ held \in [StageNumbers -> 0 .. Chunks] /\ pipe \in [StageNumbers -> 0 .. Capacity]
  /\ holder \in BOOLEAN
  /\ deadline \in {"none", "ahead", "past", "overdue"} /\ waiting \in 0 .. stages
  /\ answer \in {"none", "notStarted", "timedOut", "delayed", "ok", "nonzero"}

(* A run with a deadline returns, and leaves none of its stages running, even   *)
(* when a process a stage started holds the output open (command: "so the       *)
(* deadline bounds the run").                                                  *)
DeadlineBoundsTheRun ==
  deadline # "none" ~> (answer # "none" /\ \A i \in StageNumbers : ~Running(i))

(* The handle keeps its word to the commands: a preview is the run, a file is *)
(* replaced whole or not at all, and a subprocess is bounded by its deadline. *)
HandleKeepsItsWord ==
  /\ [](PreviewIsTheRun /\ PreviewsGoAsFar)
  /\ [](AtomicFilesAreWhole /\ SiblingsAreTakenAway) /\ ReadOnlyFilesStay
  /\ []ProcTypeOK /\ DeadlineBoundsTheRun
===============================================================================
