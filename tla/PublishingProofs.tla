---------------------------- MODULE PublishingProofs ----------------------------
(*****************************************************************************)
(* Why what publishing sends out passed the screen, for any files, terms and *)
(* number of commands.  The inductive invariant is PublishInv: what a        *)
(* command has read is still what is there, or is marked as changed behind   *)
(* its back, so that what it judged is what goes out.                        *)
(*****************************************************************************)
EXTENDS Publishing, Integers, TLAPS

Steps == {"idle", "discover", "load", "read", "judge", "record", "build", "stage", "copy", "push",
           "archive", "dispatch"}
Hints == ({"list", "resolutions"} \X {1, 2}) \cup ({"page", "source"} \X Paths) \cup {<<"licenses", "all">>}
Reads == [Paths -> Bytes \cup {Unread}]

IsCommand(c) ==
    c \in [kind : Kinds \cup {"none"}, at : Steps, round : {1, 2}, list : SUBSET Terms,
           pages : SUBSET Paths, found : Reads, read : Reads, kept : Reads, stale : SUBSET Hints]

DataKinds ==
    /\ sources \in FileTrees /\ output \in FileTrees /\ site \in FileTrees
    /\ revisions \in FileTrees /\ archive \in FileTrees
    /\ refs \in [local : FileTrees, origin : FileTrees]
    /\ list \subseteq Terms /\ licenses \subseteq {"open", "proprietary"}

\* Which kinds come through a stage, in which round, and with what in hand.
CourseInv ==
    /\ command.at # "idle" => command.kind \in Kinds
    /\ command.at \in {"discover", "record"} => command.kind = "posts" /\ command.round = 1
    /\ command.at = "judge" => command.kind = "posts"
    /\ command.at = "load" => command.kind # "posts"
    /\ command.at = "build" => command.kind \in {"docs", "posts"}
    /\ command.at \in {"stage", "copy"} => command.kind \in FromOutput
    /\ command.at = "dispatch" => command.kind = "push"
    /\ command.at = "archive" => command.kind = "posts" /\ command.round = 2
    /\ command.at \in {"discover", "load"} => command.read = Nothing
    /\ command.at \in {"load", "read", "stage"} /\ command.kind # "posts" => command.kept = Nothing
    /\ command.at = "push" => command.kind # "push" /\ (command.kind = "posts" => command.round = 2)

LicenseInv == command.at # "idle" => PublicOutputAllowed \/ <<"licenses", "all">> \in command.stale

\* The list a command judged by is the list there is.
Listed(round) == command.list = list \/ <<"list", round>> \in command.stale
ListInv ==
    (command.at = "judge" \/ (command.at = "read" /\ command.kind # "posts")) => Listed(command.round)

\* A post's source is read as it was discovered.
FoundInv ==
    /\ command.at \in {"read", "judge"} /\ command.kind = "posts" /\ command.round = 1 =>
         \A p \in Paths :
           /\ p \in command.pages <=> command.found[p] # Missing
           /\ \/ <<"source", p>> \in command.stale \/ p \notin command.pages
              \/ command.found[p] = IF command.read[p] = Unread THEN sources[p] ELSE command.read[p]
    /\ command.at = "judge" => AllRead

\* What a deploy, a docs publish and a push have read is what is there.
Unchanged(p) == <<"page", p>> \notin command.stale
ReadInv ==
    command.at = "read" /\ command.kind # "posts" =>
      \A p \in Paths :
        \/ ~Unchanged(p) \/ (p \in command.pages /\ command.read[p] = Unread)
        \/ p \in command.pages /\ command.read[p] = Screened(command)[p]
        \/ /\ p \notin command.pages
           /\ IF command.kind = "push" THEN Hits("ref", p, refs.local[p], command.list) = {}
              ELSE output[p] = Missing

\* What passed the screen is clean still.
CleanInv ==
    /\ command.at \in {"stage", "copy"} =>
         \A p \in Paths : Clean("page", p, output[p]) \/ OutOfDate(p)
    /\ command.at \in {"copy", "push"} /\ command.kind # "posts" =>
         \A p \in Paths : command.kept[p] = Unread \/ Clean("page", p, command.kept[p]) \/ OutOfDate(p)
    /\ command.at = "push" /\ command.kind = "posts" =>
         \A p \in Paths : Clean("page", p, command.kept[p]) \/ Excused({2}, <<"list", 2>>)
    /\ command.at = "dispatch" =>
         \A p \in Paths : Clean("ref", p, refs.local[p]) \/ OutOfDate(p)
    /\ command.at = "record" =>
         \A p \in Paths : command.found[p] = Missing \/ Clean("source", p, command.found[p])
                                            \/ Excused({1}, <<"source", p>>)
    /\ command.kind = "posts" /\ (command.round = 2 \/ command.at = "build") =>
         \A p \in Paths : command.found[p] = Missing \/ Clean("source", p, command.found[p])
                                            \/ Excused({1, 2}, <<"source", p>>)

\* What was discovered is known while it is recorded and archived.
RecordInv ==
    command.kind = "posts" /\ command.at # "discover" => \A p \in Paths : command.found[p] # Unread

PublishInv ==
    /\ DataKinds /\ IsCommand(command) /\ CourseInv /\ LicenseInv /\ ListInv /\ FoundInv /\ ReadInv /\ CleanInv
    /\ RecordInv
    /\ StagingIsRemoved

-------------------------------------------------------------------------------
LEMMA NothingUnderWay == IsCommand(NoPublish) /\ NoPublish.at = "idle" /\ NoPublish.kind = "none"
<1>1. Nothing \in Reads BY DEF Nothing, Reads
<1>2. {} \in SUBSET Hints /\ {} \in SUBSET Terms /\ {} \in SUBSET Paths OBVIOUS
<1> QED BY <1>1, <1>2 DEF NoPublish, IsCommand, Steps

\* Nothing is promised of a command that has ended.
LEMMA EndedIsFine ==
    ASSUME DataKinds', command' = NoPublish, staging' # "held"
    PROVE  PublishInv'
<1>1. command'.at = "idle" /\ command'.kind = "none" /\ IsCommand(command') BY NothingUnderWay
<1>2. CourseInv' /\ RecordInv' BY <1>1 DEF CourseInv, RecordInv
<1>3. LicenseInv' /\ ListInv' /\ FoundInv' /\ ReadInv'
  BY <1>1 DEF LicenseInv, ListInv, FoundInv, ReadInv
<1>4. CleanInv' BY <1>1 DEF CleanInv
<1> QED BY <1>1, <1>2, <1>3, <1>4 DEF PublishInv, StagingIsRemoved

\* The parts of the state a step of the command leaves alone.
SameData ==
    UNCHANGED <<sources, output, refs, list, resolutions, licenses, site, revisions, archive>>

LEMMA DataStays == ASSUME DataKinds, SameData PROVE DataKinds'
  BY DEF DataKinds, SameData

LEMMA StopIsFine ==
    ASSUME PublishInv, Stop, DataKinds'
    PROVE  PublishInv'
<1>1. command' = NoPublish /\ staging' # "held" BY DEF Stop
<1> QED BY <1>1, EndedIsFine

LEMMA BeginIsFine ==
    ASSUME PublishInv, NEW kind \in Kinds, Begin(kind)
    PROVE  PublishInv'
<1>0. PICK at \in {"build", "discover", "load"} :
        /\ command' = [NoPublish EXCEPT !.kind = kind, !.at = at]
        /\ at = "discover" => kind = "posts"
        /\ at = "build" => kind = "docs"
        /\ at = "load" => kind # "posts"
  BY DEF Begin, Kinds
<1>1. DataKinds' BY DataStays DEF PublishInv, Begin, othersStay, SameData
<1>2. IsCommand(command') BY <1>0, NothingUnderWay DEF IsCommand, Steps
<1>3. /\ command'.at = at /\ command'.kind = kind /\ command'.round = 1
      /\ command'.read = Nothing /\ command'.kept = Nothing
  BY <1>0, NothingUnderWay DEF NoPublish
<1>4. CourseInv' /\ RecordInv' BY <1>0, <1>3 DEF CourseInv, RecordInv
<1>5. LicenseInv' BY DEF LicenseInv, Begin, othersStay, PublicOutputAllowed
<1>6. ListInv' /\ FoundInv' /\ ReadInv' BY <1>3 DEF ListInv, FoundInv, ReadInv
<1>7. CleanInv' BY <1>0, <1>3 DEF CleanInv
<1>8. StagingIsRemoved' BY <1>3 DEF StagingIsRemoved
<1> QED BY <1>1, <1>2, <1>4, <1>5, <1>6, <1>7, <1>8 DEF PublishInv

LEMMA DiscoverIsFine ==
    ASSUME PublishInv, Discover
    PROVE  PublishInv'
<1>0. DataKinds' BY DataStays DEF PublishInv, Discover, othersStay, SameData
<1>1. CASE Stop BY <1>0, <1>1, StopIsFine
<1>2. CASE command' = [command EXCEPT !.found = sources, !.pages = Held(sources), !.at = "read"]
  <2>1. sources \in Reads BY DEF PublishInv, DataKinds, FileTrees, Reads
  <2>2. Held(sources) \in SUBSET Paths BY DEF Held
  <2>3. IsCommand(command') BY <1>2, <2>1, <2>2 DEF PublishInv, IsCommand, Steps
  <2>4. /\ command'.at = "read" /\ command'.kind = "posts" /\ command'.round = 1
        /\ command'.found = sources /\ command'.pages = Held(sources)
        /\ command'.stale = command.stale /\ command'.read = command.read
    BY <1>2 DEF PublishInv, IsCommand, CourseInv, Discover, Working
  <2>5. CourseInv' /\ RecordInv'
    <3>1. \A p \in Paths : sources[p] # Unread
      BY ContentsAssumption DEF PublishInv, DataKinds, FileTrees, Bytes
    <3> QED BY <2>4, <3>1 DEF CourseInv, Kinds, RecordInv
  <2>6. LicenseInv' BY <2>4 DEF PublishInv, LicenseInv, Discover, Working, othersStay, PublicOutputAllowed
  <2>7. ListInv' /\ ReadInv' BY <2>4 DEF ListInv, ReadInv
  <2>8. FoundInv'
    <3>1. ASSUME NEW p \in Paths
          PROVE  /\ sources[p] # Unread /\ command.read[p] = Unread
                 /\ p \in Held(sources) <=> sources[p] # Missing
      BY ContentsAssumption DEF PublishInv, DataKinds, FileTrees, Bytes, CourseInv, Discover, Working,
         Nothing, Held
    <3>2. sources' = sources BY DEF Discover, othersStay
    <3> QED BY <2>4, <3>1, <3>2 DEF FoundInv
  <2>9. CleanInv' BY <2>4 DEF CleanInv
  <2>10. StagingIsRemoved' BY <2>4 DEF StagingIsRemoved
  <2> QED BY <1>0, <2>3, <2>5, <2>6, <2>7, <2>8, <2>9, <2>10 DEF PublishInv
<1> QED BY <1>1, <1>2 DEF Discover

LEMMA LoadIsFine ==
    ASSUME PublishInv, Load
    PROVE  PublishInv'
<1>0. DataKinds' BY DataStays DEF PublishInv, Load, othersStay, SameData
<1>1. list \in SUBSET Terms BY DEF PublishInv, DataKinds
<1>2. CASE Working("load")
  <2> DEFINE pages == IF command.kind # "push" THEN Held(output)
                      ELSE {p \in Paths : Hits("ref", p, refs.local[p], list) # {}}
  <2>1. command' = [command EXCEPT !.list = list, !.at = "read", !.pages = pages]
    BY <1>2 DEF Load, Working
  <2>2. pages \in SUBSET Paths BY DEF Held
  <2>3. IsCommand(command') BY <1>1, <2>1, <2>2 DEF PublishInv, IsCommand, Steps
  <2>4. /\ command'.at = "read" /\ command'.kind = command.kind /\ command'.round = command.round
        /\ command'.pages = pages /\ command'.list = list
        /\ command'.stale = command.stale /\ command'.read = Nothing /\ command'.kept = Nothing
        /\ command'.kind # "posts"
    BY <1>2, <2>1 DEF PublishInv, IsCommand, CourseInv, Working
  <2>5. CourseInv' /\ RecordInv' BY <1>2, <2>4 DEF PublishInv, CourseInv, Working, RecordInv
  <2>6. LicenseInv' BY <1>2, <2>4 DEF PublishInv, LicenseInv, Load, Working, othersStay, PublicOutputAllowed
  <2>7. ListInv' /\ FoundInv' BY <2>4 DEF ListInv, FoundInv, Load, othersStay, Listed
  <2>8. ReadInv'
    <3>1. SUFFICES ASSUME NEW p \in Paths, p \notin pages
                   PROVE  IF command.kind = "push" THEN Hits("ref", p, refs.local[p], list) = {}
                          ELSE output[p] = Missing
      <4>1. output' = output /\ refs' = refs BY DEF Load, othersStay
      <4>2. \A p \in Paths : Nothing[p] = Unread BY DEF Nothing
      <4> HIDE DEF pages
      <4> QED BY <2>4, <4>1, <4>2 DEF ReadInv, Hits
    <3> QED BY <3>1 DEF Held
  <2>9. CleanInv' BY <2>4 DEF CleanInv
  <2>10. StagingIsRemoved' BY <2>4 DEF StagingIsRemoved
  <2> QED BY <1>0, <2>3, <2>5, <2>6, <2>7, <2>8, <2>9, <2>10 DEF PublishInv
<1>3. CASE Working("read") /\ command.kind = "posts" /\ AllRead
         /\ command' = [command EXCEPT !.list = list, !.at = "judge"]
  <2>1. IsCommand(command') BY <1>1, <1>3 DEF PublishInv, IsCommand, Steps
  <2>2. /\ command'.at = "judge" /\ command'.kind = "posts" /\ command'.list = list
        /\ command'.round = command.round /\ command'.pages = command.pages
        /\ command'.found = command.found /\ command'.read = command.read
        /\ command'.stale = command.stale
    BY <1>3 DEF PublishInv, IsCommand
  <2>3. CourseInv' /\ RecordInv' BY <1>3, <2>2 DEF PublishInv, CourseInv, Kinds, RecordInv, Working
  <2>4. LicenseInv' BY <1>3, <2>2 DEF PublishInv, LicenseInv, Load, Working, othersStay, PublicOutputAllowed
  <2>5. ListInv' /\ ReadInv' BY <2>2 DEF ListInv, ReadInv, Load, othersStay, Listed
  <2>6. FoundInv'
    <3>1. sources' = sources BY DEF Load, othersStay
    <3>2. AllRead' BY <1>3, <2>2 DEF AllRead
    <3> QED BY <1>3, <2>2, <3>1, <3>2 DEF PublishInv, FoundInv, Working
  <2>7. CleanInv' BY <1>3, <2>2 DEF PublishInv, CleanInv, Load, othersStay, Clean, Excused, OutOfDate
  <2>8. StagingIsRemoved' BY <2>2 DEF StagingIsRemoved
  <2> QED BY <1>0, <2>1, <2>3, <2>4, <2>5, <2>6, <2>7, <2>8 DEF PublishInv
<1> QED BY <1>2, <1>3 DEF Load

LEMMA ReadPageIsFine ==
    ASSUME PublishInv, NEW p \in Paths, ReadPage(p)
    PROVE  PublishInv'
<1>0. DataKinds' BY DataStays DEF PublishInv, ReadPage, othersStay, SameData
<1>1. CASE Stop BY <1>0, <1>1, StopIsFine
<1>2. CASE /\ Screened(command)[p] # Missing
           /\ command' = [command EXCEPT !.read[p] = Screened(command)[p]]
  <2> DEFINE file == Screened(command)[p]
  <2>1. file \in Bytes BY DEF PublishInv, DataKinds, Screened, FileTrees
  <2>2. [command.read EXCEPT ![p] = file] \in Reads BY <2>1 DEF PublishInv, IsCommand, Reads
  <2>3. command' = [command EXCEPT !.read = [command.read EXCEPT ![p] = file]]
    BY <1>2 DEF PublishInv, IsCommand
  <2>4. IsCommand(command') BY <2>2, <2>3 DEF PublishInv, IsCommand
  <2>5. /\ command'.at = "read" /\ command.at = "read" /\ command'.kind = command.kind
        /\ command'.round = command.round /\ command'.list = command.list
        /\ command'.pages = command.pages /\ command'.found = command.found
        /\ command'.kept = command.kept /\ command'.stale = command.stale
        /\ command'.read = [command.read EXCEPT ![p] = file]
    BY <2>3 DEF PublishInv, IsCommand, ReadPage, Working
  <2>6. /\ \A q \in Paths : command'.read[q] = IF q = p THEN file ELSE command.read[q]
        /\ file # Unread
    BY <2>1, <2>5, ContentsAssumption DEF PublishInv, IsCommand, Reads, Bytes
  <2>7. /\ sources' = sources /\ output' = output /\ refs' = refs /\ list' = list
        /\ resolutions' = resolutions /\ licenses' = licenses
    BY DEF ReadPage, othersStay
  <2>8. CourseInv' /\ RecordInv' BY <2>5 DEF PublishInv, CourseInv, RecordInv
  <2>9. LicenseInv' BY <2>5, <2>7 DEF PublishInv, LicenseInv, PublicOutputAllowed
  <2>10. ListInv' BY <2>5, <2>7 DEF PublishInv, ListInv, Listed
  <2>11. FoundInv'
    <3>1. command.kind = "posts" /\ command.round = 1 => file = sources[p]
      BY DEF Screened
    <3>2. p \in command.pages /\ command.read[p] = Unread BY DEF ReadPage
    <3> HIDE DEF file
    <3> QED BY <2>5, <2>6, <2>7, <3>1, <3>2 DEF PublishInv, FoundInv
  <2>12. ReadInv'
    <3>1. Screened(command)' = Screened(command) BY <2>5, <2>7 DEF Screened
    <3>2. p \in command.pages BY DEF ReadPage
    <3>3. SUFFICES ASSUME command.kind # "posts", NEW q \in Paths
          PROVE  \/ ~Unchanged(q)' \/ (q \in command.pages /\ command'.read[q] = Unread)
                 \/ q \in command.pages /\ command'.read[q] = Screened(command)[q]
                 \/ /\ q \notin command.pages
                    /\ IF command.kind = "push" THEN Hits("ref", q, refs.local[q], command.list) = {}
                       ELSE output[q] = Missing
      BY <2>5, <2>7, <3>1 DEF ReadInv, Hits
    <3>4. CASE q = p BY <2>6, <3>2, <3>4
    <3>5. CASE q # p BY <2>5, <2>6, <3>3, <3>5 DEF PublishInv, ReadInv, Unchanged
    <3> QED BY <3>4, <3>5
  <2>13. CleanInv' BY <2>5, <2>7 DEF PublishInv, CleanInv, Clean, Excused, OutOfDate
  <2>14. StagingIsRemoved' BY <2>5 DEF StagingIsRemoved
  <2> QED BY <1>0, <2>4, <2>8, <2>9, <2>10, <2>11, <2>12, <2>13, <2>14 DEF PublishInv
<1> QED BY <1>1, <1>2 DEF ReadPage

\* A file that the screen lets through, as it is now.
LEMMA Screening ==
    ASSUME PublishInv, Check(command), Listed(command.round), NEW p \in Paths
    PROVE  Clean(PlaceOf(command), p, command.read[p]) \/ <<"list", command.round>> \in command.stale
<1>1. CASE command.list = list
  BY <1>1 DEF Check, Hits, Clean, isText
<1> QED BY <1>1 DEF Listed

\* A stale list excuses whatever was judged by it.
LEMMA StaleListExcuses ==
    ASSUME NEW rounds, NEW thing, NEW round \in rounds, <<"list", round>> \in command.stale
    PROVE  Excused(rounds, thing)
  BY DEF Excused

LEMMA JudgeIsFine ==
    ASSUME PublishInv, Judge
    PROVE  PublishInv'
<1>0. DataKinds' BY DataStays DEF PublishInv, Judge, othersStay, SameData
<1>1. CASE ~Check(command) BY <1>0, <1>1, StopIsFine DEF Judge
<1>2. CASE Check(command)
  <2> DEFINE at == CASE command.kind = "push" -> "dispatch"
                     [] command.kind = "posts" /\ command.round = 1 -> "record"
                     [] command.kind = "posts" /\ command.round = 2 -> "push"
                     [] OTHER -> "stage"
             kept == IF command.kind = "posts" THEN command.read ELSE command.kept
  <2>1. command' = [command EXCEPT !.at = at, !.kept = kept]
    BY <1>2 DEF Judge, PublishInv, IsCommand
  <2>2. at \in Steps /\ kept \in Reads BY DEF Steps, PublishInv, IsCommand
  <2>3. /\ at = "dispatch" => command.kind = "push"
        /\ at = "record" => command.kind = "posts" /\ command.round = 1
        /\ at = "push" => command.kind = "posts" /\ command.round = 2
        /\ at = "stage" => command.kind \notin {"posts", "push"}
        /\ at \in {"dispatch", "record", "push", "stage"}
        /\ command.kind = "posts" => kept = command.read
        /\ command.kind # "posts" => kept = command.kept
    <3>1. command.round \in {1, 2} BY DEF PublishInv, IsCommand
    <3> QED BY <3>1
  <2> HIDE DEF at, kept
  <2>4. IsCommand(command') BY <2>1, <2>2 DEF PublishInv, IsCommand
  <2>5. /\ command'.at = at /\ command'.kind = command.kind /\ command'.round = command.round
        /\ command'.list = command.list /\ command'.pages = command.pages
        /\ command'.found = command.found /\ command'.read = command.read
        /\ command'.kept = kept /\ command'.stale = command.stale
    BY <2>1 DEF PublishInv, IsCommand
  <2>6. /\ sources' = sources /\ output' = output /\ refs' = refs /\ list' = list
        /\ resolutions' = resolutions /\ licenses' = licenses
    BY DEF Judge, othersStay
  <2>7. /\ command.kind = "posts" => command.at = "judge"
        /\ command.kind # "posts" => command.at = "read"
        /\ AllRead
    BY DEF Judge, Working, PublishInv, FoundInv
  <2>8. Listed(command.round) BY <2>7 DEF PublishInv, ListInv
  <2>9. command.kind \in Kinds BY <2>7 DEF PublishInv, CourseInv
  <2>10. CourseInv' /\ RecordInv' BY <2>3, <2>5, <2>7, <2>9 DEF PublishInv, CourseInv, Kinds, FromOutput, RecordInv
  <2>11. LicenseInv' BY <2>5, <2>6, <2>7 DEF PublishInv, LicenseInv, PublicOutputAllowed
  <2>12. ListInv' /\ FoundInv' /\ ReadInv' BY <2>3, <2>5 DEF ListInv, FoundInv, ReadInv
  <2>13. CleanInv'
    <3>0. \A q \in Paths :
            Clean(PlaceOf(command), q, command.read[q]) \/ <<"list", command.round>> \in command.stale
      BY <1>2, <2>8, Screening
    <3>1. \A q, place, file : Clean(place, q, file)' <=> Clean(place, q, file) BY <2>6 DEF Clean
    <3>2. \A rounds, thing : Excused(rounds, thing)' <=> Excused(rounds, thing) BY <2>5 DEF Excused
    <3>3. ASSUME command.kind # "posts", NEW q \in Paths
          PROVE  \/ Clean(PlaceOf(command), q, Screened(command)[q])
                 \/ OutOfDate(q)
      <4>1. CASE <<"page", q>> \in command.stale BY <4>1 DEF OutOfDate, Excused
      <4>2. CASE <<"list", command.round>> \in command.stale
        BY <4>2, StaleListExcuses DEF OutOfDate
      <4>3. CASE <<"page", q>> \notin command.stale /\ q \in command.pages
                 /\ Clean(PlaceOf(command), q, command.read[q])
        <5>1. command.read[q] # Unread BY <2>7, <4>3 DEF AllRead
        <5>2. command.read[q] = Screened(command)[q]
          BY <2>7, <3>3, <4>3, <5>1 DEF PublishInv, ReadInv, Unchanged
        <5> QED BY <4>3, <5>2
      <4>4. CASE /\ <<"page", q>> \notin command.stale /\ q \notin command.pages
                 /\ command.kind # "push"
        <5>1. output[q] = Missing BY <2>7, <3>3, <4>4 DEF PublishInv, ReadInv, Unchanged
        <5>2. Screened(command)[q] = Missing BY <3>3, <4>4, <5>1 DEF Screened
        <5> QED BY <5>2, ContentsAssumption DEF Clean
      <4>5. CASE /\ <<"page", q>> \notin command.stale /\ q \notin command.pages
                 /\ command.kind = "push" /\ command.list = list
        <5>1. Hits("ref", q, refs.local[q], list) = {}
          BY <2>7, <3>3, <4>5 DEF PublishInv, ReadInv, Unchanged
        <5>2. Screened(command)[q] = refs.local[q] BY <4>5 DEF Screened
        <5>3. refs.local[q] \in Contents /\ refs.local[q].text => refs.local[q].terms \cap list = {}
          BY <5>1 DEF Hits, isText
        <5> QED BY <5>2, <5>3 DEF Clean
      <4> QED BY <2>8, <3>0, <4>1, <4>2, <4>3, <4>4, <4>5 DEF Listed
    <3>4. CASE at = "stage"
      <4>1. PlaceOf(command) = "page" /\ Screened(command) = output /\ command.kind # "posts"
        BY <2>3, <3>4 DEF PlaceOf, Screened
      <4>2. \A q \in Paths : Clean("page", q, output[q])' \/ OutOfDate(q)'
        BY <2>5, <2>6, <3>1, <3>2, <3>3, <4>1 DEF OutOfDate
      <4> QED BY <2>5, <3>4, <4>1, <4>2 DEF CleanInv
    <3>5. CASE at = "dispatch"
      <4>1. PlaceOf(command) = "ref" /\ Screened(command) = refs.local /\ command.kind # "posts"
        BY <2>3, <3>5 DEF PlaceOf, Screened
      <4>2. \A q \in Paths : Clean("ref", q, refs.local[q])' \/ OutOfDate(q)'
        BY <2>5, <2>6, <3>1, <3>2, <3>3, <4>1 DEF OutOfDate
      <4> QED BY <2>5, <3>5, <4>1, <4>2 DEF CleanInv
    <3>6. CASE at = "push"
      <4>1. PlaceOf(command) = "page" /\ command.kind = "posts" /\ command.round = 2
        BY <2>3, <3>6 DEF PlaceOf
      <4>2. \A q \in Paths : Clean("page", q, command.kept[q])' \/ Excused({2}, <<"list", 2>>)'
        BY <2>3, <2>5, <3>0, <3>1, <3>2, <4>1, StaleListExcuses
      <4>3. command'.kind = "posts" /\ command'.at = "push" BY <2>5, <3>6, <4>1
      <4>4. \A q \in Paths : command'.found[q] = Missing \/ Clean("source", q, command.found[q])'
                                \/ Excused({1, 2}, <<"source", q>>)'
        BY <2>5, <3>1, <3>2, <4>1 DEF PublishInv, CleanInv
      <4> QED BY <4>2, <4>3, <4>4, <2>5 DEF CleanInv
    <3>7. CASE at = "record"
      <4>1. PlaceOf(command) = "source" /\ command.kind = "posts" /\ command.round = 1
        BY <2>3, <3>7 DEF PlaceOf
      <4>2. ASSUME NEW q \in Paths
            PROVE  command.found[q] = Missing \/ Clean("source", q, command.found[q])
                   \/ Excused({1}, <<"source", q>>)
        <5>1. CASE <<"source", q>> \in command.stale BY <5>1 DEF Excused
        <5>2. CASE <<"list", 1>> \in command.stale BY <5>2, StaleListExcuses
        <5>3. CASE q \notin command.pages
          BY <2>7, <4>1, <5>3 DEF PublishInv, FoundInv
        <5>4. CASE <<"source", q>> \notin command.stale /\ q \in command.pages
                   /\ Clean("source", q, command.read[q])
          <6>1. command.read[q] # Unread BY <2>7, <5>4 DEF AllRead
          <6>2. command.found[q] = command.read[q]
            BY <2>7, <4>1, <5>4, <6>1 DEF PublishInv, FoundInv
          <6> QED BY <5>4, <6>2
        <5> QED BY <3>0, <4>1, <5>1, <5>2, <5>3, <5>4
      <4> QED BY <2>5, <3>1, <3>2, <3>7, <4>1, <4>2 DEF CleanInv
    <3> QED BY <2>3, <3>4, <3>5, <3>6, <3>7
  <2>14. StagingIsRemoved' BY <2>3, <2>5 DEF StagingIsRemoved
  <2> QED BY <1>0, <2>4, <2>10, <2>11, <2>12, <2>13, <2>14 DEF PublishInv
<1> QED BY <1>1, <1>2

\* What is clean stays clean while nobody touches the list or the resolutions.
LEMMA CleanStays ==
    ASSUME list' = list, resolutions' = resolutions, NEW place, NEW p, NEW file
    PROVE  Clean(place, p, file)' <=> Clean(place, p, file)
  BY DEF Clean

LEMMA RecordIsFine ==
    ASSUME PublishInv, NEW p \in Paths, Record(p)
    PROVE  PublishInv'
<1>1. /\ command' = command /\ sources' = sources /\ output' = output /\ refs' = refs
      /\ list' = list /\ resolutions' = resolutions /\ licenses' = licenses /\ staging' = staging
      /\ site' = site /\ archive' = archive /\ revisions' = [revisions EXCEPT ![p] = command.found[p]]
  BY DEF Record, othersStay
<1>2. command.found[p] \in Bytes
  <2>1. command.found[p] \in Bytes \cup {Unread} BY DEF PublishInv, IsCommand, Reads
  <2>2. command.found[p] # Unread BY DEF Record, PublishInv, CourseInv, RecordInv, Working
  <2> QED BY <2>1, <2>2
<1>3. revisions' \in FileTrees BY <1>1, <1>2 DEF PublishInv, DataKinds, FileTrees
<1>4. DataKinds' BY <1>1, <1>3 DEF PublishInv, DataKinds
<1>5. CourseInv' /\ LicenseInv' /\ ListInv' /\ FoundInv' /\ ReadInv' /\ RecordInv' /\ StagingIsRemoved'
  BY <1>1 DEF PublishInv, CourseInv, LicenseInv, PublicOutputAllowed, ListInv, Listed, FoundInv, AllRead,
     ReadInv, Unchanged, Screened, Hits, RecordInv, StagingIsRemoved
<1>6. CleanInv' BY <1>1 DEF PublishInv, CleanInv, Clean, Excused, OutOfDate
<1> QED BY <1>1, <1>4, <1>5, <1>6 DEF PublishInv

\* A step that only moves a command on.
MovesOn(at) ==
    /\ Moves(at) /\ staging' \in {staging, "held"} /\ SameData

LEMMA MovesOnKeeps ==
    ASSUME PublishInv, NEW at \in Steps, MovesOn(at)
    PROVE  /\ DataKinds' /\ IsCommand(command')
           /\ command'.at = at /\ command'.kind = command.kind /\ command'.round = command.round
           /\ command'.list = command.list /\ command'.pages = command.pages
           /\ command'.found = command.found /\ command'.read = command.read
           /\ command'.kept = command.kept /\ command'.stale = command.stale
           /\ list' = list /\ resolutions' = resolutions /\ licenses' = licenses
           /\ output' = output /\ refs' = refs /\ sources' = sources
  BY DataStays DEF PublishInv, IsCommand, MovesOn, Moves, SameData

LEMMA RecordedIsFine ==
    ASSUME PublishInv, Recorded
    PROVE  PublishInv'
<1>1. MovesOn("build") BY DEF Recorded, MovesOn, othersStay, SameData
<1>2. "build" \in Steps BY DEF Steps
<1>3. command.at = "record" BY DEF Recorded, Working
<1> USE <1>1, <1>2, <1>3, MovesOnKeeps
<1>4. CourseInv' /\ RecordInv' BY DEF PublishInv, CourseInv, RecordInv, Kinds
<1>5. LicenseInv' BY DEF PublishInv, LicenseInv, PublicOutputAllowed
<1>6. ListInv' /\ FoundInv' /\ ReadInv' BY DEF ListInv, FoundInv, ReadInv
<1>7. CleanInv'
  <2>1. ASSUME NEW p \in Paths
        PROVE  command.found[p] = Missing \/ Clean("source", p, command.found[p])'
               \/ Excused({1, 2}, <<"source", p>>)'
    BY <2>1, CleanStays DEF PublishInv, CleanInv, Excused
  <2> QED BY <2>1 DEF CleanInv
<1>8. StagingIsRemoved' BY DEF StagingIsRemoved
<1> QED BY <1>4, <1>5, <1>6, <1>7, <1>8 DEF PublishInv

LEMMA BuildOutputIsFine ==
    ASSUME PublishInv, BuildOutput
    PROVE  PublishInv'
<1> DEFINE at == IF command.kind = "posts" THEN "read" ELSE "load"
           pages == IF command.kind = "posts" THEN Held(output') ELSE command.pages
<1>1. /\ command.at = "build" /\ output' \in FileTrees
      /\ command' = [command EXCEPT !.round = 2, !.kept = Nothing, !.read = Nothing, !.at = at, !.pages = pages]
      /\ sources' = sources /\ refs' = refs /\ list' = list /\ resolutions' = resolutions
      /\ licenses' = licenses /\ staging' = staging /\ site' = site /\ archive' = archive
      /\ revisions' = revisions
  BY DEF BuildOutput, othersStay, Working, PublishInv, IsCommand
<1>2. Nothing \in Reads /\ at \in Steps /\ pages \in SUBSET Paths
  BY DEF Nothing, Reads, Steps, Held, PublishInv, IsCommand
<1>3. /\ at = "read" <=> command.kind = "posts"
      /\ at = "load" <=> command.kind # "posts"
      /\ at \in {"read", "load"}
  OBVIOUS
<1> HIDE DEF at, pages
<1>4. IsCommand(command') BY <1>1, <1>2 DEF PublishInv, IsCommand
<1>5. /\ command'.at = at /\ command'.kind = command.kind /\ command'.round = 2
      /\ command'.list = command.list /\ command'.pages = pages
      /\ command'.found = command.found /\ command'.read = Nothing
      /\ command'.kept = Nothing /\ command'.stale = command.stale
  BY <1>1 DEF PublishInv, IsCommand
<1>6. DataKinds' BY <1>1 DEF PublishInv, DataKinds
<1>7. CourseInv' /\ RecordInv' BY <1>1, <1>3, <1>5 DEF PublishInv, CourseInv, RecordInv
<1>8. LicenseInv' BY <1>1, <1>5 DEF PublishInv, LicenseInv, PublicOutputAllowed
<1>9. ListInv' /\ FoundInv' /\ ReadInv' BY <1>3, <1>5 DEF ListInv, FoundInv, ReadInv
<1>10. CleanInv'
  <2>1. ASSUME command.kind = "posts", NEW p \in Paths
        PROVE  command.found[p] = Missing \/ Clean("source", p, command.found[p])'
               \/ Excused({1, 2}, <<"source", p>>)'
    BY <1>1, <1>5, <2>1, CleanStays DEF PublishInv, CleanInv, Excused
  <2> QED BY <1>3, <1>5, <2>1 DEF CleanInv
<1>11. StagingIsRemoved' BY <1>3, <1>5 DEF StagingIsRemoved
<1> QED BY <1>4, <1>6, <1>7, <1>8, <1>9, <1>10, <1>11 DEF PublishInv

LEMMA StageIsFine ==
    ASSUME PublishInv, Stage
    PROVE  PublishInv'
<1>1. /\ command.at = "stage" /\ command' = [command EXCEPT !.at = "copy", !.pages = Held(output)]
      /\ staging' \in {staging, "held"} /\ SameData
  BY DEF Stage, othersStay, Working, SameData
<1>2. DataKinds' BY <1>1, DataStays DEF PublishInv
<1>3. Held(output) \in SUBSET Paths BY DEF Held
<1>4. IsCommand(command') BY <1>1, <1>3 DEF PublishInv, IsCommand, Steps
<1>5. /\ command'.at = "copy" /\ command'.kind = command.kind /\ command'.round = command.round
      /\ command'.found = command.found /\ command'.kept = command.kept /\ command'.stale = command.stale
      /\ command.kind \in FromOutput /\ command.kept = Nothing /\ \A p \in Paths : Nothing[p] = Unread
  BY <1>1 DEF PublishInv, IsCommand, CourseInv, FromOutput, Nothing
<1>6. CourseInv' /\ RecordInv' BY <1>5 DEF PublishInv, CourseInv, RecordInv, Kinds, FromOutput
<1>7. LicenseInv' BY <1>1, <1>5 DEF PublishInv, LicenseInv, PublicOutputAllowed, SameData
<1>8. ListInv' /\ FoundInv' /\ ReadInv' BY <1>5 DEF ListInv, FoundInv, ReadInv
<1>9. CleanInv' BY <1>1, <1>5 DEF PublishInv, CleanInv, Clean, Excused, OutOfDate, SameData, FromOutput
<1>10. StagingIsRemoved' BY <1>5 DEF StagingIsRemoved
<1> QED BY <1>2, <1>4, <1>6, <1>7, <1>8, <1>9, <1>10 DEF PublishInv

LEMMA CopyPageIsFine ==
    ASSUME PublishInv, NEW p \in Paths, CopyPage(p)
    PROVE  PublishInv'
<1>0. SameData BY DEF CopyPage, othersStay, SameData
<1>1. DataKinds' BY <1>0, DataStays DEF PublishInv
<1>2. CASE Stop BY <1>1, <1>2, StopIsFine
<1>3. CASE command' = [command EXCEPT !.kept[p] = output[p]]
  <2>1. [command.kept EXCEPT ![p] = output[p]] \in Reads
    BY DEF PublishInv, IsCommand, DataKinds, FileTrees, Reads
  <2>2. command' = [command EXCEPT !.kept = [command.kept EXCEPT ![p] = output[p]]]
    BY <1>3 DEF PublishInv, IsCommand
  <2>3. IsCommand(command') BY <2>1, <2>2 DEF PublishInv, IsCommand
  <2>4. /\ command.at = "copy" /\ command'.at = "copy" /\ command'.kind = command.kind
        /\ command'.round = command.round /\ command'.found = command.found
        /\ command'.stale = command.stale /\ command.kind \in FromOutput
        /\ \A q \in Paths : command'.kept[q] = IF q = p THEN output[p] ELSE command.kept[q]
    BY <2>2 DEF PublishInv, IsCommand, CourseInv, CopyPage, Working, Reads
  <2>5. CourseInv' /\ RecordInv' BY <2>4 DEF PublishInv, CourseInv, RecordInv, Kinds, FromOutput
  <2>6. LicenseInv' BY <1>0, <2>4 DEF PublishInv, LicenseInv, PublicOutputAllowed, SameData
  <2>7. ListInv' /\ FoundInv' /\ ReadInv' BY <2>4 DEF ListInv, FoundInv, ReadInv
  <2>8. CleanInv' BY <1>0, <2>4 DEF PublishInv, CleanInv, Clean, Excused, OutOfDate, SameData, FromOutput
  <2>9. StagingIsRemoved' BY <2>4 DEF StagingIsRemoved
  <2> QED BY <1>1, <2>3, <2>5, <2>6, <2>7, <2>8, <2>9 DEF PublishInv
<1> QED BY <1>2, <1>3 DEF CopyPage

LEMMA CopiedIsFine ==
    ASSUME PublishInv, Copied
    PROVE  PublishInv'
<1>1. MovesOn("push") BY DEF Copied, MovesOn, othersStay, SameData
<1>2. "push" \in Steps BY DEF Steps
<1>3. command.at = "copy" /\ command.kind \in FromOutput
  BY DEF Copied, Working, PublishInv, CourseInv
<1> USE <1>1, <1>2, <1>3, MovesOnKeeps
<1>4. CourseInv' /\ RecordInv' BY DEF PublishInv, CourseInv, RecordInv, Kinds, FromOutput
<1>5. LicenseInv' BY DEF PublishInv, LicenseInv, PublicOutputAllowed
<1>6. ListInv' /\ FoundInv' /\ ReadInv' BY DEF ListInv, FoundInv, ReadInv
<1>7. CleanInv' BY DEF PublishInv, CleanInv, Clean, Excused, OutOfDate, FromOutput
<1>8. StagingIsRemoved' BY DEF StagingIsRemoved
<1> QED BY <1>4, <1>5, <1>6, <1>7, <1>8 DEF PublishInv

\* What would go live is files the command kept, and what was live before.
LEMMA PublishedIsATree ==
    ASSUME PublishInv, NEW removed
    PROVE  WouldPublish(removed) \in FileTrees
  BY DEF WouldPublish, PublishInv, DataKinds, FileTrees, Bytes

LEMMA PushIsFine ==
    ASSUME PublishInv, Push
    PROVE  PublishInv'
<1>1. site' \in FileTrees
  <2>1. site \in FileTrees BY DEF PublishInv, DataKinds
  <2> QED BY <2>1, PublishedIsATree DEF Push
<1>2. /\ sources' = sources /\ output' = output /\ refs' = refs /\ list' = list
      /\ resolutions' = resolutions /\ licenses' = licenses /\ archive' = archive
      /\ revisions' = revisions
  BY DEF Push, othersStay
<1>3. DataKinds' BY <1>1, <1>2 DEF PublishInv, DataKinds
<1>4. CASE Stop BY <1>3, <1>4, StopIsFine
<1>5. CASE command.kind = "posts" /\ Moves("archive") /\ UNCHANGED staging
  <2>1. "archive" \in Steps BY DEF Steps
  <2>2. IsCommand(command') BY <1>5, <2>1 DEF PublishInv, IsCommand, Moves
  <2>3. /\ command.at = "push" /\ command'.at = "archive" /\ command'.kind = "posts"
        /\ command'.round = 2 /\ command.round = 2 /\ command'.found = command.found
        /\ command'.stale = command.stale
    BY <1>5 DEF PublishInv, IsCommand, CourseInv, Moves, Push, Working
  <2>4. CourseInv' /\ RecordInv' BY <1>5, <2>3 DEF PublishInv, CourseInv, RecordInv, Kinds
  <2>5. LicenseInv' BY <1>2, <2>3 DEF PublishInv, LicenseInv, PublicOutputAllowed
  <2>6. ListInv' /\ FoundInv' /\ ReadInv' BY <2>3 DEF ListInv, FoundInv, ReadInv
  <2>7. CleanInv' BY <1>2, <1>5, <2>3 DEF PublishInv, CleanInv, Clean, Excused
  <2>8. StagingIsRemoved' BY <2>3 DEF StagingIsRemoved
  <2> QED BY <1>3, <2>2, <2>4, <2>5, <2>6, <2>7, <2>8 DEF PublishInv
<1> QED BY <1>4, <1>5 DEF Push

LEMMA ArchiveIsFine ==
    ASSUME PublishInv, Archive
    PROVE  PublishInv'
<1>1. \A p \in Paths : command.found[p] \in Bytes
  BY DEF PublishInv, IsCommand, Reads, Archive, Working, CourseInv, RecordInv
<1>2. archive' \in FileTrees BY <1>1 DEF Archive, PublishInv, DataKinds, FileTrees
<1>3. DataKinds' BY <1>2 DEF PublishInv, DataKinds, Archive, othersStay
<1> QED BY <1>3, StopIsFine DEF Archive

LEMMA EndsAreFine ==
    ASSUME PublishInv, Dispatch \/ Fail \/ Die
    PROVE  PublishInv'
<1>1. SameData BY DEF Dispatch, Fail, Die, othersStay, SameData
<1>2. command' = NoPublish /\ staging' # "held" BY DEF Dispatch, Fail, Die, Stop
<1> QED BY <1>1, <1>2, DataStays, EndedIsFine DEF PublishInv

\* What the others do changes nothing of a command but what is behind its back.
OnlyMarked ==
    /\ command'.at = command.at /\ command'.kind = command.kind /\ command'.round = command.round
    /\ command'.list = command.list /\ command'.pages = command.pages
    /\ command'.found = command.found /\ command'.read = command.read
    /\ command'.kept = command.kept /\ command.stale \subseteq command'.stale

LEMMA MarksAdd ==
    ASSUME IsCommand(command), NEW things \in SUBSET Hints, Marks(things)
    PROVE  OnlyMarked /\ IsCommand(command') /\ things \subseteq command'.stale
<1>1. (command.stale \cup things) \in SUBSET Hints BY DEF IsCommand
<1>2. command' = [command EXCEPT !.stale = command.stale \cup things] BY DEF Marks, IsCommand
<1>3. IsCommand(command') BY <1>1, <1>2 DEF IsCommand
<1>4. command'.stale = command.stale \cup things BY <1>2 DEF IsCommand
<1> QED BY <1>2, <1>3, <1>4 DEF OnlyMarked, IsCommand

LEMMA ExcuseStays ==
    ASSUME OnlyMarked, NEW rounds, NEW thing
    PROVE  Excused(rounds, thing) => Excused(rounds, thing)'
  BY DEF OnlyMarked, Excused

\* The parts of the invariant that no disturbance reaches.
LEMMA CourseHolds ==
    ASSUME PublishInv, OnlyMarked, staging' = staging
    PROVE  CourseInv' /\ RecordInv' /\ StagingIsRemoved'
  BY DEF PublishInv, OnlyMarked, CourseInv, RecordInv, StagingIsRemoved

LEMMA RewriteOutputIsFine ==
    ASSUME PublishInv, NEW p \in Paths, RewriteOutput(p)
    PROVE  PublishInv'
<1> DEFINE marks == BehindItsBack(p, {"page"})
<1>1. PICK file \in Bytes : output' = [output EXCEPT ![p] = file] BY DEF RewriteOutput
<1>2. marks \in SUBSET Hints BY DEF BehindItsBack, Hints
<1>3. OnlyMarked /\ IsCommand(command') /\ marks \subseteq command'.stale
  BY <1>2, MarksAdd DEF PublishInv, RewriteOutput
<1>4. /\ sources' = sources /\ refs' = refs /\ list' = list /\ resolutions' = resolutions
      /\ licenses' = licenses /\ staging' = staging /\ site' = site /\ archive' = archive
      /\ revisions' = revisions
  BY DEF RewriteOutput, Disturb
<1>5. DataKinds' BY <1>1, <1>4 DEF PublishInv, DataKinds, FileTrees
<1>6. \A q \in Paths : output'[q] = IF q = p THEN file ELSE output[q]
  BY <1>1 DEF PublishInv, DataKinds, FileTrees
<1>7. LicenseInv' /\ ListInv' /\ FoundInv'
  BY <1>3, <1>4 DEF PublishInv, OnlyMarked, LicenseInv, PublicOutputAllowed, ListInv, Listed, FoundInv,
     AllRead
<1>8. \/ <<"page", p>> \in command'.stale \/ PlaceOf(command) # "page"
      \/ command.at \in {"idle", "discover", "load", "build"}
      \/ command.at = "read" /\ p \in command.pages /\ command.read[p] = Unread
  BY <1>3 DEF BehindItsBack
<1>9. ReadInv'
  <2>1. SUFFICES ASSUME command.at = "read", command.kind # "posts", NEW q \in Paths
        PROVE  \/ ~Unchanged(q)' \/ (q \in command.pages /\ command.read[q] = Unread)
               \/ q \in command.pages /\ command.read[q] = Screened(command)'[q]
               \/ /\ q \notin command.pages
                  /\ IF command.kind = "push" THEN Hits("ref", q, refs.local[q], command.list) = {}
                     ELSE output'[q] = Missing
    BY <1>3, <1>4 DEF OnlyMarked, ReadInv, Screened, Hits
  <2>2. CASE PlaceOf(command) # "page"
    BY <1>3, <1>4, <2>1, <2>2 DEF PublishInv, OnlyMarked, ReadInv, Screened, PlaceOf, Unchanged
  <2>3. CASE PlaceOf(command) = "page" /\ q = p BY <1>8, <2>1, <2>3 DEF Unchanged
  <2>4. CASE q # p
    BY <1>3, <1>4, <1>6, <2>1, <2>4 DEF PublishInv, OnlyMarked, ReadInv, Screened, Unchanged
  <2> QED BY <2>2, <2>3, <2>4
<1>10. CleanInv'
  <2>1. \A q, place, f : Clean(place, q, f)' <=> Clean(place, q, f) BY <1>4, CleanStays
  <2>2. \A rounds, thing : Excused(rounds, thing) => Excused(rounds, thing)' BY <1>3, ExcuseStays
  <2>3. ASSUME command.at \in {"stage", "copy"}, NEW q \in Paths
        PROVE  Clean("page", q, output[q])' \/ OutOfDate(q)'
    <3>1. CASE q = p
      <4>1. PlaceOf(command) = "page" BY <2>3 DEF PublishInv, CourseInv, FromOutput, PlaceOf
      <4>2. <<"page", p>> \in command'.stale BY <1>8, <2>3, <4>1
      <4> QED BY <3>1, <4>2 DEF OutOfDate, Excused
    <3>2. CASE q # p
      BY <1>3, <1>6, <2>1, <2>2, <2>3, <3>2 DEF PublishInv, CleanInv, OutOfDate, OnlyMarked
    <3> QED BY <3>1, <3>2
  <2>4. refs' = refs BY <1>4
  <2> QED BY <1>3, <2>1, <2>2, <2>3, <2>4 DEF PublishInv, CleanInv, OutOfDate, OnlyMarked
<1> QED BY <1>3, <1>4, <1>5, <1>7, <1>9, <1>10, CourseHolds DEF PublishInv

LEMMA EditSourceIsFine ==
    ASSUME PublishInv, NEW p \in Paths, EditSource(p)
    PROVE  PublishInv'
<1> DEFINE marks == IF PlaceOf(command) = "source" /\ Working("read") /\ command.read[p] = Unread
                    THEN {<<"source", p>>} ELSE {}
<1>1. PICK file \in Bytes : sources' = [sources EXCEPT ![p] = file] BY DEF EditSource
<1>2. marks \in SUBSET Hints BY DEF Hints
<1>3. OnlyMarked /\ IsCommand(command') /\ marks \subseteq command'.stale
  BY <1>2, MarksAdd DEF PublishInv, EditSource
<1>4. /\ output' = output /\ refs' = refs /\ list' = list /\ resolutions' = resolutions
      /\ licenses' = licenses /\ staging' = staging /\ site' = site /\ archive' = archive
      /\ revisions' = revisions
  BY DEF EditSource, Disturb
<1>5. DataKinds' BY <1>1, <1>4 DEF PublishInv, DataKinds, FileTrees
<1>6. \A q \in Paths : sources'[q] = IF q = p THEN file ELSE sources[q]
  BY <1>1 DEF PublishInv, DataKinds, FileTrees
<1>7. LicenseInv' /\ ListInv'
  BY <1>3, <1>4 DEF PublishInv, OnlyMarked, LicenseInv, PublicOutputAllowed, ListInv, Listed
<1>8. FoundInv'
  <2>1. AllRead' <=> AllRead BY <1>3 DEF OnlyMarked, AllRead
  <2>2. ASSUME command.at \in {"read", "judge"}, command.kind = "posts", command.round = 1,
               NEW q \in Paths
        PROVE  \/ <<"source", q>> \in command'.stale \/ q \notin command.pages
               \/ command.found[q] = IF command.read[q] = Unread THEN sources'[q] ELSE command.read[q]
    <3>1. CASE q # p \/ command.read[q] # Unread
      BY <1>3, <1>6, <2>2, <3>1 DEF PublishInv, FoundInv, OnlyMarked
    <3>2. CASE q = p /\ command.read[q] = Unread
      <4>1. command.at = "read" \/ q \notin command.pages
        BY <2>2, <3>2 DEF PublishInv, FoundInv, AllRead
      <4>2. PlaceOf(command) = "source" BY <2>2 DEF PlaceOf
      <4> QED BY <1>3, <3>2, <4>1, <4>2 DEF Working
    <3> QED BY <3>1, <3>2
  <2> QED BY <1>3, <2>1, <2>2 DEF PublishInv, FoundInv, OnlyMarked
<1>9. ReadInv'
  BY <1>3, <1>4 DEF PublishInv, OnlyMarked, ReadInv, Screened, Hits, Unchanged
<1>10. CleanInv'
  <2>1. \A q, place, f : Clean(place, q, f)' <=> Clean(place, q, f) BY <1>4, CleanStays
  <2>2. \A rounds, thing : Excused(rounds, thing) => Excused(rounds, thing)' BY <1>3, ExcuseStays
  <2> QED BY <1>3, <1>4, <2>1, <2>2 DEF PublishInv, CleanInv, OutOfDate, OnlyMarked
<1> QED BY <1>3, <1>4, <1>5, <1>7, <1>8, <1>9, <1>10, CourseHolds DEF PublishInv

LEMMA CommitHereIsFine ==
    ASSUME PublishInv, NEW p \in Paths, CommitHere(p)
    PROVE  PublishInv'
<1> DEFINE marks == BehindItsBack(p, {"ref"})
<1>1. PICK file \in Bytes : refs' = [refs EXCEPT !.local[p] = file] BY DEF CommitHere
<1>2. marks \in SUBSET Hints BY DEF BehindItsBack, Hints
<1>3. OnlyMarked /\ IsCommand(command') /\ marks \subseteq command'.stale
  BY <1>2, MarksAdd DEF PublishInv, CommitHere
<1>4. /\ sources' = sources /\ output' = output /\ list' = list /\ resolutions' = resolutions
      /\ licenses' = licenses /\ staging' = staging /\ site' = site /\ archive' = archive
      /\ revisions' = revisions
  BY DEF CommitHere, Disturb
<1>5. refs.local \in FileTrees /\ refs \in [local : FileTrees, origin : FileTrees]
  BY DEF PublishInv, DataKinds
<1>6. refs'.local = [refs.local EXCEPT ![p] = file] /\ refs'.origin = refs.origin BY <1>1, <1>5
<1>7. refs'.local \in FileTrees BY <1>5, <1>6 DEF FileTrees
<1>8. refs' \in [local : FileTrees, origin : FileTrees]
  <2>1. refs' = [refs EXCEPT !.local = [refs.local EXCEPT ![p] = file]] BY <1>1, <1>5
  <2> QED BY <1>5, <1>6, <1>7, <2>1
<1>9. DataKinds' BY <1>4, <1>8 DEF PublishInv, DataKinds
<1>10. \A q \in Paths : refs'.local[q] = IF q = p THEN file ELSE refs.local[q]
  BY <1>5, <1>6 DEF FileTrees
<1>11. LicenseInv' /\ ListInv' /\ FoundInv'
  BY <1>3, <1>4 DEF PublishInv, OnlyMarked, LicenseInv, PublicOutputAllowed, ListInv, Listed, FoundInv,
     AllRead
<1>12. \/ <<"page", p>> \in command'.stale \/ command.kind # "push"
       \/ command.at \in {"idle", "discover", "load", "build"}
       \/ command.at = "read" /\ p \in command.pages /\ command.read[p] = Unread
  BY <1>3 DEF BehindItsBack, PlaceOf
<1>13. ReadInv'
  <2>1. SUFFICES ASSUME command.at = "read", command.kind # "posts", NEW q \in Paths
        PROVE  \/ ~Unchanged(q)' \/ (q \in command.pages /\ command.read[q] = Unread)
               \/ q \in command.pages /\ command.read[q] = Screened(command)'[q]
               \/ /\ q \notin command.pages
                  /\ IF command.kind = "push" THEN Hits("ref", q, refs'.local[q], command.list) = {}
                     ELSE output[q] = Missing
    BY <1>3, <1>4 DEF OnlyMarked, ReadInv, Screened, Hits, isText
  <2>2. CASE command.kind # "push"
    BY <1>3, <1>4, <2>1, <2>2 DEF PublishInv, OnlyMarked, ReadInv, Screened, Unchanged
  <2>3. CASE command.kind = "push" /\ q = p BY <1>12, <2>1, <2>3 DEF Unchanged
  <2>4. CASE command.kind = "push" /\ q # p
    <3>1. Screened(command)' = refs'.local /\ Screened(command) = refs.local
      BY <1>3, <2>4 DEF OnlyMarked, Screened
    <3>2. refs'.local[q] = refs.local[q] BY <1>10, <2>4
    <3>3. \/ ~Unchanged(q) \/ (q \in command.pages /\ command.read[q] = Unread)
          \/ q \in command.pages /\ command.read[q] = refs.local[q]
          \/ q \notin command.pages /\ Hits("ref", q, refs.local[q], command.list) = {}
      BY <2>1, <2>4, <3>1 DEF PublishInv, ReadInv
    <3>4. ~Unchanged(q) => ~Unchanged(q)' BY <1>3 DEF OnlyMarked, Unchanged
    <3> QED BY <2>4, <3>1, <3>2, <3>3, <3>4
  <2> QED BY <2>2, <2>3, <2>4
<1>14. CleanInv'
  <2>1. \A q, place, f : Clean(place, q, f)' <=> Clean(place, q, f) BY <1>4, CleanStays
  <2>2. \A rounds, thing : Excused(rounds, thing) => Excused(rounds, thing)' BY <1>3, ExcuseStays
  <2>3. ASSUME command.at = "dispatch", NEW q \in Paths
        PROVE  Clean("ref", q, refs.local[q])' \/ OutOfDate(q)'
    <3>1. CASE q = p
      <4>1. command.kind = "push" BY <2>3 DEF PublishInv, CourseInv
      <4>2. <<"page", p>> \in command'.stale BY <1>12, <2>3, <4>1
      <4> QED BY <3>1, <4>2 DEF OutOfDate, Excused
    <3>2. CASE q # p
      BY <1>3, <1>10, <2>1, <2>2, <2>3, <3>2 DEF PublishInv, CleanInv, OutOfDate, OnlyMarked
    <3> QED BY <3>1, <3>2
  <2>4. output' = output BY <1>4
  <2> QED BY <1>3, <2>1, <2>2, <2>3, <2>4 DEF PublishInv, CleanInv, OutOfDate, OnlyMarked
<1> QED BY <1>3, <1>4, <1>9, <1>11, <1>13, <1>14, CourseHolds DEF PublishInv

LEMMA PushHereIsFine ==
    ASSUME PublishInv, PushHere
    PROVE  PublishInv'
<1>1. {} \in SUBSET Hints OBVIOUS
<1>2. OnlyMarked /\ IsCommand(command') BY <1>1, MarksAdd DEF PublishInv, PushHere
<1>3. /\ sources' = sources /\ output' = output /\ list' = list /\ resolutions' = resolutions
      /\ licenses' = licenses /\ staging' = staging /\ site' = site /\ archive' = archive
      /\ revisions' = revisions
  BY DEF PushHere, Disturb
<1>4. refs' \in [local : FileTrees, origin : FileTrees] /\ refs'.local = refs.local
  BY DEF PushHere, PublishInv, DataKinds
<1>5. DataKinds' BY <1>3, <1>4 DEF PublishInv, DataKinds
<1>6. LicenseInv' /\ ListInv' /\ FoundInv'
  BY <1>2, <1>3 DEF PublishInv, OnlyMarked, LicenseInv, PublicOutputAllowed, ListInv, Listed, FoundInv,
     AllRead
<1>7. ReadInv'
  <2>1. Screened(command)' = Screened(command) BY <1>2, <1>3, <1>4 DEF OnlyMarked, Screened
  <2>2. \A q : ~Unchanged(q) => ~Unchanged(q)' BY <1>2 DEF OnlyMarked, Unchanged
  <2> QED BY <1>2, <1>3, <1>4, <2>1, <2>2 DEF PublishInv, OnlyMarked, ReadInv, Hits, isText
<1>8. CleanInv'
  <2>1. \A q, place, f : Clean(place, q, f)' <=> Clean(place, q, f) BY <1>3, CleanStays
  <2>2. \A rounds, thing : Excused(rounds, thing) => Excused(rounds, thing)' BY <1>2, ExcuseStays
  <2> QED BY <1>2, <1>3, <1>4, <2>1, <2>2 DEF PublishInv, CleanInv, OutOfDate, OnlyMarked
<1> QED BY <1>2, <1>3, <1>5, <1>6, <1>7, <1>8, CourseHolds DEF PublishInv

\* Whoever changes the list or the resolutions excuses what was judged before.
LEMMA JudgedIsExcused ==
    ASSUME PublishInv, OnlyMarked, output' = output, refs' = refs, NEW what \in {"list", "resolutions"},
           {what} \X Past({"idle", "discover", "load", "read", "judge"}) \subseteq command'.stale
    PROVE  CleanInv'
<1>1. ASSUME NEW rounds, NEW thing, NEW round \in rounds,
             round \in Past({"idle", "discover", "load", "read", "judge"})
      PROVE  Excused(rounds, thing)'
  <2>1. <<what, round>> \in command'.stale BY <1>1
  <2>2. <<what, round>> \in {"list", "resolutions"} \X rounds BY <1>1
  <2> QED BY <2>1, <2>2 DEF Excused
<1>2. command.round \in {1, 2} BY DEF PublishInv, IsCommand
<1>3. ASSUME command.at \in {"stage", "copy", "push", "dispatch", "record"}
      PROVE  command.round \in Past({"idle", "discover", "load", "read", "judge"})
  BY <1>2, <1>3 DEF Past
<1>4. command.round = 2 \/ command.at = "build"
        => 1 \in Past({"idle", "discover", "load", "read", "judge"})
  BY <1>2 DEF Past
<1>5. ASSUME command.at \in {"stage", "copy", "push", "dispatch"}, NEW q \in Paths PROVE OutOfDate(q)'
  BY <1>1, <1>3, <1>5 DEF OutOfDate, OnlyMarked
<1>6. command.at = "push" /\ command.kind = "posts" => Excused({2}, <<"list", 2>>)'
  BY <1>1, <1>3 DEF PublishInv, CourseInv
<1>7. ASSUME command.at = "record", NEW q PROVE Excused({1}, <<"source", q>>)'
  BY <1>1, <1>3, <1>7 DEF PublishInv, CourseInv
<1>8. ASSUME command.round = 2 \/ command.at = "build", NEW q PROVE Excused({1, 2}, <<"source", q>>)'
  BY <1>1, <1>4, <1>8
<1> QED BY <1>5, <1>6, <1>7, <1>8 DEF CleanInv, OnlyMarked

LEMMA EditListIsFine ==
    ASSUME PublishInv, EditList
    PROVE  PublishInv'
<1> DEFINE before == {"idle", "discover", "load"} \cup (IF command.kind = "posts" THEN {"read"} ELSE {})
           marks == {"list"} \X Past(before)
<1>1. marks \in SUBSET Hints BY DEF Past, Hints
<1>2. OnlyMarked /\ IsCommand(command') /\ marks \subseteq command'.stale
  BY <1>1, MarksAdd DEF PublishInv, EditList
<1>3. /\ sources' = sources /\ output' = output /\ refs' = refs /\ resolutions' = resolutions
      /\ licenses' = licenses /\ staging' = staging /\ site' = site /\ archive' = archive
      /\ revisions' = revisions /\ list' \subseteq Terms
  BY DEF EditList, Disturb
<1>4. DataKinds' BY <1>3 DEF PublishInv, DataKinds
<1>5. LicenseInv' /\ FoundInv'
  BY <1>2, <1>3 DEF PublishInv, OnlyMarked, LicenseInv, PublicOutputAllowed, FoundInv, AllRead
<1>6. ListInv'
  <2>1. ASSUME command.at = "judge" \/ (command.at = "read" /\ command.kind # "posts")
        PROVE  <<"list", command.round>> \in command'.stale
    <3>1. command.round \in {1, 2} BY DEF PublishInv, IsCommand
    <3>2. command.at \notin before BY <2>1
    <3>3. command.round \in Past(before) BY <3>1, <3>2 DEF Past
    <3> QED BY <1>2, <3>3
  <2> QED BY <1>2, <2>1 DEF ListInv, Listed, OnlyMarked
<1>7. ReadInv' BY <1>2, <1>3 DEF PublishInv, OnlyMarked, ReadInv, Screened, Hits, Unchanged
<1>8. {"list"} \X Past({"idle", "discover", "load", "read", "judge"}) \subseteq command'.stale
  BY <1>2 DEF Past
<1>9. CleanInv' BY <1>2, <1>3, <1>8, JudgedIsExcused
<1> QED BY <1>2, <1>3, <1>4, <1>5, <1>6, <1>7, <1>9, CourseHolds DEF PublishInv

LEMMA EditResolutionsIsFine ==
    ASSUME PublishInv, EditResolutions
    PROVE  PublishInv'
<1> DEFINE marks == {"resolutions"} \X Past({"idle", "discover", "load", "read", "judge"})
<1>1. marks \in SUBSET Hints BY DEF Past, Hints
<1>2. OnlyMarked /\ IsCommand(command') /\ marks \subseteq command'.stale
  BY <1>1, MarksAdd DEF PublishInv, EditResolutions
<1>3. /\ sources' = sources /\ output' = output /\ refs' = refs /\ list' = list
      /\ licenses' = licenses /\ staging' = staging /\ site' = site /\ archive' = archive
      /\ revisions' = revisions
  BY DEF EditResolutions, Disturb
<1>4. DataKinds' BY <1>3 DEF PublishInv, DataKinds
<1>5. LicenseInv' /\ ListInv' /\ FoundInv'
  BY <1>2, <1>3 DEF PublishInv, OnlyMarked, LicenseInv, PublicOutputAllowed, ListInv, Listed, FoundInv,
     AllRead
<1>6. ReadInv' BY <1>2, <1>3 DEF PublishInv, OnlyMarked, ReadInv, Screened, Hits, Unchanged
<1>7. CleanInv' BY <1>2, <1>3, JudgedIsExcused
<1> QED BY <1>2, <1>3, <1>4, <1>5, <1>6, <1>7, CourseHolds DEF PublishInv

LEMMA RelicenseIsFine ==
    ASSUME PublishInv, Relicense
    PROVE  PublishInv'
<1> DEFINE marks == IF Working("idle") THEN {} ELSE {<<"licenses", "all">>}
<1>1. marks \in SUBSET Hints BY DEF Hints
<1>2. OnlyMarked /\ IsCommand(command') /\ marks \subseteq command'.stale
  BY <1>1, MarksAdd DEF PublishInv, Relicense
<1>3. /\ sources' = sources /\ output' = output /\ refs' = refs /\ list' = list
      /\ resolutions' = resolutions /\ staging' = staging /\ site' = site /\ archive' = archive
      /\ revisions' = revisions /\ licenses' \subseteq {"open", "proprietary"}
  BY DEF Relicense, Disturb
<1>4. DataKinds' BY <1>3 DEF PublishInv, DataKinds
<1>5. LicenseInv' BY <1>2 DEF OnlyMarked, LicenseInv, Working
<1>6. ListInv' /\ FoundInv'
  BY <1>2, <1>3 DEF PublishInv, OnlyMarked, ListInv, Listed, FoundInv, AllRead
<1>7. ReadInv' BY <1>2, <1>3 DEF PublishInv, OnlyMarked, ReadInv, Screened, Hits, Unchanged
<1>8. CleanInv'
  <2>1. \A q, place, f : Clean(place, q, f)' <=> Clean(place, q, f) BY <1>3, CleanStays
  <2>2. \A rounds, thing : Excused(rounds, thing) => Excused(rounds, thing)' BY <1>2, ExcuseStays
  <2> QED BY <1>2, <1>3, <2>1, <2>2 DEF PublishInv, CleanInv, OutOfDate, OnlyMarked
<1> QED BY <1>2, <1>3, <1>4, <1>5, <1>6, <1>7, <1>8, CourseHolds DEF PublishInv

-------------------------------------------------------------------------------
LEMMA PublishInitInv == PublishInit => PublishInv
<1> SUFFICES ASSUME PublishInit PROVE PublishInv OBVIOUS
<1>1. DataKinds BY DEF PublishInit, DataKinds, FileTrees, Bytes
<1>2. IsCommand(command) /\ command.at = "idle" /\ command.kind = "none"
  BY NothingUnderWay DEF PublishInit
<1>3. CourseInv /\ LicenseInv /\ ListInv /\ FoundInv /\ ReadInv /\ CleanInv /\ RecordInv
  BY <1>2 DEF CourseInv, LicenseInv, ListInv, FoundInv, ReadInv, CleanInv, RecordInv
<1>4. StagingIsRemoved BY DEF PublishInit, StagingIsRemoved
<1> QED BY <1>1, <1>2, <1>3, <1>4 DEF PublishInv

LEMMA PublishStutters == PublishInv /\ UNCHANGED publishVars => PublishInv'
<1> SUFFICES ASSUME PublishInv, UNCHANGED publishVars PROVE PublishInv' OBVIOUS
<1>1. DataKinds' /\ IsCommand(command') BY DEF PublishInv, DataKinds, publishVars
<1>2. CourseInv' /\ LicenseInv' /\ ListInv' /\ FoundInv' /\ ReadInv' /\ RecordInv' /\ StagingIsRemoved'
  BY DEF PublishInv, CourseInv, LicenseInv, PublicOutputAllowed, ListInv, Listed, FoundInv, AllRead,
     ReadInv, Unchanged, Screened, Hits, RecordInv, StagingIsRemoved, publishVars
<1>3. CleanInv' BY DEF PublishInv, CleanInv, Clean, Excused, OutOfDate, publishVars
<1> QED BY <1>1, <1>2, <1>3 DEF PublishInv

LEMMA PublishStepInv == PublishInv /\ [PublishNext]_publishVars => PublishInv'
<1> SUFFICES ASSUME PublishInv, [PublishNext]_publishVars PROVE PublishInv' OBVIOUS
<1>1. CASE CommandStep
  <2>1. CASE \E kind \in Kinds : Begin(kind) BY <2>1, BeginIsFine
  <2>2. CASE \E p \in Paths : ReadPage(p) \/ Record(p) \/ CopyPage(p)
    BY <2>2, ReadPageIsFine, RecordIsFine, CopyPageIsFine
  <2>3. CASE Dispatch \/ Fail \/ Die BY <2>3, EndsAreFine
  <2> QED
    BY <1>1, <2>1, <2>2, <2>3, DiscoverIsFine, LoadIsFine, JudgeIsFine, RecordedIsFine, BuildOutputIsFine,
       StageIsFine, CopiedIsFine, PushIsFine, ArchiveIsFine
    DEF CommandStep, cmdDeploy, cmdPublishDocs, cmdPostPublish, cmdAssemblyPush, Kinds
<1>2. CASE OthersStep
  BY <1>2, RewriteOutputIsFine, EditSourceIsFine, CommitHereIsFine, PushHereIsFine, EditListIsFine,
     EditResolutionsIsFine, RelicenseIsFine DEF OthersStep
<1>3. CASE UNCHANGED publishVars BY <1>3, PublishStutters
<1> QED BY <1>1, <1>2, <1>3 DEF PublishNext

\* In a step that sends something out, nobody else does anything.
NobodyElse == UNCHANGED <<refs, list, resolutions, licenses>>

\* One clause of the property for each way out.
SitePart ==
    \A p \in Paths : Changed(site, p) =>
      \/ Clean("page", p, site'[p])
      \/ IF command.kind = "posts" THEN Excused({2}, <<"list", 2>>) ELSE OutOfDate(p)
RevisionPart ==
    \A p \in Paths : Changed(revisions, p) =>
      Clean("source", p, revisions'[p]) \/ Excused({1}, <<"source", p>>)
ArchivePart ==
    \A p \in Paths : Changed(archive, p) =>
      Clean("source", p, archive'[p]) \/ Excused({1, 2}, <<"source", p>>)
RequestPart ==
    requests' # requests /\ refs.origin = refs.local =>
      \A p \in Paths : Clean("ref", p, refs.origin[p]) \/ OutOfDate(p)
LicensePart ==
    <<site, revisions, archive, requests>>' # <<site, revisions, archive, requests>> =>
      licenses # {"proprietary"} \/ <<"licenses", "all">> \in command.stale

LEMMA PushIsScreened == PublishInv /\ Push => SitePart
<1> SUFFICES ASSUME PublishInv, Push, NEW p \in Paths, Changed(site, p)
             PROVE  \/ Clean("page", p, site'[p])
                    \/ IF command.kind = "posts" THEN Excused({2}, <<"list", 2>>) ELSE OutOfDate(p)
  BY DEF SitePart
<1>1. PICK removed : site' = WouldPublish(removed) BY DEF Push, Changed
<1>2. site'[p] = command.kept[p]
  BY <1>1 DEF WouldPublish, Changed
<1>3. command.at = "push" BY DEF Push, Working
<1>4. CASE command.kind = "posts" BY <1>2, <1>3, <1>4 DEF PublishInv, CleanInv
<1>5. CASE command.kind # "posts"
  BY <1>2, <1>3, <1>5, ContentsAssumption DEF PublishInv, CleanInv, Clean
<1> QED BY <1>4, <1>5

\* Which variables of the outside a step may change, and where the command is then.
LEMMA WaysOut ==
    ASSUME PublishNext
    PROVE  /\ site' = site \/ Push
           /\ revisions' = revisions \/ \E p \in Paths : Record(p)
           /\ archive' = archive \/ Archive
           /\ requests' = requests \/ Dispatch
<1>1. CASE OthersStep
  BY <1>1 DEF OthersStep, PushHere, EditList, EditResolutions, Relicense, RewriteOutput, EditSource,
     CommitHere, Disturb
<1>2. CASE CommandStep
  BY <1>2 DEF CommandStep, cmdDeploy, cmdPublishDocs, cmdPostPublish, cmdAssemblyPush, Begin, Discover,
     Load, Judge, Record, Recorded, BuildOutput, Stage, CopyPage, Copied, Push, Archive, Dispatch, Fail,
     Die, ReadPage
<1> QED BY <1>1, <1>2 DEF PublishNext

LEMMA StepIsScreened ==
    PublishInv /\ [PublishNext]_publishVars
      => SitePart /\ RevisionPart /\ ArchivePart /\ RequestPart /\ LicensePart
<1> SUFFICES ASSUME PublishInv, [PublishNext]_publishVars
             PROVE  SitePart /\ RevisionPart /\ ArchivePart /\ RequestPart /\ LicensePart
  OBVIOUS
<1>1. /\ site' = site \/ Push
      /\ revisions' = revisions \/ \E p \in Paths : Record(p)
      /\ archive' = archive \/ Archive
      /\ requests' = requests \/ Dispatch
  BY WaysOut DEF publishVars
<1>2. SitePart BY <1>1, PushIsScreened DEF SitePart, Changed
<1>3. RevisionPart
  <2>1. SUFFICES ASSUME NEW q \in Paths, Record(q), NEW p \in Paths, Changed(revisions, p)
                 PROVE  Clean("source", p, revisions'[p]) \/ Excused({1}, <<"source", p>>)
    BY <1>1 DEF RevisionPart, Changed
  <2>2. p = q /\ revisions'[p] = command.found[p] /\ command.found[p] # Missing
    BY <2>1 DEF Record, Changed, PublishInv, DataKinds, FileTrees
  <2>3. command.at = "record" BY <2>1 DEF Record, Working
  <2> QED BY <2>2, <2>3 DEF PublishInv, CleanInv
<1>4. ArchivePart
  <2>1. SUFFICES ASSUME Archive, NEW p \in Paths, Changed(archive, p)
                 PROVE  Clean("source", p, archive'[p]) \/ Excused({1, 2}, <<"source", p>>)
    BY <1>1 DEF ArchivePart, Changed
  <2>2. archive'[p] = command.found[p] /\ command.found[p] # Missing
    BY <2>1 DEF Archive, Changed
  <2>3. command.at = "archive" /\ command.kind = "posts" /\ command.round = 2
    BY <2>1 DEF Archive, Working, PublishInv, CourseInv
  <2> QED BY <2>2, <2>3 DEF PublishInv, CleanInv
<1>5. RequestPart
  <2>1. SUFFICES ASSUME Dispatch, refs.origin = refs.local, NEW p \in Paths
                 PROVE  Clean("ref", p, refs.origin[p]) \/ OutOfDate(p)
    BY <1>1 DEF RequestPart
  <2> QED BY <2>1 DEF Dispatch, Working, PublishInv, CleanInv
<1>6. LicensePart
  <2>1. SUFFICES ASSUME command.at # "idle"
                 PROVE  licenses # {"proprietary"} \/ <<"licenses", "all">> \in command.stale
    BY <1>1 DEF LicensePart, Push, Record, Archive, Dispatch, Working
  <2> QED BY <2>1 DEF PublishInv, LicenseInv, PublicOutputAllowed
<1> QED BY <1>2, <1>3, <1>4, <1>5, <1>6

\* Whatever a command sends out passed the screen, and no clone is left behind
\* by one that returned (deploy.go, confidential.go, and their commands).
THEOREM PublishingStaysScreened == PublishSpec => PublishingIsScreened
<1>1. PublishInv => StagingIsRemoved BY DEF PublishInv
<1>2. PublishSpec => []PublishInv
  BY PublishInitInv, PublishStepInv, PTL DEF PublishSpec
<1>3. PublishInv /\ [PublishNext]_publishVars
        => [SitePart /\ RevisionPart /\ ArchivePart /\ RequestPart /\ LicensePart]_publishVars
  BY StepIsScreened
<1>4. PublishSpec => OnlyTheScreenedGoesOut
  BY <1>2, <1>3, PTL DEF PublishSpec, OnlyTheScreenedGoesOut, SitePart, RevisionPart, ArchivePart,
     RequestPart, LicensePart
<1> QED BY <1>1, <1>2, <1>4, PTL DEF PublishingIsScreened
================================================================================
