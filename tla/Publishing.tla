------------------------------ MODULE Publishing ------------------------------
(* How a project's pages and posts leave the machine: selfdoc deploy to GitHub *)
(* Pages or Cloudflare (internal/deploy), docs publish, post publish and       *)
(* assembly push.  Each holds what it read to the repository's licenses and to *)
(* the confidential-term list (internal/confidential), and then publishes: a   *)
(* deploy and a docs publish read the output directory once more, a post       *)
(* publish pushes the bytes it read, and archives its posts' markdown as it    *)
(* was discovered, and an assembly push names a ref, which the assembly        *)
(* fetches from the project's origin.  Meanwhile people edit, build, commit,   *)
(* and judge hits.                                                             *)
EXTENDS Naturals, FiniteSets

CONSTANTS
  Paths,            \* pages and posts
  Terms,            \* terms that may be confidential
  Contents,         \* what a file may hold: [terms, text], text being FALSE for binary
  Missing,           \* no such file
  Unread,           \* a file the command has not read
  MaxPublishes,     \* bound on commands
  MaxDisturbances   \* bound on what others do

ASSUME ContentsAssumption ==
  /\ \A c \in Contents : c.terms \subseteq Terms /\ c.text \in BOOLEAN
  /\ Missing \notin Contents /\ Unread \notin Contents /\ Missing # Unread

VARIABLES
  sources,      \* [Paths -> contents]: the posts' and pages' sources
  output,       \* [Paths -> contents]: the output directory
  refs,         \* the branch an unversioned project is pushed from: here, and on origin
  list,         \* the terms of the list that apply here; a missing list has none
  resolutions,  \* hits that were judged harmless or approved: {<<place, page, term>>}
  licenses,     \* the licenses in effect
  command,      \* the command under way
  staging,      \* the temporary clone of a GitHub deploy
  site,         \* [Paths -> contents]: what readers see
  revisions,    \* [Paths -> what the revisions sidecar recorded of a post]
  archive,      \* [Paths -> what the repository of posts keeps of one]
  requests,     \* dispatches sent to the assembly
  publishes, disturbances

publishVars ==
  <<sources, output, refs, list, resolutions, licenses, command, staging, site, revisions,
    archive, requests, publishes, disturbances>>

Bytes == Contents \cup {Missing}
FileTrees == [Paths -> Bytes]
Nothing == [p \in Paths |-> Unread]
Held(tree) == {p \in Paths : tree[p] # Missing}

Kinds == {"github", "cloudflare", "docs", "posts", "push"}
FromOutput == {"github", "cloudflare", "docs"}

NoPublish ==
  [kind |-> "none", at |-> "idle", round |-> 1, list |-> {}, pages |-> {}, found |-> Nothing,
   read |-> Nothing, kept |-> Nothing, stale |-> {}]

-------------------------------------------------------------------------------
(* The screen.                                                                 *)

PublicOutputAllowed == licenses = {} \/ "open" \in licenses

isText(file) == file \in Contents /\ file.text
Hits(place, p, file, terms) ==
  IF isText(file) THEN {<<place, p, term>> : term \in file.terms \cap terms} ELSE {}

(* Which of its hits are another place's: a post's source and the page built   *)
(* from it are different files.                                                *)
PlaceOf(cmd) ==
  CASE cmd.kind = "push" -> "ref"
    [] cmd.kind = "posts" /\ cmd.round = 1 -> "source"
    [] OTHER -> "page"
\* Mutant of Screened: a post publish screens only what it builds.
BuiltOnly(cmd) == IF cmd.kind = "push" THEN refs.local ELSE output

Screened(cmd) ==
  CASE cmd.kind = "push" -> refs.local
    [] cmd.kind = "posts" /\ cmd.round = 1 -> sources
    [] OTHER -> output

Check(cmd) ==
  \A p \in Paths : Hits(PlaceOf(cmd), p, cmd.read[p], cmd.list) \subseteq resolutions

-------------------------------------------------------------------------------
(* A command that stops removes what it staged.                                *)

Stop ==
  /\ command' = NoPublish /\ staging' = IF staging = "held" THEN "none" ELSE staging
Working(at) == command.at = at
Moves(at) == command' = [command EXCEPT !.at = at]

othersStay == UNCHANGED <<sources, refs, list, resolutions, licenses, disturbances>>

Begin(kind) ==
  /\ Working("idle") /\ publishes < MaxPublishes
  /\ kind \in {"github", "cloudflare"} => Held(output) # {}
  /\ PublicOutputAllowed
  /\ publishes' = publishes + 1
  /\ command' = [NoPublish EXCEPT !.kind = kind,
                             !.at = CASE kind = "docs" -> "build" [] kind = "posts" -> "discover"
                                      [] OTHER -> "load"]
  /\ UNCHANGED <<output, staging, site, revisions, archive, requests>> /\ othersStay

cmdDeploy == \E kind \in {"github", "cloudflare"} : Begin(kind)
cmdPublishDocs == Begin("docs")
cmdPostPublish == Begin("posts")
cmdAssemblyPush == Begin("push")

AllRead == \A p \in command.pages : command.read[p] # Unread

(* The posts are read whole, and their sources once more for the screen.       *)
Discover ==
  /\ Working("discover")
  /\ IF Held(sources) = {} THEN Stop
     ELSE /\ UNCHANGED staging
          /\ command' = [command EXCEPT !.found = sources, !.pages = Held(sources), !.at = "read"]
  /\ UNCHANGED <<output, site, revisions, archive, requests, publishes>> /\ othersStay

(* The list is loaded and then the files to read are listed: of a ref, those   *)
(* git grep finds a term in.  A post publish has read its files by then.       *)
Load ==
  /\ \/ /\ Working("load")
        /\ command' =
             [command EXCEPT !.list = list, !.at = "read",
                !.pages = IF command.kind # "push" THEN Held(output)
                          ELSE {p \in Paths : Hits("ref", p, refs.local[p], list) # {}}]
     \/ /\ Working("read") /\ command.kind = "posts" /\ AllRead
        /\ command' = [command EXCEPT !.list = list, !.at = "judge"]
  /\ UNCHANGED <<output, staging, site, revisions, archive, requests, publishes>> /\ othersStay

(* A file that is gone by the time it is read ends the command.                *)
ReadPage(p) ==
  /\ Working("read") /\ p \in command.pages /\ command.read[p] = Unread
  /\ IF Screened(command)[p] = Missing THEN Stop
     ELSE command' = [command EXCEPT !.read[p] = Screened(command)[p]] /\ UNCHANGED staging
  /\ UNCHANGED <<output, site, revisions, archive, requests, publishes>> /\ othersStay

(* confidentialTermRefusal: the resolutions are read last.                     *)
Judge ==
  /\ IF command.kind = "posts" THEN Working("judge") ELSE Working("read") /\ AllRead
  /\ IF ~Check(command) THEN Stop
     ELSE /\ UNCHANGED staging
          /\ command' =
               [command EXCEPT
                  !.at = CASE command.kind = "push" -> "dispatch"
                           [] command.kind = "posts" /\ command.round = 1 -> "record"
                           [] command.kind = "posts" /\ command.round = 2 -> "push"
                           [] OTHER -> "stage",
                  !.kept = IF command.kind = "posts" THEN command.read ELSE @]
  /\ UNCHANGED <<output, site, revisions, archive, requests, publishes>> /\ othersStay

(* A revision is of the post as it was discovered; they are recorded one by one.*)
Record(p) ==
  /\ Working("record") /\ command.found[p] \notin {Missing, revisions[p]}
  /\ revisions' = [revisions EXCEPT ![p] = command.found[p]]
  /\ UNCHANGED <<command, output, staging, site, archive, requests, publishes>> /\ othersStay
Recorded ==
  /\ Working("record") /\ \A p \in Paths : command.found[p] \in {Missing, revisions[p]}
  /\ Moves("build")
  /\ UNCHANGED <<output, staging, site, revisions, archive, requests, publishes>> /\ othersStay

(* A build: a page holds at least what its source does.                        *)
Renders(p, file) ==
  IF sources[p] = Missing THEN file = Missing
  ELSE file \in Contents /\ sources[p].terms \subseteq file.terms /\ file.text = sources[p].text
BuildOutput ==
  /\ Working("build")
  /\ output' \in {tree \in FileTrees : \A p \in Paths : Renders(p, tree[p])}
  /\ command' =
       [command EXCEPT !.round = 2, !.kept = Nothing, !.read = Nothing,
          !.at = IF command.kind = "posts" THEN "read" ELSE "load",
          !.pages = IF command.kind = "posts" THEN Held(output') ELSE @]
  /\ UNCHANGED <<staging, site, revisions, archive, requests, publishes>> /\ othersStay

(* The output directory is listed and read again, into the clone or the commit.*)
Stage ==
  /\ Working("stage")
  /\ command' = [command EXCEPT !.at = "copy", !.pages = Held(output)]
  /\ staging' = IF command.kind = "github" THEN "held" ELSE staging
  /\ UNCHANGED <<output, site, revisions, archive, requests, publishes>> /\ othersStay

CopyPage(p) ==
  /\ Working("copy") /\ p \in command.pages /\ command.kept[p] = Unread
  /\ IF output[p] = Missing THEN Stop
     ELSE command' = [command EXCEPT !.kept[p] = output[p]] /\ UNCHANGED staging
  /\ UNCHANGED <<output, site, revisions, archive, requests, publishes>> /\ othersStay

Copied ==
  /\ Working("copy") /\ \A p \in command.pages : command.kept[p] # Unread
  /\ Moves("push")
  /\ UNCHANGED <<output, staging, site, revisions, archive, requests, publishes>> /\ othersStay

(* A push or an upload that fails, or is reported as failed or timed out: it   *)
(* may have gone through.  A deploy replaces what was there; a docs publish    *)
(* and a post publish remove those of their own pages they no longer build.    *)
WouldPublish(removed) ==
  [p \in Paths |-> IF command.kept[p] \in Contents THEN command.kept[p]
                   ELSE IF p \in removed THEN Missing ELSE site[p]]
Removable == IF command.kind \in {"docs", "posts"} THEN SUBSET Paths ELSE {Paths}
Push ==
  /\ Working("push")
  /\ \/ Stop /\ UNCHANGED site
     \/ /\ \E removed \in Removable : site' = WouldPublish(removed)
        /\ \/ Stop
           \/ command.kind = "posts" /\ Moves("archive") /\ UNCHANGED staging
  /\ UNCHANGED <<output, revisions, archive, requests, publishes>> /\ othersStay

(* What a post's directives resolve to is resolved once more and not modelled. *)
Archive ==
  /\ Working("archive") /\ Stop
  /\ archive' \in {archive, [p \in Paths |-> IF command.found[p] = Missing THEN archive[p]
                                           ELSE command.found[p]]}
  /\ UNCHANGED <<output, site, revisions, requests, publishes>> /\ othersStay

Dispatch ==
  /\ Working("dispatch") /\ Stop
  /\ requests' \in {requests, requests + 1}
  /\ UNCHANGED <<output, site, revisions, archive, publishes>> /\ othersStay

(* Any step may fail on its own account, and the process may be killed: then   *)
(* nobody removes what it staged.                                              *)
Fail ==
  /\ ~Working("idle") /\ Stop
  /\ UNCHANGED <<output, site, revisions, archive, requests, publishes>> /\ othersStay
Die ==
  /\ ~Working("idle") /\ command' = NoPublish
  /\ staging' = IF staging = "held" THEN "left" ELSE staging
  /\ UNCHANGED <<output, site, revisions, archive, requests, publishes>> /\ othersStay

-------------------------------------------------------------------------------
(* The others.  What changed behind the command's back goes down in "stale":   *)
(* a file it has read already or does not know of, the list once it is loaded, *)
(* a resolution once it has judged; a post publish does each of them twice.    *)

Disturb ==
  /\ disturbances < MaxDisturbances /\ disturbances' = disturbances + 1
  /\ UNCHANGED <<staging, site, revisions, archive, requests, publishes>>
Marks(things) == command' = [command EXCEPT !.stale = @ \cup things]

BehindItsBack(p, places) ==
  IF /\ PlaceOf(command) \in places
     /\ \/ command.at \notin {"idle", "discover", "load", "read", "build"}
        \/ command.at = "read" /\ (p \notin command.pages \/ command.read[p] # Unread)
  THEN {<<"page", p>>} ELSE {}

RewriteOutput(p) ==
  /\ Disturb /\ \E file \in Bytes : output' = [output EXCEPT ![p] = file]
  /\ Marks(BehindItsBack(p, {"page"}))
  /\ UNCHANGED <<sources, refs, list, resolutions, licenses>>

(* A post that changes between its discovery and its reading.                  *)
EditSource(p) ==
  /\ Disturb /\ \E file \in Bytes : sources' = [sources EXCEPT ![p] = file]
  /\ Marks(IF PlaceOf(command) = "source" /\ Working("read") /\ command.read[p] = Unread
           THEN {<<"source", p>>} ELSE {})
  /\ UNCHANGED <<output, refs, list, resolutions, licenses>>

CommitHere(p) ==
  /\ Disturb /\ \E file \in Bytes : refs' = [refs EXCEPT !.local[p] = file]
  /\ Marks(BehindItsBack(p, {"ref"}))
  /\ UNCHANGED <<sources, output, list, resolutions, licenses>>
PushHere ==
  /\ Disturb /\ refs' = [refs EXCEPT !.origin = refs.local] /\ Marks({})
  /\ UNCHANGED <<sources, output, list, resolutions, licenses>>

(* The rounds in which the command is past these stages.                       *)
Past(stages) ==
  {round \in {1, 2} : round < command.round \/ (round = command.round /\ command.at \notin stages)}

EditList ==
  /\ Disturb /\ list' \in SUBSET Terms
  /\ Marks({"list"} \X Past({"idle", "discover", "load"}
                            \cup IF command.kind = "posts" THEN {"read"} ELSE {}))
  /\ UNCHANGED <<sources, output, refs, resolutions, licenses>>

(* A resolution may be taken back; a new one counts from the next screen on.   *)
EditResolutions ==
  /\ Disturb
  /\ \E hit \in {"source", "page", "ref"} \X Paths \X Terms :
       resolutions' \in {resolutions \cup {hit}, resolutions \ {hit}}
  /\ Marks({"resolutions"} \X Past({"idle", "discover", "load", "read", "judge"}))
  /\ UNCHANGED <<sources, output, refs, list, licenses>>

Relicense ==
  /\ Disturb /\ licenses' \in SUBSET {"open", "proprietary"}
  /\ Marks(IF Working("idle") THEN {} ELSE {<<"licenses", "all">>})
  /\ UNCHANGED <<sources, output, refs, list, resolutions>>

-------------------------------------------------------------------------------
PublishInit ==
  /\ sources \in FileTrees /\ output \in FileTrees
  /\ \E tree \in FileTrees : refs = [local |-> tree, origin |-> tree]
  /\ list \in SUBSET Terms /\ resolutions = {} /\ licenses \in SUBSET {"open", "proprietary"}
  /\ command = NoPublish /\ staging = "none"
  /\ site = [p \in Paths |-> Missing] /\ revisions = [p \in Paths |-> Missing]
  /\ archive = [p \in Paths |-> Missing]
  /\ requests = 0 /\ publishes = 0 /\ disturbances = 0

CommandStep ==
  \/ cmdDeploy \/ cmdPublishDocs \/ cmdPostPublish \/ cmdAssemblyPush
  \/ Discover \/ Load \/ Judge \/ Recorded \/ BuildOutput \/ Stage \/ Copied \/ Push \/ Archive
  \/ Dispatch \/ Fail \/ Die
  \/ \E p \in Paths : ReadPage(p) \/ Record(p) \/ CopyPage(p)
OthersStep ==
  \/ PushHere \/ EditList \/ EditResolutions \/ Relicense
  \/ \E p \in Paths : RewriteOutput(p) \/ EditSource(p) \/ CommitHere(p)
PublishNext == CommandStep \/ OthersStep
PublishSpec == PublishInit /\ [][PublishNext]_publishVars

-------------------------------------------------------------------------------
Clean(place, p, file) ==
  file \in Contents /\ file.text =>
    \A term \in file.terms \cap list : <<place, p, term>> \in resolutions
Excused(rounds, thing) ==
  (({"list", "resolutions"} \X rounds) \cup {thing}) \cap command.stale # {}
OutOfDate(p) == Excused({command.round}, <<"page", p>>)
Changed(tree, p) == tree'[p] # tree[p] /\ tree'[p] # Missing

(* Whatever goes out was screened: a page that goes live, a post a revision or *)
(* the archive keeps, and the tree the assembly is sent to, as long as origin  *)
(* has what the checkout has, carry no listed term that nobody resolved, and   *)
(* no repository publishes whose every license is proprietary.  Only what      *)
(* somebody changed after the command had looked at it is excepted: the list   *)
(* and the resolutions, a page that a deploy or a docs publish reads again, a  *)
(* post between its discovery and its reading.  A post publish reads its pages *)
(* once: what it pushes was screened as it is.                                 *)
OnlyTheScreenedGoesOut ==
  [][ /\ \A p \in Paths : Changed(site, p) =>
           \/ Clean("page", p, site'[p])
           \/ IF command.kind = "posts" THEN Excused({2}, <<"list", 2>>) ELSE OutOfDate(p)
      /\ \A p \in Paths : Changed(revisions, p) =>
           Clean("source", p, revisions'[p]) \/ Excused({1}, <<"source", p>>)
      /\ \A p \in Paths : Changed(archive, p) =>
           Clean("source", p, archive'[p]) \/ Excused({1, 2}, <<"source", p>>)
      /\ requests' # requests /\ refs.origin = refs.local =>
           \A p \in Paths : Clean("ref", p, refs.origin[p]) \/ OutOfDate(p)
      /\ <<site, revisions, archive, requests>>' # <<site, revisions, archive, requests>> =>
           licenses # {"proprietary"} \/ <<"licenses", "all">> \in command.stale
    ]_publishVars

(* No command that returned leaves its clone behind, whichever way it went.    *)
StagingIsRemoved == command.at = "idle" => staging # "held"

(* Together: what publishing promises of what leaves the machine.              *)
PublishingIsScreened == OnlyTheScreenedGoesOut /\ []StagingIsRemoved
================================================================================
