---------------------------- MODULE AssemblyProofs ----------------------------
(*****************************************************************************)
(* Why the assembly's branch and what goes live from it stay as promised, for *)
(* any projects, files and number of concurrent runs; whose files they are,   *)
(* when integrates alone write it; and, at the end, why what a deploy keeps   *)
(* of an outbound link is an answer somebody got.                             *)
(*****************************************************************************)
EXTENDS Assembly, OutboundLinks, TLAPS

LEMMA KeepManifestsType ==
    ASSUME NEW t \in Tree, NEW kept \in [Slugs -> SUBSET Kinds]
    PROVE  KeepManifests(t, kept) \in Tree
BY DEF KeepManifests, Tree, NoClaims, Record

LEMMA ReconcileType ==
    ASSUME NEW t \in Tree
    PROVE  ReconcileMembership(t) \in Tree
<1> DEFINE dirs == Retired(t)
           retired == dirs \cap Slugs
           claims == ClaimsOfRetired(t, retired)
           kept == [x \in Slugs |-> KeptKinds(t, retired, x)]
<1>1. kept \in [Slugs -> SUBSET Kinds]
  BY DEF KeptKinds, Tree
<1>2. KeepManifests(t, kept) \in Tree
  BY <1>1, KeepManifestsType
<1> HIDE DEF dirs, claims, kept
<1> QED
  BY <1>2 DEF ReconcileMembership, Tree, Membership, dirs, claims, kept

LEMMA SplitType ==
    ASSUME NEW build \in Build, NEW slug \in Slugs, NEW home \in BOOLEAN
    PROVE  SplitBuildOutput(build, slug, home) \in SUBSET Path
<1>1. \A p \in build.pages : p \in Pages /\ PageDir[p] \in Dirs
  BY NamesAssumption DEF Build
<1>2. slug \in Dirs /\ BlogDir \in Dirs
  BY DEF Dirs
<1> QED
  BY <1>1, <1>2 DEF SplitBuildOutput, Path, Build

LEMMA PruneType ==
    ASSUME NEW rec \in Record, NEW owner \in Owners, NEW produced \in SUBSET Path
    PROVE  /\ PrunePlan(rec, owner, produced).removed \in SUBSET Path
           /\ PrunePlan(rec, owner, produced).updated \in Record
BY DEF PrunePlan, Record

LEMMA GraftType ==
    ASSUME NEW bytes \in [Path -> Slugs \cup {None}], NEW slug \in Slugs,
           NEW produced, NEW removed
    PROVE  GraftSubtree(bytes, slug, produced, removed) \in [Path -> Slugs \cup {None}]
BY DEF GraftSubtree

LEMMA ProducedType ==
    ASSUME NEW t \in Tree, NEW job \in Job
    PROVE  Produced(t, job) \in SUBSET Path
<1>1. Outputs(job) \in Build
  BY DEF Outputs, Job, Build
<1>2. job.slug \in Slugs
  BY DEF Job
<1> QED
  BY <1>1, <1>2, SplitType DEF Produced

LEMMA ApplyType ==
    ASSUME NEW t \in Tree, NEW job \in Job
    PROVE  ApplyProjectFiles(t, job) \in Tree
<1> DEFINE s == job.slug
           produced == Produced(t, job)
           plan == PrunePlan(t.record[s], Owner(job), produced)
           site == GraftSubtree(t.site, s, produced, plan.removed)
           grafted == [t EXCEPT !.site = site, !.record[s] = plan.updated]
           overlay == FoldPostsIntoOverlay(t, job)
<1>1. s \in Slugs /\ job.build.pages \in SUBSET Pages /\ job.build.posts \in SUBSET Posts
  BY DEF Job, Build
<1>2. t.record[s] \in Record /\ Owner(job) \in Owners
  BY <1>1 DEF Tree, Owner, Owners
<1>3. plan.updated \in Record
  BY <1>2, ProducedType, PruneType
<1>4. site \in [Path -> Slugs \cup {None}]
  BY <1>1, GraftType DEF Tree
<1>5. overlay \in SUBSET Posts
  BY <1>1 DEF FoldPostsIntoOverlay, Tree
<1> HIDE DEF s, produced, plan, site, overlay
<1>6. grafted \in Tree
  BY <1>1, <1>3, <1>4 DEF Tree
<1> HIDE DEF grafted
<1>7. [grafted EXCEPT !.kinds[s] = @ \cup {"files", "posts"},
                      !.overlay[s] = job.build.posts] \in Tree
  BY <1>1, <1>6 DEF Tree, Kinds
<1>8. [grafted EXCEPT !.kinds[s] = @ \cup {"files", "base"}
                                     \cup (IF s = t.home THEN {"listing"} ELSE {}),
                      !.pages[s] = job.build.pages,
                      !.posts[s] = job.build.posts,
                      !.overlay[s] = overlay] \in Tree
  BY <1>1, <1>5, <1>6 DEF Tree, Kinds
<1> QED
  BY <1>7, <1>8 DEF ApplyProjectFiles, s, produced, plan, site, grafted, overlay

LEMMA SharedLinksType ==
    ASSUME NEW t \in Tree
    PROVE  SharedLinks(t) \in SUBSET Path
<1>1. ASSUME NEW s \in ListedProjects(t), NEW p \in t.pages[s]
      PROVE  PageAddress(t, s, p) \in Path
  <2>1. s \in Slugs /\ p \in Pages
    BY DEF ListedProjects, Tree
  <2>2. PageDir[p] \in Dirs /\ s \in Dirs
    BY <2>1, NamesAssumption DEF Dirs
  <2> QED
    BY <2>1, <2>2 DEF PageAddress, Path
<1>2. ASSUME NEW s \in ListedProjects(t)
      PROVE  ManifestPosts(t, s) \in SUBSET Posts
  BY DEF ListedProjects, ManifestPosts, Tree
<1>3. UNION {{PageAddress(t, s, p) : p \in t.pages[s]} : s \in ListedProjects(t)} \subseteq Path
  BY <1>1
<1>4. UNION {ManifestPosts(t, s) : s \in ListedProjects(t)} \subseteq Posts
  BY <1>2
<1>5. \A q \in Posts : <<BlogDir, q>> \in Path
  BY DEF Dirs, Path
<1> DEFINE addresses == UNION {{PageAddress(t, s, p) : p \in t.pages[s]} : s \in ListedProjects(t)}
           listedPosts == UNION {ManifestPosts(t, s) : s \in ListedProjects(t)}
<1>6. SharedLinks(t) = addresses \cup {<<BlogDir, q>> : q \in listedPosts}
  BY DEF SharedLinks
<1>7. addresses \subseteq Path /\ listedPosts \subseteq Posts
  BY <1>3, <1>4
<1> HIDE DEF addresses, listedPosts
<1> QED
  BY <1>5, <1>6, <1>7

\* What an integrate commits is a tree.
LEMMA IntegratedType ==
    ASSUME NEW t \in Tree, NEW job \in Job
    PROVE  Integrated(t, job) \in Tree
<1>1. ReconcileMembership(t) \in Tree
  BY ReconcileType
<1>2. ApplyProjectFiles(ReconcileMembership(t), job) \in Tree
  BY <1>1, ApplyType
<1>3. ASSUME NEW u \in Tree
      PROVE  RecordMembership(u, job.slug) \in Tree
  BY DEF RecordMembership, Tree, Membership
<1>4. Grafted(t, job) \in Tree
  BY <1>1, <1>2, <1>3 DEF Grafted
<1>5. ASSUME NEW u \in Tree
      PROVE  GenerateSharedFiles(u) \in Tree
  <2> DEFINE links == SharedLinks(u)
  <2>1. links \in SUBSET Path
    BY SharedLinksType
  <2> HIDE DEF links
  <2> QED
    BY <2>1 DEF GenerateSharedFiles, Tree, links
<1> QED
  BY <1>4, <1>5 DEF Integrated

-----------------------------------------------------------------------------

LEMMA CommandProducedType ==
    ASSUME NEW c \in Command
    PROVE  CommandProduced(c) \in SUBSET Path
<1>1. CommandOutputs(c) \in Build
  BY DEF CommandOutputs, Command, Build
<1>2. c.slug \in Slugs /\ c.home \in BOOLEAN
  BY DEF Command
<1> QED
  BY <1>1, <1>2, SplitType DEF CommandProduced

\* What a publisher commits is a tree.
LEMMA PushedType ==
    ASSUME NEW t \in Tree, NEW c \in Command
    PROVE  Pushed(t, c) \in Tree
<1> DEFINE site == GraftSubtree(t.site, c.slug, CommandProduced(c), c.removed)
           kept == [x \in Slugs |-> {k \in t.kinds[x] : <<x, k>> \notin c.files}]
<1>1. /\ c.slug \in Slugs /\ c.home \in BOOLEAN /\ c.record \in Record
      /\ c.build.pages \in SUBSET Pages /\ c.build.posts \in SUBSET Posts
      /\ c.roster \in SUBSET Slugs /\ c.homeSlug \in Slugs
      /\ c.member \in [Slugs -> Membership]
      /\ c.kind \in CommandKinds
  BY DEF Command, Build
<1>2. site \in [Path -> Slugs \cup {None}]
  BY <1>1, GraftType DEF Tree
<1>3. kept \in [Slugs -> SUBSET Kinds]
  BY DEF Tree
<1>4. KeepManifests(t, kept) \in Tree
  BY <1>3, KeepManifestsType
<1>5. PublishedMember(c) \in Membership
  BY DEF PublishedMember, Membership
<1> HIDE DEF site, kept
<1>6. PushDocs(t, c) \in Tree
  BY <1>1, <1>2, <1>5 DEF PushDocs, Tree, Kinds, site
<1>7. PushPosts(t, c) \in Tree
  BY <1>1, <1>2 DEF PushPosts, Tree, Kinds, site
<1>8. PushRetire(t, c) \in Tree
  BY <1>1, <1>4 DEF PushRetire, Tree, Membership, kept
<1> QED
  BY <1>1, <1>6, <1>7, <1>8 DEF Pushed, CommandKinds
-----------------------------------------------------------------------------
(* Type correctness.                                                       *)

LEMMA IdleTypes ==
    /\ SharedOnlyJob \in Job
    /\ IdleRun \in Run
    /\ IdleCommand \in Command
<1>1. InitialTree \in Tree /\ InitialTree.home \in Slugs
  BY ConfigAssumption DEF Tree
<1>2. SharedOnlyJob \in Job
  BY <1>1 DEF SharedOnlyJob, SharedOnlyScope, Job, Scopes, Build
<1>3. IdleRun \in Run
  BY <1>1, <1>2 DEF IdleRun, Run, RunPhases
<1>4. IdleCommand \in Command
  BY <1>1 DEF IdleCommand, Command, CommandSteps, CommandKinds, Build, NoClaims, Record,
              Membership
<1> QED
  BY <1>2, <1>3, <1>4

LEMMA InitType == Init => TypeOK
BY IdleTypes, ConfigAssumption DEF Init, TypeOK

LEMMA SpendType ==
    ASSUME TypeOK, NEW what \in {"jobs", "commands", "edits", "faults"}, Spend(what)
    PROVE  budget' \in [jobs : Nat, commands : Nat, edits : Nat, faults : Nat]
BY DEF TypeOK, Spend

LEMMA RetryType ==
    ASSUME run \in [Runners -> Run], NEW r \in Runners, Retry(r)
    PROVE  run' \in [Runners -> Run]
<1>1. run[r].attempt + 1 \in Nat
  BY DEF Run
<1>2. [run EXCEPT ![r].phase = "sync", ![r].attempt = @ + 1] \in [Runners -> Run]
  BY <1>1 DEF Run, RunPhases
<1>3. [run EXCEPT ![r] = IdleRun] \in [Runners -> Run]
  BY IdleTypes
<1> QED
  BY <1>2, <1>3 DEF Retry

\* A step of a run keeps the types.
LEMMA RunStepType ==
    ASSUME TypeOK, NEW r \in Runners, RunStep(r)
    PROVE  TypeOK'
<1> USE DEF TypeOK
<1>1. CASE StartRun(r)
  <2>1. Head(queue) \in Job /\ Tail(queue) \in Seq(Job)
    BY <1>1 DEF StartRun
  <2>2. run' \in [Runners -> Run]
    BY <1>1, <2>1, IdleTypes DEF StartRun, Run, RunPhases
  <2> QED
    BY <1>1, <2>1, <2>2 DEF StartRun
<1>2. CASE Sync(r)
  <2>1. Integrated(tree, run[r].job) \in Tree
    BY IntegratedType DEF Run
  <2> DEFINE work == Integrated(tree, run[r].job)
  <2> HIDE DEF work
  <2>2. [run EXCEPT ![r].phase = "push", ![r].base = head, ![r].work = work]
            \in [Runners -> Run]
    BY <2>1 DEF Run, RunPhases, work
  <2>3. [run EXCEPT ![r] = IdleRun] \in [Runners -> Run]
    BY IdleTypes
  <2> QED
    BY <1>2, <2>2, <2>3 DEF Sync, work
<1>3. CASE PushAccepted(r)
  <2>1. tree' \in Tree /\ head' \in Nat
    BY <1>3 DEF PushAccepted, Run
  <2>2. run' \in [Runners -> Run]
    BY <1>3, <2>1 DEF PushAccepted, Run, RunPhases
  <2> QED
    BY <1>3, <2>1, <2>2 DEF PushAccepted
<1>4. CASE PushRejected(r)
  <2>1. run' \in [Runners -> Run]
    BY <1>4, RetryType DEF PushRejected
  <2> QED
    BY <1>4, <2>1 DEF PushRejected
<1>5. CASE Deploy(r)
  <2>1. run' \in [Runners -> Run]
    BY <1>5, IdleTypes DEF Deploy
  <2>2. live' \in [tree : Tree, commit : Nat]
    BY <1>5 DEF Deploy, Run
  <2> QED
    BY <1>5, <2>1, <2>2 DEF Deploy
<1> QED
  BY <1>1, <1>2, <1>3, <1>4, <1>5 DEF RunStep

\* A push that is lost or times out, and a run that dies, keep the types.
LEMMA RunFaultType ==
    ASSUME TypeOK, NEW r \in Runners, RunFault(r)
    PROVE  TypeOK'
<1> USE DEF TypeOK
<1>1. CASE PushLost(r)
  <2>1. tree' \in Tree /\ head' \in Nat
    BY <1>1 DEF PushLost, Run
  <2>2. run' \in [Runners -> Run]
    BY <1>1, RetryType DEF PushLost
  <2>3. budget' \in [jobs : Nat, commands : Nat, edits : Nat, faults : Nat]
    BY <1>1, SpendType DEF PushLost
  <2> QED
    BY <1>1, <2>1, <2>2, <2>3 DEF PushLost
<1>2. CASE PushTimedOut(r)
  <2>1. tree' \in Tree /\ head' \in Nat
    BY <1>2 DEF PushTimedOut, Run
  <2>2. run' \in [Runners -> Run]
    BY <1>2, IdleTypes DEF PushTimedOut
  <2>3. budget' \in [jobs : Nat, commands : Nat, edits : Nat, faults : Nat]
    BY <1>2, SpendType DEF PushTimedOut
  <2> QED
    BY <1>2, <2>1, <2>2, <2>3 DEF PushTimedOut
<1>3. CASE RunDies(r)
  BY <1>3, IdleTypes, SpendType DEF RunDies
<1> QED
  BY <1>1, <1>2, <1>3 DEF RunFault

\* What a publisher fills in as it goes keeps its command well typed.
LEMMA CommandUpdateType ==
    ASSUME NEW c \in Command, NEW step \in CommandSteps
    PROVE  /\ [c EXCEPT !.step = step] \in Command
           /\ \A n \in Nat : [c EXCEPT !.step = step, !.base = n] \in Command
           /\ \A member \in [Slugs -> Membership] :
                 [c EXCEPT !.step = step, !.member = member] \in Command
           /\ \A roster \in SUBSET Slugs, home \in Slugs :
                 [c EXCEPT !.step = step, !.roster = roster, !.homeSlug = home] \in Command
           /\ \A rec \in Record :
                 [c EXCEPT !.step = step, !.record = rec] \in Command
           /\ \A rec \in Record, paths \in SUBSET Path :
                 [c EXCEPT !.step = step, !.record = rec, !.removed = paths] \in Command
           /\ \A paths \in SUBSET Path, files \in SUBSET (Slugs \X Kinds) :
                 [c EXCEPT !.step = step, !.removed = paths, !.files = files] \in Command
BY DEF Command

\* A step of a publisher keeps the types.
LEMMA PublisherStepType ==
    ASSUME TypeOK, NEW p \in Publishers, PublisherStep(p)
    PROVE  TypeOK'
<1> USE DEF TypeOK
<1> DEFINE c == cmd[p]
<1>0. c \in Command /\ [cmd EXCEPT ![p] = IdleCommand] \in [Publishers -> Command]
  BY IdleTypes
<1> DEFINE steps == {"idle", "roster", "claims", "record", "list", "member", "head",
                     "ref", "dispatch"}
<1>9. CommandSteps = steps
  BY DEF CommandSteps
<1>1. CASE ReadRoster(p)
  <2>1. ASSUME NEW step \in {"record", "claims"}
        PROVE  [cmd EXCEPT ![p].step = step, ![p].roster = tree.declared,
                           ![p].homeSlug = tree.home] \in [Publishers -> Command]
    BY <1>0, <1>9, CommandUpdateType DEF Tree
  <2>2. cmd' \in [Publishers -> Command]
    BY <1>0, <1>1, <2>1 DEF ReadRoster
  <2> QED
    BY <1>1, <2>2 DEF ReadRoster
<1>2. CASE ReadClaims(p)
  <2>1. [cmd EXCEPT ![p].step = "record"] \in [Publishers -> Command]
    BY <1>0, <1>9, CommandUpdateType
  <2>2. cmd' \in [Publishers -> Command]
    BY <1>0, <1>2, <2>1 DEF ReadClaims
  <2> QED
    BY <1>2, <2>2 DEF ReadClaims
<1>3. CASE ReadRecord(p)
  <2> DEFINE rec  == tree.record[c.slug]
             plan == PrunePlan(rec, CommandOwner(c), CommandProduced(c))
  <2>1. rec \in Record /\ CommandOwner(c) \in Owners /\ CommandProduced(c) \in SUBSET Path
    BY <1>0, CommandProducedType DEF Command, Tree, CommandOwner, Owners
  <2>2. plan.updated \in Record /\ plan.removed \in SUBSET Path
    BY <2>1, PruneType
  <2> HIDE DEF rec, plan
  <2>3. [cmd EXCEPT ![p].step = "list", ![p].record = rec] \in [Publishers -> Command]
    BY <1>0, <1>9, <2>1, CommandUpdateType
  <2>4. ASSUME NEW step \in {"member", "head"}
        PROVE  [cmd EXCEPT ![p].step = step, ![p].record = plan.updated,
                           ![p].removed = plan.removed] \in [Publishers -> Command]
    BY <1>0, <1>9, <2>2, CommandUpdateType
  <2>5. cmd' \in [Publishers -> Command]
    BY <1>3, <2>3, <2>4 DEF ReadRecord, rec, plan
  <2> QED
    BY <1>3, <2>5 DEF ReadRecord
<1>4. CASE ListPaths(p)
  <2> DEFINE paths == RetirePaths(tree, c.slug, Claimed(c.record))
             files == RetireManifests(tree, c.slug)
  <2>1. paths \in SUBSET Path /\ files \in SUBSET (Slugs \X Kinds)
    BY DEF RetirePaths, RetireManifests, Emitted
  <2> HIDE DEF paths, files
  <2>2. [cmd EXCEPT ![p].step = "member", ![p].removed = paths, ![p].files = files]
            \in [Publishers -> Command]
    BY <1>0, <1>9, <2>1, CommandUpdateType
  <2> QED
    BY <1>4, <2>2 DEF ListPaths, paths, files
<1>5. CASE ReadMembership(p)
  <2>1. [cmd EXCEPT ![p].step = "head", ![p].member = tree.member] \in [Publishers -> Command]
    BY <1>0, <1>9, CommandUpdateType DEF Tree
  <2> QED
    BY <1>5, <2>1 DEF ReadMembership
<1>6. CASE ReadHead(p)
  <2>1. /\ [cmd EXCEPT ![p].step = "ref", ![p].base = head] \in [Publishers -> Command]
        /\ [cmd EXCEPT ![p].step = "dispatch"] \in [Publishers -> Command]
    BY <1>0, <1>9, CommandUpdateType
  <2> QED
    BY <1>6, <2>1 DEF ReadHead
<1>7. CASE UpdateRef(p)
  <2>1. Pushed(tree, c) \in Tree
    BY <1>0, PushedType
  <2>2. [cmd EXCEPT ![p].step = "dispatch"] \in [Publishers -> Command]
    BY <1>0, <1>9, CommandUpdateType
  <2> QED
    BY <1>0, <1>7, <2>1, <2>2 DEF UpdateRef
<1>8. CASE DispatchSharedRebuild(p)
  BY <1>0, <1>8, IdleTypes DEF DispatchSharedRebuild
<1> QED
  BY <1>1, <1>2, <1>3, <1>4, <1>5, <1>6, <1>7, <1>8 DEF PublisherStep

LEMMA StepType == TypeOK /\ [Next]_vars => TypeOK'
<1> SUFFICES ASSUME TypeOK, [Next]_vars
             PROVE  TypeOK'
  OBVIOUS
<1> USE DEF TypeOK
<1>1. CASE \E job \in OfferedJobs : Dispatch(job)
  BY <1>1, ConfigAssumption, SpendType DEF Dispatch
<1>2. CASE \E r \in Runners : RunStep(r) \/ RunFault(r)
  BY <1>2, RunStepType, RunFaultType
<1>3. CASE \E p \in Publishers, c \in OfferedCommands : Begin(p, c)
  <2>1. PICK p \in Publishers, c \in OfferedCommands : Begin(p, c)
    BY <1>3
  <2>2. c \in NewCommand
    BY ConfigAssumption
  <2> DEFINE home == c.kind = "docs" /\ c.slug = tree.home
  <2>3. home \in BOOLEAN
    OBVIOUS
  <2> HIDE DEF home
  <2>4. [IdleCommand EXCEPT !.step = "roster", !.kind = c.kind, !.slug = c.slug,
                            !.build = c.build, !.home = home] \in Command
    BY <2>2, <2>3, IdleTypes DEF Command, CommandSteps, NewCommand
  <2>5. cmd' \in [Publishers -> Command]
    BY <2>1, <2>4 DEF Begin, home
  <2> QED
    BY <2>1, <2>5, SpendType DEF Begin
<1>4. CASE \E p \in Publishers : PublisherStep(p) \/ CommandDies(p)
  <2>1. ASSUME NEW p \in Publishers, CommandDies(p)
        PROVE  TypeOK'
    BY <2>1, SpendType, IdleTypes DEF CommandDies
  <2> QED
    BY <1>4, <2>1, PublisherStepType
<1>5. CASE \E edit \in OfferedRosters : EditRoster(edit)
  <2>1. PICK edit \in OfferedRosters : EditRoster(edit)
    BY <1>5
  <2>2. edit.declared \in SUBSET Slugs /\ edit.home \in Slugs
    BY ConfigAssumption
  <2>3. tree' \in Tree
    BY <2>1, <2>2 DEF EditRoster, Tree
  <2> QED
    BY <2>1, <2>3, SpendType DEF EditRoster
<1>6. CASE UNCHANGED vars
  BY <1>6 DEF vars
<1> QED
  BY <1>1, <1>2, <1>3, <1>4, <1>5, <1>6 DEF Next

\* Every reachable state is well typed, whatever the projects, the builds, the
\* number of runs and publishers, and the interleaving: in particular every
\* checkout, every commit and the live site stay trees, and every record keeps
\* the three owners' sections AssemblyFiles declares.
THEOREM TypeCorrect == Spec => []TypeOK
BY InitType, StepType, PTL DEF Spec

-----------------------------------------------------------------------------
(***************************************************************************)
(* What the concurrency group of the workflow is for: when runs execute    *)
(* one at a time, the live site never goes back to an older commit.        *)
(***************************************************************************)

\* At most one run is executing, what is live is no newer than the branch, and
\* what is about to be deployed no older than what is live.
SerialInv ==
    /\ TypeOK
    /\ live.commit <= head
    /\ \A r, q \in Runners : r # q => run[r].phase = "idle" \/ run[q].phase = "idle"
    /\ \A r \in Runners : run[r].phase = "deploy" => /\ live.commit <= run[r].base
                                                     /\ run[r].base <= head

LEMMA SerialInit == Init => SerialInv
BY InitType DEF Init, SerialInv, IdleRun

\* One run moved on, everything else about the runs stands.
LEMMA OneRunMoves ==
    ASSUME SerialInv, TypeOK', NEW r \in Runners,
           \A q \in Runners \ {r} : run'[q] = run[q],
           run[r].phase # "idle" \/ (\A q \in Runners : run[q].phase = "idle"),
           live' = live, head' >= head,
           run'[r].phase = "deploy" => live.commit <= run'[r].base /\ run'[r].base <= head'
    PROVE  SerialInv'
<1>1. /\ head \in Nat /\ head' \in Nat /\ live.commit \in Nat
      /\ \A q \in Runners : run[q].base \in Nat /\ run'[q].base \in Nat
  BY DEF SerialInv, TypeOK, Run
<1>2. \A q \in Runners \ {r} : run'[q].phase = "idle"
  BY DEF SerialInv
<1>3. \A q \in Runners : run'[q].phase = "deploy" => /\ live.commit <= run'[q].base
                                                     /\ run'[q].base <= head'
  BY <1>2
<1>4. live'.commit <= head'
  BY <1>1 DEF SerialInv
<1> QED
  BY <1>2, <1>3, <1>4 DEF SerialInv

LEMMA SerialStep ==
    ASSUME Serialized, SerialInv, [Next]_vars
    PROVE  SerialInv' /\ live'.commit >= live.commit
<1>0. /\ TypeOK' /\ head \in Nat /\ live.commit \in Nat /\ run \in [Runners -> Run]
      /\ live.commit <= head
      /\ \A q \in Runners : run[q].base \in Nat
      /\ IdleRun.phase = "idle"
  BY StepType DEF SerialInv, TypeOK, Run, IdleRun
<1>1. CASE \E r \in Runners : RunStep(r) \/ RunFault(r)
  <2>1. PICK r \in Runners : RunStep(r) \/ RunFault(r)
    BY <1>1
  <2>2. CASE StartRun(r)
    <3>1. run'[r].phase = "sync" /\ \A q \in Runners \ {r} : run'[q] = run[q]
      BY <1>0, <2>2 DEF StartRun, IdleRun
    <3> QED
      BY <1>0, <2>2, <3>1, OneRunMoves DEF StartRun
  <2>3. CASE Sync(r)
    <3>1. /\ run'[r].phase \in {"push", "idle"}
          /\ \A q \in Runners \ {r} : run'[q] = run[q]
      BY <1>0, <2>3 DEF Sync, Run
    <3> QED
      BY <1>0, <2>3, <3>1, OneRunMoves DEF Sync
  <2>4. CASE PushAccepted(r)
    <3>1. run'[r].base = head' /\ \A q \in Runners \ {r} : run'[q] = run[q]
      BY <1>0, <2>4 DEF PushAccepted, Run
    <3>2. head' \in {head, head + 1}
      BY <2>4 DEF PushAccepted
    <3> QED
      BY <1>0, <2>4, <3>1, <3>2, OneRunMoves DEF PushAccepted
  <2>5. CASE PushRejected(r) \/ PushLost(r)
    <3>1. /\ run'[r].phase \in {"sync", "idle"}
          /\ \A q \in Runners \ {r} : run'[q] = run[q]
      BY <1>0, <2>5 DEF PushRejected, PushLost, Retry, Run
    <3>2. head' \in {head, head + 1} /\ live' = live /\ run[r].phase = "push"
      BY <2>5 DEF PushRejected, PushLost
    <3> QED
      BY <1>0, <3>1, <3>2, OneRunMoves
  <2>6. CASE PushTimedOut(r) \/ RunDies(r)
    <3>1. run'[r].phase = "idle" /\ \A q \in Runners \ {r} : run'[q] = run[q]
      BY <1>0, <2>6 DEF PushTimedOut, RunDies
    <3> QED
      BY <1>0, <2>6, <3>1, OneRunMoves DEF PushTimedOut, RunDies
  <2>7. CASE Deploy(r)
    <3>1. /\ run[r].phase = "deploy" /\ live'.commit = run[r].base /\ head' = head
          /\ run'[r].phase = "idle"
          /\ \A q \in Runners \ {r} : run'[q] = run[q]
      BY <1>0, <2>7 DEF Deploy
    <3>2. live.commit <= run[r].base /\ run[r].base <= head
      BY <3>1 DEF SerialInv
    <3>3. \A q \in Runners : run'[q].phase = "idle"
      BY <3>1 DEF SerialInv
    <3> QED
      BY <1>0, <3>1, <3>2, <3>3 DEF SerialInv
  <2> QED
    BY <2>1, <2>2, <2>3, <2>4, <2>5, <2>6, <2>7 DEF RunStep, RunFault
<1>2. CASE UNCHANGED <<run, live>> /\ head' \in {head, head + 1}
  <2>1. \A q \in Runners : run[q].base <= head => run[q].base <= head'
    BY <1>0, <1>2
  <2> QED
    BY <1>0, <1>2, <2>1 DEF SerialInv
<1>3. ASSUME NEW p \in Publishers, PublisherStep(p) \/ CommandDies(p)
      PROVE  UNCHANGED <<run, live>> /\ head' \in {head, head + 1}
  BY <1>3 DEF PublisherStep, ReadRoster, ReadClaims, ReadRecord, ListPaths, ReadMembership,
              ReadHead, UpdateRef, DispatchSharedRebuild, CommandDies
<1> QED
  BY <1>1, <1>2, <1>3 DEF Next, vars, Dispatch, Begin, EditRoster

\* With the concurrency group honoured, no deploy replaces the live site by an
\* older commit's, whatever is pushed in between and whichever runs die.
THEOREM DeploysGoForward ==
    ASSUME Serialized
    PROVE  Spec => LiveNeverGoesBack
<1>1. SerialInv /\ [Next]_vars => SerialInv' /\ live'.commit >= live.commit
  BY SerialStep
<1>2. SerialInv /\ [Next]_vars => [live'.commit >= live.commit]_vars
  BY <1>1
<1> QED
  BY <1>1, <1>2, SerialInit, PTL DEF Spec, LiveNeverGoesBack

-----------------------------------------------------------------------------
(***************************************************************************)
(* Why the retry loop of IntegrateProject makes an integrate atomic, and   *)
(* why only verified trees go live.  The inductive invariant is CommitInv; *)
(* its heart is WorkIsCurrent, which ties what a run is about to push to   *)
(* the branch it would push to.                                            *)
(***************************************************************************)

CommitInv == TypeOK /\ WorkIsCurrent /\ LiveIsVerified

\* What WorkIsCurrent says of one run, and of one publisher.
RunIsCurrent(r) ==
    /\ run[r].job \in Jobs
    /\ run[r].phase \in {"push", "deploy"} => VerifyAssembly(run[r].work)
    /\ run[r].phase = "push" =>
          /\ run[r].base <= head
          /\ run[r].base = head => /\ Accepts(tree, run[r].job)
                                   /\ run[r].work = Integrated(tree, run[r].job)

FilesAreOwn(p) == \A file \in cmd[p].files : ManifestFileOf(file[1], cmd[p].slug)

LEMMA WorkIsCurrentParts ==
    WorkIsCurrent <=> /\ queue \in Seq(Jobs)
                      /\ \A r \in Runners : RunIsCurrent(r)
                      /\ \A p \in Publishers : FilesAreOwn(p)
                      /\ AbsentManifestsAreEmpty(tree)
BY DEF WorkIsCurrent, RunIsCurrent, FilesAreOwn

LEMMA WorkStaysCurrent ==
    ASSUME queue' \in Seq(Jobs),
           \A r \in Runners : RunIsCurrent(r)',
           \A p \in Publishers : FilesAreOwn(p)',
           AbsentManifestsAreEmpty(tree')
    PROVE  WorkIsCurrent'
BY DEF WorkIsCurrent, RunIsCurrent, FilesAreOwn

-----------------------------------------------------------------------------
(* Absent manifests stay empty.                                            *)

LEMMA KeptManifests ==
    ASSUME NEW t \in Tree, NEW kept \in [Slugs -> SUBSET Kinds]
    PROVE  AbsentManifestsAreEmpty(KeepManifests(t, kept))
BY DEF KeepManifests, AbsentManifestsAreEmpty, Tree

LEMMA IntegratedManifests ==
    ASSUME NEW t \in Tree, NEW job \in Job, AbsentManifestsAreEmpty(t)
    PROVE  AbsentManifestsAreEmpty(Integrated(t, job))
<1>1. ReconcileMembership(t) \in Tree
  BY ReconcileType
<1>2. AbsentManifestsAreEmpty(ReconcileMembership(t))
  <2> DEFINE dirs == Retired(t)
             retired == dirs \cap Slugs
             claims == ClaimsOfRetired(t, retired)
             kept == [x \in Slugs |-> KeptKinds(t, retired, x)]
  <2>1. kept \in [Slugs -> SUBSET Kinds]
    BY DEF KeptKinds, Tree
  <2>2. KeepManifests(t, kept) \in Tree /\ AbsentManifestsAreEmpty(KeepManifests(t, kept))
    BY <2>1, KeepManifestsType, KeptManifests
  <2> HIDE DEF dirs, retired, claims, kept
  <2> QED
    BY <2>2 DEF ReconcileMembership, AbsentManifestsAreEmpty, Tree, dirs, retired, claims, kept
<1>3. ASSUME NEW u \in Tree, AbsentManifestsAreEmpty(u)
      PROVE  AbsentManifestsAreEmpty(ApplyProjectFiles(u, job))
  <2> DEFINE s == job.slug
             produced == Produced(u, job)
             plan == PrunePlan(u.record[s], Owner(job), produced)
             site == GraftSubtree(u.site, s, produced, plan.removed)
             grafted == [u EXCEPT !.site = site, !.record[s] = plan.updated]
             overlay == FoldPostsIntoOverlay(u, job)
  <2>1. s \in Slugs
    BY DEF Job
  <2>2. "posts" \notin u.kinds[s] => overlay = {}
    BY DEF FoldPostsIntoOverlay
  <2> HIDE DEF s, produced, plan, site, overlay
  <2>3. CASE NothingToPublish(job)
    BY <1>3, <2>3 DEF ApplyProjectFiles
  <2>4. CASE ~NothingToPublish(job) /\ job.scope = "posts"
    <3> DEFINE result == [grafted EXCEPT !.kinds[s] = @ \cup {"files", "posts"},
                                         !.overlay[s] = job.build.posts]
    <3>1. ApplyProjectFiles(u, job) = result
      BY <2>4 DEF ApplyProjectFiles, s, produced, plan, site, overlay
    <3>2. AbsentManifestsAreEmpty(result)
      BY <1>3, <2>1 DEF AbsentManifestsAreEmpty, Tree
    <3> QED
      BY <3>1, <3>2
  <2>5. CASE ~NothingToPublish(job) /\ job.scope # "posts"
    <3> DEFINE listing == IF s = u.home THEN {"listing"} ELSE {}
               result == [grafted EXCEPT !.kinds[s] = @ \cup {"files", "base"} \cup listing,
                                         !.pages[s] = job.build.pages,
                                         !.posts[s] = job.build.posts,
                                         !.overlay[s] = overlay]
    <3>1. ApplyProjectFiles(u, job) = result
      BY <2>5 DEF ApplyProjectFiles, s, produced, plan, site, overlay
    <3>2. "posts" \notin listing
      OBVIOUS
    <3> HIDE DEF listing
    <3>3. AbsentManifestsAreEmpty(result)
      BY <1>3, <2>1, <2>2, <3>2 DEF AbsentManifestsAreEmpty, Tree
    <3> QED
      BY <3>1, <3>3
  <2> QED
    BY <2>3, <2>4, <2>5
<1>4. ASSUME NEW u \in Tree, AbsentManifestsAreEmpty(u)
      PROVE  AbsentManifestsAreEmpty(RecordMembership(u, job.slug))
  BY <1>4 DEF RecordMembership, AbsentManifestsAreEmpty, Tree
<1>5. ApplyProjectFiles(ReconcileMembership(t), job) \in Tree
  BY <1>1, ApplyType
<1>6. Grafted(t, job) \in Tree /\ AbsentManifestsAreEmpty(Grafted(t, job))
  BY <1>1, <1>2, <1>3, <1>4, <1>5 DEF Grafted, RecordMembership, Tree, Membership
<1>7. ASSUME NEW u \in Tree, AbsentManifestsAreEmpty(u)
      PROVE  AbsentManifestsAreEmpty(GenerateSharedFiles(u))
  BY <1>7 DEF GenerateSharedFiles, AbsentManifestsAreEmpty, Tree
<1> QED
  BY <1>6, <1>7 DEF Integrated

LEMMA PushedManifests ==
    ASSUME NEW t \in Tree, NEW c \in Command, AbsentManifestsAreEmpty(t)
    PROVE  AbsentManifestsAreEmpty(Pushed(t, c))
<1> DEFINE site == GraftSubtree(t.site, c.slug, CommandProduced(c), c.removed)
           kept == [x \in Slugs |-> {k \in t.kinds[x] : <<x, k>> \notin c.files}]
           listing == IF c.home THEN {"listing"} ELSE {}
<1>1. c.slug \in Slugs /\ c.kind \in CommandKinds
  BY DEF Command
<1>2. AbsentManifestsAreEmpty(PushDocs(t, c))
  <2>1. "posts" \notin listing
    OBVIOUS
  <2> HIDE DEF site, listing
  <2>2. AbsentManifestsAreEmpty(
            [t EXCEPT !.site = site,
                      !.record[c.slug] = c.record,
                      !.kinds[c.slug] = @ \cup {"files", "base"} \cup listing,
                      !.pages[c.slug] = c.build.pages,
                      !.posts[c.slug] = c.build.posts,
                      !.member = [c.member EXCEPT ![c.slug] = PublishedMember(c)]])
    BY <1>1, <2>1 DEF AbsentManifestsAreEmpty, Tree
  <2> QED
    BY <2>2 DEF PushDocs, site, listing
<1>3. AbsentManifestsAreEmpty(PushPosts(t, c))
  <2> HIDE DEF site
  <2>1. AbsentManifestsAreEmpty(
            [t EXCEPT !.site = site,
                      !.record[c.slug] = c.record,
                      !.kinds[c.slug] = @ \cup {"files", "posts"},
                      !.overlay[c.slug] = c.build.posts])
    BY <1>1 DEF AbsentManifestsAreEmpty, Tree
  <2> QED
    BY <2>1 DEF PushPosts, site
<1>4. AbsentManifestsAreEmpty(PushRetire(t, c))
  <2>1. kept \in [Slugs -> SUBSET Kinds]
    BY DEF Tree
  <2>2. KeepManifests(t, kept) \in Tree /\ AbsentManifestsAreEmpty(KeepManifests(t, kept))
    BY <2>1, KeepManifestsType, KeptManifests
  <2> HIDE DEF kept
  <2> QED
    BY <2>2 DEF PushRetire, AbsentManifestsAreEmpty, Tree, kept
<1> QED
  BY <1>1, <1>2, <1>3, <1>4 DEF Pushed, CommandKinds

-----------------------------------------------------------------------------
(* The branch only moves by committing, and a run whose base is the head    *)
(* has been overtaken by nobody.                                           *)

BranchMoves == /\ head' \in {head, head + 1}
               /\ head' = head => tree' = tree

LEMMA OvertakenRuns ==
    ASSUME TypeOK, BranchMoves, NEW q \in Runners, RunIsCurrent(q), run'[q] = run[q]
    PROVE  RunIsCurrent(q)'
<1>1. run[q].base \in Nat /\ head \in Nat
  BY DEF TypeOK, Run
<1>2. run[q].phase = "push" => run[q].base <= head'
  BY <1>1 DEF RunIsCurrent, BranchMoves
<1>3. run[q].phase = "push" /\ run[q].base = head' => head' = head /\ tree' = tree
  BY <1>1 DEF RunIsCurrent, BranchMoves
<1> QED
  BY <1>2, <1>3 DEF RunIsCurrent

LEMMA OtherRuns ==
    ASSUME TypeOK, WorkIsCurrent, BranchMoves, NEW r \in Runners,
           \A q \in Runners \ {r} : run'[q] = run[q], RunIsCurrent(r)'
    PROVE  \A q \in Runners : RunIsCurrent(q)'
BY WorkIsCurrentParts, OvertakenRuns

LEMMA IdleRunIsCurrent == IdleRun.job \in Jobs /\ IdleRun.phase = "idle"
BY DEF IdleRun, Jobs

LEMMA RetryIsCurrent ==
    ASSUME TypeOK, WorkIsCurrent, NEW r \in Runners, Retry(r)
    PROVE  RunIsCurrent(r)' /\ \A q \in Runners \ {r} : run'[q] = run[q]
<1>1. run \in [Runners -> Run] /\ run[r].job \in Jobs
  BY DEF TypeOK, WorkIsCurrent
<1>2. run'[r].phase \in {"sync", "idle"} /\ run'[r].job \in Jobs
  BY <1>1, IdleRunIsCurrent DEF Retry, Run
<1>3. \A q \in Runners \ {r} : run'[q] = run[q]
  BY <1>1 DEF Retry
<1> QED
  BY <1>2, <1>3 DEF RunIsCurrent

\* A run that pushes onto the head it synced to commits an integration of it.
LEMMA CurrentPush ==
    ASSUME TypeOK, WorkIsCurrent, NEW r \in Runners,
           run[r].phase = "push", run[r].base = head
    PROVE  /\ run[r].job \in Jobs
           /\ Accepts(tree, run[r].job)
           /\ run[r].work = Integrated(tree, run[r].job)
           /\ AbsentManifestsAreEmpty(run[r].work)
<1>1. run[r].job \in Job
  BY DEF TypeOK, Run
<1>2. AbsentManifestsAreEmpty(Integrated(tree, run[r].job))
  BY <1>1, IntegratedManifests DEF TypeOK, WorkIsCurrent
<1> QED
  BY <1>2 DEF WorkIsCurrent

LEMMA RunStepIsCurrent ==
    ASSUME TypeOK, WorkIsCurrent, LiveIsVerified, NEW r \in Runners, RunStep(r)
    PROVE  WorkIsCurrent' /\ LiveIsVerified'
<1>0. /\ queue \in Seq(Jobs) /\ RunIsCurrent(r) /\ AbsentManifestsAreEmpty(tree)
      /\ \A p \in Publishers : FilesAreOwn(p)
      /\ run \in [Runners -> Run] /\ head \in Nat
      /\ run[r] \in Run
  BY WorkIsCurrentParts DEF TypeOK
<1>f. (cmd' = cmd => \A p \in Publishers : FilesAreOwn(p)')
      /\ (live' = live => LiveIsVerified')
  BY <1>0 DEF FilesAreOwn, LiveIsVerified
<1>1. CASE StartRun(r)
  <2>1. Head(queue) \in Jobs /\ Tail(queue) \in Seq(Jobs)
    BY <1>0, <1>1 DEF StartRun
  <2>2. run'[r].phase = "sync" /\ run'[r].job \in Jobs
    BY <1>0, <1>1, <2>1 DEF StartRun, IdleRun
  <2>3. RunIsCurrent(r)'
    BY <2>2 DEF RunIsCurrent
  <2>4. BranchMoves /\ \A q \in Runners \ {r} : run'[q] = run[q]
    BY <1>0, <1>1 DEF StartRun, BranchMoves
  <2>5. \A q \in Runners : RunIsCurrent(q)'
    BY <2>3, <2>4, OtherRuns
  <2> QED
    BY <1>0, <1>1, <1>f, <2>1, <2>5, WorkStaysCurrent DEF StartRun
<1>2. CASE Sync(r)
  <2> DEFINE job == run[r].job
             work == Integrated(tree, job)
             pushing == [run EXCEPT ![r].phase = "push", ![r].base = head, ![r].work = work]
  <2>1. Accepts(tree, job) => VerifyAssembly(work)
    BY DEF Accepts
  <2>2. pushing[r].phase = "push" /\ pushing[r].job = job /\ pushing[r].base = head
        /\ pushing[r].work = work
    BY <1>0 DEF Run
  <2>3. tree' = tree /\ head' = head
    BY <1>2 DEF Sync
  <2> HIDE DEF work, pushing
  <2>4. RunIsCurrent(r)'
    <3>1. CASE Accepts(tree, job) /\ run' = pushing
      BY <1>0, <2>1, <2>2, <2>3, <3>1 DEF RunIsCurrent, work
    <3>2. CASE run' = [run EXCEPT ![r] = IdleRun]
      BY <1>0, <3>2, IdleRunIsCurrent DEF RunIsCurrent
    <3> QED
      BY <1>2, <3>1, <3>2 DEF Sync, work, pushing
  <2>5. BranchMoves /\ \A q \in Runners \ {r} : run'[q] = run[q]
    BY <1>0, <1>2 DEF Sync, BranchMoves
  <2>6. \A q \in Runners : RunIsCurrent(q)'
    BY <2>4, <2>5, OtherRuns
  <2> QED
    BY <1>0, <1>2, <1>f, <2>3, <2>6, WorkStaysCurrent DEF Sync
<1>3. CASE PushAccepted(r)
  <2>1. /\ run'[r].phase = "deploy" /\ run'[r].job = run[r].job
        /\ run'[r].work = run[r].work
    BY <1>0, <1>3 DEF PushAccepted, Run
  <2>2. RunIsCurrent(r)'
    BY <1>0, <1>3, <2>1 DEF PushAccepted, RunIsCurrent
  <2>3. BranchMoves /\ \A q \in Runners \ {r} : run'[q] = run[q]
    BY <1>0, <1>3 DEF PushAccepted, BranchMoves
  <2>4. \A q \in Runners : RunIsCurrent(q)'
    BY <2>2, <2>3, OtherRuns
  <2>5. AbsentManifestsAreEmpty(tree')
    BY <1>3, CurrentPush DEF PushAccepted
  <2> QED
    BY <1>0, <1>3, <1>f, <2>4, <2>5, WorkStaysCurrent DEF PushAccepted
<1>4. CASE PushRejected(r)
  <2>1. BranchMoves
    BY <1>0, <1>4 DEF PushRejected, BranchMoves
  <2>2. \A q \in Runners : RunIsCurrent(q)'
    BY <1>4, <2>1, RetryIsCurrent, OtherRuns DEF PushRejected
  <2> QED
    BY <1>0, <1>4, <1>f, <2>2, WorkStaysCurrent DEF PushRejected
<1>5. CASE Deploy(r)
  <2>1. LiveIsVerified'
    BY <1>0, <1>5 DEF Deploy, RunIsCurrent, LiveIsVerified
  <2>2. run'[r] = IdleRun /\ \A q \in Runners \ {r} : run'[q] = run[q]
    BY <1>0, <1>5 DEF Deploy
  <2>3. RunIsCurrent(r)' /\ BranchMoves
    BY <1>0, <1>5, <2>2, IdleRunIsCurrent DEF Deploy, RunIsCurrent, BranchMoves
  <2>4. \A q \in Runners : RunIsCurrent(q)'
    BY <2>2, <2>3, OtherRuns
  <2> QED
    BY <1>0, <1>5, <1>f, <2>1, <2>4, WorkStaysCurrent DEF Deploy
<1> QED
  BY <1>1, <1>2, <1>3, <1>4, <1>5 DEF RunStep

LEMMA RunFaultIsCurrent ==
    ASSUME TypeOK, WorkIsCurrent, LiveIsVerified, NEW r \in Runners, RunFault(r)
    PROVE  WorkIsCurrent' /\ LiveIsVerified'
<1>0. /\ queue \in Seq(Jobs) /\ AbsentManifestsAreEmpty(tree)
      /\ \A p \in Publishers : FilesAreOwn(p)
      /\ run \in [Runners -> Run] /\ head \in Nat
  BY WorkIsCurrentParts DEF TypeOK
<1>f. (cmd' = cmd => \A p \in Publishers : FilesAreOwn(p)')
      /\ (live' = live => LiveIsVerified')
  BY <1>0 DEF FilesAreOwn, LiveIsVerified
<1>1. CASE PushLost(r)
  <2>1. BranchMoves
    BY <1>0, <1>1 DEF PushLost, BranchMoves
  <2>2. \A q \in Runners : RunIsCurrent(q)'
    BY <1>1, <2>1, RetryIsCurrent, OtherRuns DEF PushLost
  <2>3. AbsentManifestsAreEmpty(tree')
    BY <1>0, <1>1, CurrentPush DEF PushLost
  <2> QED
    BY <1>0, <1>1, <1>f, <2>2, <2>3, WorkStaysCurrent DEF PushLost
<1>2. CASE PushTimedOut(r)
  <2>1. run'[r] = IdleRun /\ \A q \in Runners \ {r} : run'[q] = run[q]
    BY <1>0, <1>2 DEF PushTimedOut
  <2>2. RunIsCurrent(r)' /\ BranchMoves
    BY <1>0, <1>2, <2>1, IdleRunIsCurrent DEF PushTimedOut, RunIsCurrent, BranchMoves
  <2>3. \A q \in Runners : RunIsCurrent(q)'
    BY <2>1, <2>2, OtherRuns
  <2>4. AbsentManifestsAreEmpty(tree')
    BY <1>2, CurrentPush DEF PushTimedOut
  <2> QED
    BY <1>0, <1>2, <1>f, <2>3, <2>4, WorkStaysCurrent DEF PushTimedOut
<1>3. CASE RunDies(r)
  <2>1. run'[r] = IdleRun /\ \A q \in Runners \ {r} : run'[q] = run[q]
    BY <1>0, <1>3 DEF RunDies
  <2>2. RunIsCurrent(r)' /\ BranchMoves
    BY <1>0, <1>3, <2>1, IdleRunIsCurrent DEF RunDies, RunIsCurrent, BranchMoves
  <2>3. \A q \in Runners : RunIsCurrent(q)'
    BY <2>1, <2>2, OtherRuns
  <2> QED
    BY <1>0, <1>3, <1>f, <2>3, WorkStaysCurrent DEF RunDies
<1> QED
  BY <1>1, <1>2, <1>3 DEF RunFault

LEMMA PublisherIsCurrent ==
    ASSUME TypeOK, WorkIsCurrent, LiveIsVerified,
           NEW p \in Publishers, PublisherStep(p) \/ CommandDies(p)
    PROVE  WorkIsCurrent' /\ LiveIsVerified'
<1> DEFINE c == cmd[p]
<1>0. /\ queue \in Seq(Jobs) /\ AbsentManifestsAreEmpty(tree)
      /\ \A r \in Runners : RunIsCurrent(r)
      /\ \A q \in Publishers : FilesAreOwn(q)
      /\ cmd \in [Publishers -> Command] /\ head \in Nat /\ tree \in Tree
      /\ SharedOnlyJob \in Jobs
  BY WorkIsCurrentParts DEF TypeOK, Jobs
<1>1. run' = run /\ live' = live
  BY DEF PublisherStep, ReadRoster, ReadClaims, ReadRecord, ListPaths, ReadMembership,
         ReadHead, UpdateRef, DispatchSharedRebuild, CommandDies
<1>2. queue' \in Seq(Jobs)
  <2>1. queue' = queue \/ queue' = Append(queue, SharedOnlyJob)
    BY DEF PublisherStep, ReadRoster, ReadClaims, ReadRecord, ListPaths, ReadMembership,
           ReadHead, UpdateRef, DispatchSharedRebuild, CommandDies
  <2> QED
    BY <1>0, <2>1
<1>3. BranchMoves /\ AbsentManifestsAreEmpty(tree')
  <2>1. CASE UpdateRef(p)
    BY <1>0, <2>1, PushedManifests DEF UpdateRef, BranchMoves
  <2>2. CASE UNCHANGED <<tree, head>>
    BY <1>0, <2>2 DEF BranchMoves
  <2> QED
    BY <2>1, <2>2 DEF PublisherStep, ReadRoster, ReadClaims, ReadRecord, ListPaths,
                      ReadMembership, ReadHead, DispatchSharedRebuild, CommandDies
<1>4. \A q \in Publishers \ {p} : cmd'[q] = cmd[q]
  BY <1>0 DEF PublisherStep, ReadRoster, ReadClaims, ReadRecord, ListPaths, ReadMembership,
              ReadHead, UpdateRef, DispatchSharedRebuild, CommandDies
<1>5. FilesAreOwn(p)'
  <2>1. CASE ListPaths(p)
    <3>1. cmd'[p].files = RetireManifests(tree, c.slug) /\ cmd'[p].slug = c.slug
      BY <1>0, <2>1 DEF ListPaths, Command
    <3> QED
      BY <3>1 DEF FilesAreOwn, RetireManifests
  <2>2. CASE cmd'[p].files = c.files /\ cmd'[p].slug = c.slug
    BY <1>0, <2>2 DEF FilesAreOwn
  <2>3. CASE cmd'[p] = IdleCommand
    BY <2>3 DEF FilesAreOwn, IdleCommand
  <2>4. ReadRoster(p) \/ ReadClaims(p) \/ ReadRecord(p) \/ ReadMembership(p) \/ ReadHead(p)
          => (cmd'[p].files = c.files /\ cmd'[p].slug = c.slug) \/ cmd'[p] = IdleCommand
    BY <1>0 DEF ReadRoster, ReadClaims, ReadRecord, ReadMembership, ReadHead, Command
  <2>5. UpdateRef(p) \/ DispatchSharedRebuild(p) \/ CommandDies(p)
          => (cmd'[p].files = c.files /\ cmd'[p].slug = c.slug) \/ cmd'[p] = IdleCommand
    BY <1>0 DEF UpdateRef, DispatchSharedRebuild, CommandDies, Command
  <2> QED
    BY <2>1, <2>2, <2>3, <2>4, <2>5 DEF PublisherStep
<1>6. \A q \in Publishers : FilesAreOwn(q)'
  BY <1>0, <1>4, <1>5 DEF FilesAreOwn
<1>7. \A r \in Runners : RunIsCurrent(r)'
  BY <1>0, <1>1, <1>3, OvertakenRuns
<1> QED
  BY <1>1, <1>2, <1>3, <1>6, <1>7, WorkStaysCurrent DEF LiveIsVerified

\* CommitInv is inductive.
LEMMA CommitInvInit == Init => CommitInv
<1> SUFFICES ASSUME Init PROVE CommitInv
  OBVIOUS
<1>1. TypeOK
  BY InitType
<1>2. \A r \in Runners : RunIsCurrent(r)
  BY IdleRunIsCurrent DEF Init, RunIsCurrent
<1>3. \A p \in Publishers : FilesAreOwn(p)
  BY DEF Init, FilesAreOwn, IdleCommand
<1> QED
  BY <1>1, <1>2, <1>3, ConfigAssumption, WorkIsCurrentParts
     DEF Init, CommitInv, LiveIsVerified

LEMMA CommitInvStep == CommitInv /\ [Next]_vars => CommitInv'
<1> SUFFICES ASSUME CommitInv, [Next]_vars
             PROVE  WorkIsCurrent' /\ LiveIsVerified'
  BY StepType DEF CommitInv
<1>0. /\ TypeOK /\ WorkIsCurrent /\ LiveIsVerified
      /\ queue \in Seq(Jobs) /\ AbsentManifestsAreEmpty(tree)
      /\ \A r \in Runners : RunIsCurrent(r)
      /\ \A q \in Publishers : FilesAreOwn(q)
      /\ cmd \in [Publishers -> Command] /\ head \in Nat /\ tree \in Tree
  BY WorkIsCurrentParts DEF TypeOK, CommitInv
<1>r. BranchMoves /\ run' = run => \A r \in Runners : RunIsCurrent(r)'
  BY <1>0, OvertakenRuns
<1>f. (cmd' = cmd => \A p \in Publishers : FilesAreOwn(p)')
      /\ (live' = live => LiveIsVerified')
  BY <1>0 DEF FilesAreOwn, LiveIsVerified
<1>1. CASE \E job \in OfferedJobs : Dispatch(job)
  <2>1. BranchMoves
    BY <1>0, <1>1 DEF Dispatch, BranchMoves
  <2>2. queue' \in Seq(Jobs)
    BY <1>0, <1>1 DEF Dispatch, Jobs
  <2> QED
    BY <1>0, <1>1, <1>r, <1>f, <2>1, <2>2, WorkStaysCurrent DEF Dispatch
<1>2. CASE \E r \in Runners : RunStep(r) \/ RunFault(r)
  BY <1>0, <1>2, RunStepIsCurrent, RunFaultIsCurrent
<1>3. CASE \E p \in Publishers, c \in OfferedCommands : Begin(p, c)
  <2>1. PICK p \in Publishers, c \in OfferedCommands : Begin(p, c)
    BY <1>3
  <2>2. cmd'[p].files = {} /\ \A q \in Publishers \ {p} : cmd'[q] = cmd[q]
    BY <1>0, <2>1 DEF Begin, IdleCommand
  <2>3. \A q \in Publishers : FilesAreOwn(q)'
    BY <1>0, <2>2 DEF FilesAreOwn
  <2>4. BranchMoves
    BY <1>0, <2>1 DEF Begin, BranchMoves
  <2> QED
    BY <1>0, <2>1, <1>r, <1>f, <2>3, <2>4, WorkStaysCurrent DEF Begin
<1>4. CASE \E p \in Publishers : PublisherStep(p) \/ CommandDies(p)
  BY <1>0, <1>4, PublisherIsCurrent
<1>5. CASE \E edit \in OfferedRosters : EditRoster(edit)
  <2>1. BranchMoves
    BY <1>0, <1>5 DEF EditRoster, BranchMoves
  <2>2. AbsentManifestsAreEmpty(tree')
    BY <1>0, <1>5 DEF EditRoster, AbsentManifestsAreEmpty, Tree
  <2> QED
    BY <1>0, <1>5, <1>r, <1>f, <2>1, <2>2, WorkStaysCurrent DEF EditRoster
<1>6. CASE UNCHANGED vars
  <2>1. BranchMoves
    BY <1>0, <1>6 DEF vars, BranchMoves
  <2> QED
    BY <1>0, <1>6, <1>r, <1>f, <2>1, WorkStaysCurrent DEF vars
<1> QED
  BY <1>1, <1>2, <1>3, <1>4, <1>5, <1>6 DEF Next

LEMMA CommitInvHolds == Spec => []CommitInv
BY CommitInvInit, CommitInvStep, PTL DEF Spec

\* Whatever publishers push and however runs are scheduled, what a run is about
\* to push is the integration of the branch as it stands, if it can be pushed
\* at all: no attempt of the retry loop carries anything over from an earlier one.
THEOREM RunsPushCurrentWork == Spec => []WorkIsCurrent
<1>1. CommitInv => WorkIsCurrent
  BY DEF CommitInv
<1> QED
  BY <1>1, CommitInvHolds, PTL

\* The deployed site has always passed the verification that VerifyBeforeDeploy
\* runs, although publishers and operators move the branch without it.
THEOREM OnlyVerifiedTreesGoLive == Spec => []LiveIsVerified
<1>1. CommitInv => LiveIsVerified
  BY DEF CommitInv
<1> QED
  BY <1>1, CommitInvHolds, PTL

-----------------------------------------------------------------------------
(* Assembly implements AtomicAssembly.                                     *)

LEMMA PushedIsOnlyOf ==
    ASSUME NEW t \in Tree, NEW c \in Command, AbsentManifestsAreEmpty(t),
           \A file \in c.files : ManifestFileOf(file[1], c.slug)
    PROVE  OnlyOf(c.slug, t, Pushed(t, c))
<1> DEFINE s == c.slug
           site == GraftSubtree(t.site, s, CommandProduced(c), c.removed)
           kept == [x \in Slugs |-> {k \in t.kinds[x] : <<x, k>> \notin c.files}]
<1>1. s \in Slugs /\ c.kind \in CommandKinds
  BY DEF Command
<1>2. \A path \in Path : site[path] \in {t.site[path], s, None}
  BY DEF GraftSubtree
<1>3. \A x \in Slugs : ~ManifestFileOf(x, s) => x # s
  BY DEF ManifestFileOf
<1>4. CASE c.kind = "docs"
  <2>1. Pushed(t, c) = PushDocs(t, c)
    BY <1>4 DEF Pushed
  <2> HIDE DEF s, site
  <2>2. OnlyOf(s, t, PushDocs(t, c))
    BY <1>1, <1>2, <1>3 DEF PushDocs, OnlyOf, Tree, s, site
  <2> QED
    BY <2>1, <2>2 DEF s
<1>5. CASE c.kind = "posts"
  <2>1. Pushed(t, c) = PushPosts(t, c)
    BY <1>5 DEF Pushed
  <2>2. OnlyOf(s, t, PushPosts(t, c))
    BY <1>1, <1>2, <1>3 DEF PushPosts, OnlyOf, Tree, s, site
  <2> QED
    BY <2>1, <2>2 DEF s
<1>6. CASE c.kind = "retire"
  <2>1. Pushed(t, c) = PushRetire(t, c)
    BY <1>6 DEF Pushed
  <2>2. \A x \in Slugs : ~ManifestFileOf(x, s) => kept[x] = t.kinds[x]
    BY DEF Tree
  <2>3. OnlyOf(s, t, PushRetire(t, c))
    BY <1>1, <2>2 DEF PushRetire, KeepManifests, AbsentManifestsAreEmpty, OnlyOf, Tree, s, kept
  <2> QED
    BY <2>1, <2>3 DEF s
<1> QED
  BY <1>1, <1>4, <1>5, <1>6 DEF CommandKinds

LEMMA StagedOfOneRun ==
    ASSUME NEW r \in Runners, \A q \in Runners \ {r} : run'[q] = run[q]
    PROVE  /\ Staged' \subseteq Staged \cup {run'[r].work}
           /\ run'[r].phase # "deploy" => Staged' \subseteq Staged
           /\ run[r].phase # "deploy" /\ run'[r].phase # "deploy" => Staged' = Staged
BY DEF Staged

\* A push that moves the branch is an atomic integrate.
LEMMA PushIsIntegrate ==
    ASSUME CommitInv, NEW r \in Runners, run[r].phase = "push", run[r].base = head,
           tree' = run[r].work, live' = live,
           \A q \in Runners \ {r} : run'[q] = run[q],
           run'[r].phase # "deploy" \/ run'[r].work = run[r].work
    PROVE  Atomic!Next
<1>1. /\ run[r].job \in Jobs
      /\ Accepts(tree, run[r].job)
      /\ tree' = Integrated(tree, run[r].job)
  BY CurrentPush DEF CommitInv
<1>2. Staged' \subseteq Staged \cup {tree'}
  BY StagedOfOneRun
<1>3. Atomic!Integrate(run[r].job)
  BY <1>1, <1>2 DEF Atomic!Integrate
<1> QED
  BY <1>1, <1>3 DEF Atomic!Next

AtomicStep == Atomic!Next \/ UNCHANGED <<tree, Staged, live.tree>>

LEMMA RunIsAtomic ==
    ASSUME CommitInv, NEW r \in Runners, RunStep(r) \/ RunFault(r)
    PROVE  AtomicStep
<1>0. run \in [Runners -> Run]
  BY DEF CommitInv, TypeOK
<1>1. CASE StartRun(r)
  <2>1. /\ run[r].phase = "idle" /\ run'[r].phase = "sync"
        /\ \A q \in Runners \ {r} : run'[q] = run[q]
    BY <1>0, <1>1 DEF StartRun, IdleRun
  <2> QED
    BY <1>1, <2>1, StagedOfOneRun DEF StartRun, AtomicStep
<1>2. CASE Sync(r)
  <2>1. /\ run[r].phase = "sync" /\ run'[r].phase \in {"push", "idle"}
        /\ \A q \in Runners \ {r} : run'[q] = run[q]
    BY <1>0, <1>2, IdleRunIsCurrent DEF Sync, Run
  <2> QED
    BY <1>2, <2>1, StagedOfOneRun DEF Sync, AtomicStep
<1>3. CASE PushAccepted(r)
  <2>1. run'[r].work = run[r].work /\ \A q \in Runners \ {r} : run'[q] = run[q]
    BY <1>0, <1>3 DEF PushAccepted, Run
  <2> QED
    BY <1>3, <2>1, PushIsIntegrate DEF PushAccepted, AtomicStep
<1>r. ASSUME Retry(r)
      PROVE  run'[r].phase # "deploy" /\ \A q \in Runners \ {r} : run'[q] = run[q]
  BY <1>0, <1>r, IdleRunIsCurrent DEF Retry, Run
<1>4. CASE PushRejected(r)
  BY <1>4, <1>r, StagedOfOneRun DEF PushRejected, AtomicStep
<1>5. CASE Deploy(r)
  <2>1. /\ run[r].phase = "deploy" /\ run'[r].phase = "idle"
        /\ \A q \in Runners \ {r} : run'[q] = run[q]
    BY <1>0, <1>5, IdleRunIsCurrent DEF Deploy
  <2>2. live'.tree \in Staged
    BY <1>5, <2>1 DEF Deploy, Staged
  <2>3. Staged' \subseteq Staged
    BY <2>1, StagedOfOneRun
  <2>4. Atomic!Deploy
    BY <1>5, <2>2, <2>3 DEF Deploy, Atomic!Deploy
  <2> QED
    BY <2>4 DEF Atomic!Next, AtomicStep
<1>6. CASE PushLost(r)
  <2>1. CASE UNCHANGED <<tree, head>>
    BY <1>6, <1>r, <2>1, StagedOfOneRun DEF PushLost, AtomicStep
  <2>2. CASE run[r].base = head /\ tree' = run[r].work
    BY <1>6, <1>r, <2>2, PushIsIntegrate DEF PushLost, AtomicStep
  <2> QED
    BY <1>6, <2>1, <2>2 DEF PushLost
<1>7. CASE PushTimedOut(r)
  <2>1. run'[r].phase = "idle" /\ \A q \in Runners \ {r} : run'[q] = run[q]
    BY <1>0, <1>7, IdleRunIsCurrent DEF PushTimedOut
  <2> QED
    BY <1>7, <2>1, PushIsIntegrate DEF PushTimedOut, AtomicStep
<1>8. CASE RunDies(r)
  <2>1. run'[r].phase = "idle" /\ \A q \in Runners \ {r} : run'[q] = run[q]
    BY <1>0, <1>8, IdleRunIsCurrent DEF RunDies
  <2>2. Atomic!Abandon
    BY <1>8, <2>1, StagedOfOneRun DEF RunDies, Atomic!Abandon
  <2> QED
    BY <2>2 DEF Atomic!Next, AtomicStep
<1> QED
  BY <1>1, <1>2, <1>3, <1>4, <1>5, <1>6, <1>7, <1>8 DEF RunStep, RunFault

LEMMA PublisherIsAtomic ==
    ASSUME CommitInv, NEW p \in Publishers, PublisherStep(p) \/ CommandDies(p)
    PROVE  AtomicStep
<1>0. cmd[p] \in Command /\ tree \in Tree
  BY DEF CommitInv, TypeOK
<1>1. run' = run /\ live' = live
  BY DEF PublisherStep, ReadRoster, ReadClaims, ReadRecord, ListPaths, ReadMembership,
         ReadHead, UpdateRef, DispatchSharedRebuild, CommandDies
<1>2. Staged' = Staged
  BY <1>1 DEF Staged
<1>3. CASE tree' = tree
  BY <1>1, <1>2, <1>3 DEF AtomicStep
<1>4. CASE tree' = Pushed(tree, cmd[p])
  <2>1. OnlyOf(cmd[p].slug, tree, tree')
    BY <1>0, <1>4, PushedIsOnlyOf DEF CommitInv, WorkIsCurrent
  <2>2. Atomic!Publish(cmd[p].slug) /\ cmd[p].slug \in Slugs
    BY <1>0, <1>1, <1>2, <2>1 DEF Atomic!Publish, Command
  <2> QED
    BY <2>2 DEF Atomic!Next, AtomicStep
<1> QED
  BY <1>3, <1>4 DEF PublisherStep, ReadRoster, ReadClaims, ReadRecord, ListPaths,
                    ReadMembership, ReadHead, UpdateRef, DispatchSharedRebuild, CommandDies

LEMMA StepIsAtomic == CommitInv /\ [Next]_vars => [Atomic!Next]_<<tree, Staged, live.tree>>
<1> SUFFICES ASSUME CommitInv, [Next]_vars
             PROVE  AtomicStep
  BY DEF AtomicStep
<1>1. CASE \E r \in Runners : RunStep(r) \/ RunFault(r)
  BY <1>1, RunIsAtomic
<1>2. CASE \E p \in Publishers : PublisherStep(p) \/ CommandDies(p)
  BY <1>2, PublisherIsAtomic
<1>3. CASE \E edit \in OfferedRosters : EditRoster(edit)
  <2>1. PICK edit \in OfferedRosters : EditRoster(edit)
    BY <1>3
  <2>2. Staged' = Staged
    BY <2>1 DEF EditRoster, Staged
  <2>3. Atomic!Edit(edit)
    BY <2>1, <2>2 DEF EditRoster, Atomic!Edit
  <2> QED
    BY <2>3 DEF Atomic!Next, AtomicStep
<1>4. CASE UNCHANGED <<tree, run, live>>
  BY <1>4 DEF AtomicStep, Staged
<1> QED
  BY <1>1, <1>2, <1>3, <1>4 DEF Next, vars, Dispatch, Begin

\* The workflow runs, with their re-syncs, rejected, lost and timed out pushes,
\* implement an assembly where an integrate is one atomic step from the tree it
\* finds, where a publisher's commit is its own project's, and where only
\* committed integrates are deployed.
THEOREM AtomicIntegrates == Spec => IntegratesAreAtomic
<1>1. Init => Atomic!Init
  BY IdleRunIsCurrent DEF Init, Atomic!Init, Staged
<1> QED
  BY <1>1, StepIsAtomic, CommitInvHolds, PTL DEF Spec, IntegratesAreAtomic, Atomic!Spec

(***************************************************************************)
(* What an integrate makes of the tree: it keeps the claims of projects      *)
(* apart, and repeating it, or rebuilding after it, changes nothing.         *)
(***************************************************************************)

(***************************************************************************)
(* Why no integrate makes two projects claim one post path: the overwrite  *)
(* refusal reads the records of the tree the graft is applied to, and the  *)
(* commit lands on that tree or nowhere.                                   *)
(***************************************************************************)

PostPaths(t, x) == {path \in Claimed(t.record[x]) : IsPost(path)}

Disjoint(t) == \A x, y \in Slugs : x # y => PostPaths(t, x) \cap PostPaths(t, y) = {}

LEMMA DisjointClaims == PostClaimsDisjoint <=> Disjoint(tree)
BY DEF PostClaimsDisjoint, Disjoint, PostPaths

LEMMA DisjointClaimsNext == PostClaimsDisjoint' <=> Disjoint(tree')
BY DEF PostClaimsDisjoint, Disjoint, PostPaths

\* Reconciling drops records whole.
LEMMA ReconcileKeepsDisjoint ==
    ASSUME NEW t \in Tree, Disjoint(t)
    PROVE  Disjoint(ReconcileMembership(t))
<1> DEFINE u == ReconcileMembership(t)
           retired == Retired(t) \cap Slugs
           kept == [x \in Slugs |-> KeptKinds(t, retired, x)]
<1>1. u.record = KeepManifests(t, kept).record
  BY DEF ReconcileMembership, KeepManifests
<1>2. \A x \in Slugs : u.record[x] = t.record[x] \/ u.record[x] = NoClaims
  BY <1>1 DEF KeepManifests, Tree
<1>3. Claimed(NoClaims) = {}
  BY DEF Claimed, NoClaims
<1> HIDE DEF u
<1>4. \A x \in Slugs : PostPaths(u, x) \subseteq PostPaths(t, x)
  BY <1>2, <1>3 DEF PostPaths
<1> QED
  BY <1>4 DEF Disjoint, u

\* A publisher's record grows by what it publishes at most.
LEMMA PruneClaims ==
    ASSUME NEW rec \in Record, NEW owner \in Owners, NEW produced \in SUBSET Path
    PROVE  Claimed(PrunePlan(rec, owner, produced).updated) \subseteq Claimed(rec) \cup produced
BY DEF PrunePlan, Claimed, Record

LEMMA GraftKeepsDisjoint ==
    ASSUME NEW t \in Tree, NEW job \in Job, Disjoint(t), GraftAllowed(t, job)
    PROVE  Disjoint(ApplyProjectFiles(t, job))
<1> DEFINE s == job.slug
           u == ApplyProjectFiles(t, job)
           produced == Produced(t, job)
           updated == PrunePlan(t.record[s], Owner(job), produced).updated
<1>1. CASE NothingToPublish(job)
  BY <1>1 DEF ApplyProjectFiles
<1>2. CASE ~NothingToPublish(job)
  <2>1. s \in Slugs /\ t.record \in [Slugs -> Record] /\ Owner(job) \in Owners
    BY DEF Job, Tree, Owner, Owners
  <2>2. u.record = [t.record EXCEPT ![s] = updated]
    BY <1>2 DEF ApplyProjectFiles
  <2>3. produced \in SUBSET Path
    BY ProducedType
  <2>4. Claimed(updated) \subseteq Claimed(t.record[s]) \cup produced
    BY <2>1, <2>3, PruneClaims
  <2>5. \A x \in Slugs \ {s} : PostPaths(t, x) \cap produced = {}
    BY <1>2, <2>1, <2>3 DEF GraftAllowed, ForeignPostClaims, PostPaths
  <2> HIDE DEF s, u, produced, updated
  <2>6. \A x \in Slugs \ {s} : PostPaths(u, x) = PostPaths(t, x)
    BY <2>1, <2>2 DEF PostPaths
  <2>7. PostPaths(u, s) \subseteq PostPaths(t, s) \cup produced
    BY <2>1, <2>2, <2>4 DEF PostPaths
  <2>8. ASSUME NEW x \in Slugs \ {s}
        PROVE  PostPaths(u, x) \cap PostPaths(u, s) = {}
    BY <2>1, <2>5, <2>6, <2>7 DEF Disjoint
  <2>9. Disjoint(u)
    BY <2>6, <2>8 DEF Disjoint
  <2> QED
    BY <2>9 DEF u
<1> QED
  BY <1>1, <1>2

LEMMA IntegratedKeepsDisjoint ==
    ASSUME NEW t \in Tree, NEW job \in Job, Disjoint(t), Accepts(t, job)
    PROVE  Disjoint(Integrated(t, job))
<1>1. ReconcileMembership(t) \in Tree /\ Disjoint(ReconcileMembership(t))
  BY ReconcileType, ReconcileKeepsDisjoint
<1>2. CASE job.scope = "shared-only"
  BY <1>1, <1>2 DEF Integrated, Grafted, GenerateSharedFiles, Disjoint, PostPaths
<1>3. CASE job.scope # "shared-only"
  <2>1. Disjoint(ApplyProjectFiles(ReconcileMembership(t), job))
    BY <1>1, <1>3, GraftKeepsDisjoint DEF Accepts
  <2>2. Integrated(t, job).record = ApplyProjectFiles(ReconcileMembership(t), job).record
    BY <1>3 DEF Integrated, Grafted, GenerateSharedFiles, RecordMembership
  <2> QED
    BY <2>1, <2>2 DEF Disjoint, PostPaths
<1> QED
  BY <1>2, <1>3

\* A commit that a run lands is the integration of the head it landed on.
LEMMA LandedIsIntegrated ==
    ASSUME CommitInv, Next, NEW r \in Runners, Landed(r)
    PROVE  Accepts(tree, run[r].job) /\ tree' = Integrated(tree, run[r].job)
<1>0. run \in [Runners -> Run]
  BY DEF CommitInv, TypeOK
<1>1. tree' = run[r].work /\ run[r].base = head
  <2>1. PICK q \in Runners : RunStep(q) \/ RunFault(q)
    BY DEF Next, Landed, Dispatch, Begin, PublisherStep, CommandDies, EditRoster,
           ReadRoster, ReadClaims, ReadRecord, ListPaths, ReadMembership, ReadHead,
           UpdateRef, DispatchSharedRebuild
  <2>2. q = r
    BY <1>0, <2>1 DEF Landed, RunStep, RunFault, StartRun, Sync, PushAccepted, PushRejected,
                      PushLost, PushTimedOut, RunDies, Retry, Deploy
  <2> QED
    BY <2>1, <2>2 DEF Landed, RunStep, RunFault, StartRun, Sync, PushAccepted, PushRejected,
                      PushLost, PushTimedOut, RunDies, Deploy
<1> QED
  BY <1>1, CurrentPush DEF CommitInv, Landed

\* No integrate, of whatever scope and however delayed, makes two projects claim
\* one path under blog/ unless two already did.
THEOREM IntegratesKeepPostsDisjoint == Spec => IntegrateKeepsPostsDisjoint
<1> DEFINE kept == \A r \in Runners : Landed(r) /\ PostClaimsDisjoint => PostClaimsDisjoint'
<1>1. CommitInv /\ [Next]_vars => [kept]_vars
  <2> SUFFICES ASSUME CommitInv, Next, NEW r \in Runners, Landed(r), PostClaimsDisjoint
               PROVE  PostClaimsDisjoint'
    OBVIOUS
  <2>1. tree \in Tree /\ run[r].job \in Job
    BY DEF CommitInv, TypeOK, Run
  <2>2. Accepts(tree, run[r].job) /\ tree' = Integrated(tree, run[r].job)
    BY LandedIsIntegrated
  <2>3. Disjoint(tree')
    BY <2>1, <2>2, DisjointClaims, IntegratedKeepsDisjoint
  <2> QED
    BY <2>3, DisjointClaimsNext
<1> QED
  BY <1>1, CommitInvHolds, PTL DEF Spec, IntegrateKeepsPostsDisjoint

-----------------------------------------------------------------------------
(***************************************************************************)
(* Why an integrate can be retried when nobody knows whether its push went *)
(* through: on the tree it made it is accepted again and changes nothing.  *)
(***************************************************************************)

\* A tree is its ten parts.
LEMMA SameTree ==
    ASSUME NEW t \in Tree, NEW u \in Tree,
           u.declared = t.declared, u.home = t.home, u.site = t.site, u.kinds = t.kinds,
           u.record = t.record, u.pages = t.pages, u.posts = t.posts,
           u.overlay = t.overlay, u.member = t.member, u.listed = t.listed
    PROVE  u = t
BY DEF Tree

\* A tree that agrees with its roster has nothing to reconcile.
LEMMA ReconcileAgain ==
    ASSUME NEW u \in Tree, AbsentManifestsAreEmpty(u), CheckRosterAgreement(u)
    PROVE  ReconcileMembership(u) = u
<1> DEFINE dirs == Retired(u)
           retired == dirs \cap Slugs
           claims == ClaimsOfRetired(u, retired)
           kept == [x \in Slugs |-> KeptKinds(u, retired, x)]
           manifests == KeepManifests(u, kept)
           site == [path \in Path |-> IF path[1] \in dirs \/ path \in claims THEN None ELSE u.site[path]]
           member == [x \in Slugs |-> IF x \in u.declared THEN u.member[x] ELSE "absent"]
<1>1. dirs = {}
  BY DEF Retired, CheckRosterAgreement
<1>2. claims = {}
  BY <1>1 DEF ClaimsOfRetired
<1>3. kept = u.kinds
  BY <1>1 DEF KeptKinds, CheckRosterAgreement, Tree
<1>4. manifests \in Tree /\ manifests.kinds = kept /\ manifests.declared = u.declared
      /\ manifests.home = u.home /\ manifests.site = u.site
      /\ manifests.member = u.member /\ manifests.listed = u.listed
  <2>1. kept \in [Slugs -> SUBSET Kinds]
    BY DEF KeptKinds, Tree
  <2> HIDE DEF kept
  <2>2. manifests \in Tree
    BY <2>1, KeepManifestsType
  <2> QED
    BY <2>2 DEF KeepManifests, Tree
<1>5. /\ manifests.record = u.record /\ manifests.pages = u.pages
      /\ manifests.posts = u.posts /\ manifests.overlay = u.overlay
  <2> HIDE DEF kept
  <2> QED
    BY <1>3 DEF KeepManifests, AbsentManifestsAreEmpty, Tree
<1>6. manifests = u
  BY <1>3, <1>4, <1>5, SameTree
<1>7. site = u.site
  BY <1>1, <1>2 DEF Tree
<1>8. member = u.member
  BY DEF CheckRosterAgreement, Tree
<1>9. ReconcileMembership(u) = [manifests EXCEPT !.site = site, !.member = member]
  <2> HIDE DEF dirs, retired, claims, kept
  <2>1. manifests.site = u.site /\ manifests.member = u.member
    BY <1>4
  <2> QED
    BY <2>1, <1>4 DEF ReconcileMembership, dirs, retired, claims, kept, Tree
<1>10. [u EXCEPT !.site = u.site, !.member = u.member] = u
  BY DEF Tree
<1> HIDE DEF manifests, site, member
<1> QED
  BY <1>6, <1>7, <1>8, <1>9, <1>10

\* What a graft makes of each part of a tree.
LEMMA ApplyParts ==
    ASSUME NEW t \in Tree, NEW job \in Job, ~NothingToPublish(job)
    PROVE  LET s == job.slug
               a == ApplyProjectFiles(t, job)
               plan == PrunePlan(t.record[s], Owner(job), Produced(t, job))
               listing == IF s = t.home THEN {"listing"} ELSE {}
           IN  /\ a.declared = t.declared /\ a.home = t.home
               /\ a.member = t.member /\ a.listed = t.listed
               /\ a.site = GraftSubtree(t.site, s, Produced(t, job), plan.removed)
               /\ a.record = [t.record EXCEPT ![s] = plan.updated]
               /\ job.scope = "posts" =>
                     /\ a.kinds = [t.kinds EXCEPT ![s] = t.kinds[s] \cup {"files", "posts"}]
                     /\ a.pages = t.pages /\ a.posts = t.posts
                     /\ a.overlay = [t.overlay EXCEPT ![s] = job.build.posts]
               /\ job.scope # "posts" =>
                     /\ a.kinds = [t.kinds EXCEPT ![s] = t.kinds[s] \cup {"files", "base"} \cup listing]
                     /\ a.pages = [t.pages EXCEPT ![s] = job.build.pages]
                     /\ a.posts = [t.posts EXCEPT ![s] = job.build.posts]
                     /\ a.overlay = [t.overlay EXCEPT ![s] = FoldPostsIntoOverlay(t, job)]
<1> DEFINE s == job.slug
           produced == Produced(t, job)
           plan == PrunePlan(t.record[s], Owner(job), produced)
           site == GraftSubtree(t.site, s, produced, plan.removed)
           overlay == FoldPostsIntoOverlay(t, job)
           listing == IF s = t.home THEN {"listing"} ELSE {}
           tree1 == [t EXCEPT !.site = site, !.record[s] = plan.updated]
<1> HIDE DEF site, produced, plan, overlay, listing
<1>1. /\ tree1.declared = t.declared /\ tree1.home = t.home
      /\ tree1.member = t.member /\ tree1.listed = t.listed
      /\ tree1.site = site /\ tree1.record = [t.record EXCEPT ![s] = plan.updated]
      /\ tree1.kinds = t.kinds /\ tree1.pages = t.pages /\ tree1.posts = t.posts
      /\ tree1.overlay = t.overlay
      /\ DOMAIN tree1 = DOMAIN t
  BY DEF Tree
<1>2. ApplyProjectFiles(t, job) =
        IF job.scope = "posts"
          THEN [tree1 EXCEPT !.kinds[s] = @ \cup {"files", "posts"}, !.overlay[s] = job.build.posts]
          ELSE [tree1 EXCEPT !.kinds[s] = @ \cup {"files", "base"} \cup listing,
                             !.pages[s] = job.build.pages, !.posts[s] = job.build.posts,
                             !.overlay[s] = overlay]
  BY DEF ApplyProjectFiles, site, produced, plan, overlay, listing
<1> HIDE DEF tree1
<1> QED
  BY <1>1, <1>2 DEF Tree, site, produced, plan, overlay, listing

\* A graft on a tree that has had it, whatever was recorded and generated since.
LEMMA ApplyAgain ==
    ASSUME NEW t \in Tree, NEW u \in Tree, NEW job \in Job,
           LET a == ApplyProjectFiles(t, job)
           IN  /\ u.declared = a.declared /\ u.home = a.home /\ u.site = a.site
               /\ u.kinds = a.kinds /\ u.record = a.record /\ u.pages = a.pages
               /\ u.posts = a.posts /\ u.overlay = a.overlay
    PROVE  ApplyProjectFiles(u, job) = u
<1> DEFINE s == job.slug
           owner == Owner(job)
           produced == Produced(t, job)
           plan == PrunePlan(t.record[s], owner, produced)
           again == PrunePlan(u.record[s], owner, produced)
<1>1. CASE NothingToPublish(job)
  BY <1>1 DEF ApplyProjectFiles
<1>2. CASE ~NothingToPublish(job)
  <2>1. s \in Slugs /\ owner \in Owners /\ produced \in SUBSET Path /\ t.record[s] \in Record
    BY ProducedType DEF Job, Owner, Owners, Tree
  <2>2. u.home = t.home
    BY <1>2, ApplyParts
  <2>3. Produced(u, job) = produced
    BY <2>2 DEF Produced
  <2>4. u.record = [t.record EXCEPT ![s] = plan.updated] /\ u.record[s] = plan.updated
    <3>1. u.record = [t.record EXCEPT ![s] = plan.updated]
      BY <1>2, ApplyParts
    <3> HIDE DEF plan
    <3> QED
      BY <2>1, <3>1 DEF Tree
  <2>5. plan.updated[owner] = produced
    BY <2>1 DEF PrunePlan, Record
  <2>6. again.removed = {} /\ again.updated = plan.updated
    BY <2>1, <2>4, <2>5 DEF PrunePlan, Record
  <2>7. GraftSubtree(u.site, s, produced, {}) = u.site
    <3>1. u.site = GraftSubtree(t.site, s, produced, plan.removed)
      BY <1>2, ApplyParts
    <3>2. produced \cap plan.removed = {}
      BY DEF PrunePlan
    <3> QED
      BY <3>1, <3>2 DEF GraftSubtree
  <2> DEFINE b == ApplyProjectFiles(u, job)
  <2>8. b \in Tree /\ b.declared = u.declared /\ b.home = u.home /\ b.member = u.member
        /\ b.listed = u.listed
    BY <1>2, ApplyParts, ApplyType
  <2>9. b.site = u.site
    <3>1. b.site = GraftSubtree(u.site, s, Produced(u, job),
                                PrunePlan(u.record[s], owner, Produced(u, job)).removed)
      BY <1>2, ApplyParts
    <3> QED
      BY <2>3, <2>6, <2>7, <3>1
  <2>10. b.record = u.record
    <3>1. b.record = [u.record EXCEPT ![s] = PrunePlan(u.record[s], owner, Produced(u, job)).updated]
      BY <1>2, ApplyParts
    <3>2. b.record = [u.record EXCEPT ![s] = u.record[s]]
      BY <2>3, <2>4, <2>6, <3>1
    <3> QED
      BY <2>1, <3>2 DEF Tree
  <2>11. b.kinds = u.kinds /\ b.pages = u.pages /\ b.posts = u.posts
    <3>1. CASE job.scope = "posts"
      <4>1. u.kinds = [t.kinds EXCEPT ![s] = t.kinds[s] \cup {"files", "posts"}]
        BY <1>2, <3>1, ApplyParts
      <4>2. /\ b.kinds = [u.kinds EXCEPT ![s] = u.kinds[s] \cup {"files", "posts"}]
            /\ b.pages = u.pages /\ b.posts = u.posts
        BY <1>2, <3>1, ApplyParts
      <4> HIDE DEF b
      <4>3. u.kinds[s] = t.kinds[s] \cup {"files", "posts"} /\ u.kinds \in [Slugs -> SUBSET Kinds]
        BY <2>1, <4>1 DEF Tree
      <4>4. u.kinds[s] \cup {"files", "posts"} = u.kinds[s]
        BY <4>3
      <4> QED
        BY <2>1, <4>2, <4>3, <4>4
    <3>2. CASE job.scope # "posts"
      <4> DEFINE listing == IF s = t.home THEN {"listing"} ELSE {}
      <4>1. /\ u.kinds = [t.kinds EXCEPT ![s] = t.kinds[s] \cup {"files", "base"} \cup listing]
            /\ u.pages = [t.pages EXCEPT ![s] = job.build.pages]
            /\ u.posts = [t.posts EXCEPT ![s] = job.build.posts]
        BY <1>2, <3>2, ApplyParts
      <4>2. /\ b.kinds = [u.kinds EXCEPT ![s] = u.kinds[s] \cup {"files", "base"} \cup listing]
            /\ b.pages = [u.pages EXCEPT ![s] = job.build.pages]
            /\ b.posts = [u.posts EXCEPT ![s] = job.build.posts]
        <5>1. b.kinds = [u.kinds EXCEPT ![s] = u.kinds[s] \cup {"files", "base"}
                                                   \cup (IF s = u.home THEN {"listing"} ELSE {})]
          BY <1>2, <3>2, ApplyParts
        <5>2. b.pages = [u.pages EXCEPT ![s] = job.build.pages]
              /\ b.posts = [u.posts EXCEPT ![s] = job.build.posts]
          BY <1>2, <3>2, ApplyParts
        <5> QED
          BY <2>2, <5>1, <5>2
      <4> HIDE DEF listing, b
      <4>3. /\ u.kinds[s] = t.kinds[s] \cup {"files", "base"} \cup listing
            /\ u.kinds \in [Slugs -> SUBSET Kinds]
        BY <2>1, <4>1 DEF Tree
      <4>4. u.kinds[s] \cup {"files", "base"} \cup listing = u.kinds[s]
        BY <4>3
      <4>5. b.kinds = u.kinds
        BY <2>1, <4>2, <4>3, <4>4
      <4>6. b.pages = u.pages /\ b.posts = u.posts
        BY <2>1, <4>1, <4>2 DEF Tree
      <4> QED
        BY <4>5, <4>6
    <3> QED
      BY <3>1, <3>2
  <2>12. b.overlay = u.overlay
    <3>1. CASE job.scope = "posts"
      <4>1. u.overlay = [t.overlay EXCEPT ![s] = job.build.posts]
            /\ b.overlay = [u.overlay EXCEPT ![s] = job.build.posts]
        BY <1>2, <3>1, ApplyParts
      <4> QED
        BY <2>1, <4>1 DEF Tree
    <3>2. CASE job.scope # "posts"
      <4>1. u.overlay = [t.overlay EXCEPT ![s] = FoldPostsIntoOverlay(t, job)]
            /\ b.overlay = [u.overlay EXCEPT ![s] = FoldPostsIntoOverlay(u, job)]
        BY <1>2, <3>2, ApplyParts
      <4>2. "posts" \in u.kinds[s] <=> "posts" \in t.kinds[s]
        <5> DEFINE listing == IF s = t.home THEN {"listing"} ELSE {}
        <5>1. u.kinds = [t.kinds EXCEPT ![s] = t.kinds[s] \cup {"files", "base"} \cup listing]
          BY <1>2, <3>2, ApplyParts
        <5>2. "posts" \notin listing
          OBVIOUS
        <5> HIDE DEF listing
        <5> QED
          BY <2>1, <5>1, <5>2 DEF Tree
      <4>3. u.overlay[s] = FoldPostsIntoOverlay(t, job)
        BY <2>1, <4>1 DEF Tree
      <4>4. FoldPostsIntoOverlay(u, job) = FoldPostsIntoOverlay(t, job)
        BY <4>2, <4>3 DEF FoldPostsIntoOverlay
      <4> QED
        BY <2>1, <4>1, <4>4 DEF Tree
    <3> QED
      BY <3>1, <3>2
  <2> QED
    BY <2>8, <2>9, <2>10, <2>11, <2>12, SameTree
<1> QED
  BY <1>1, <1>2

\* What the shared files list is read off the manifests.
LEMMA ListedAgain ==
    ASSUME NEW t \in Tree, NEW u \in Tree, u.home = t.home, u.kinds = t.kinds,
           u.pages = t.pages, u.posts = t.posts, u.overlay = t.overlay
    PROVE  /\ SharedLinks(u) = SharedLinks(t)
           /\ SharedFilesAllowed(u) <=> SharedFilesAllowed(t)
<1>1. ListedProjects(u) = ListedProjects(t)
  BY DEF ListedProjects
<1>2. \A s \in Slugs : ManifestPosts(u, s) = ManifestPosts(t, s)
  BY DEF ManifestPosts
<1>3. \A s, p : PageAddress(u, s, p) = PageAddress(t, s, p)
  BY DEF PageAddress
<1>4. ListedProjects(t) \subseteq Slugs
  BY DEF ListedProjects
<1>5. SharedFilesAllowed(u) <=> SharedFilesAllowed(t)
  BY <1>1, <1>2, <1>4 DEF SharedFilesAllowed
<1>6. UNION {{PageAddress(u, s, p) : p \in u.pages[s]} : s \in ListedProjects(u)}
        = UNION {{PageAddress(t, s, p) : p \in t.pages[s]} : s \in ListedProjects(t)}
  BY <1>1, <1>3
<1>7. UNION {ManifestPosts(u, s) : s \in ListedProjects(u)}
        = UNION {ManifestPosts(t, s) : s \in ListedProjects(t)}
  BY <1>1, <1>2, <1>4
<1> QED
  BY <1>5, <1>6, <1>7 DEF SharedLinks

\* An integrate of a tree the same integrate made is accepted and makes it again.
\* What an integrate commits needs no reconciling and has its shared files.
LEMMA RebuiltAgain ==
    ASSUME NEW t \in Tree, NEW job \in Job, AbsentManifestsAreEmpty(t), Accepts(t, job)
    PROVE  LET u == Integrated(t, job)
               g == Grafted(t, job)
           IN  /\ u \in Tree /\ VerifyAssembly(u) /\ SharedFilesAllowed(u)
               /\ ReconcileMembership(u) = u /\ GenerateSharedFiles(u) = u
               /\ u.declared = g.declared /\ u.home = g.home /\ u.site = g.site
               /\ u.kinds = g.kinds /\ u.record = g.record /\ u.pages = g.pages
               /\ u.posts = g.posts /\ u.overlay = g.overlay /\ u.member = g.member
<1> DEFINE v == ReconcileMembership(t)
           g == Grafted(t, job)
           u == Integrated(t, job)
<1>1. v \in Tree /\ u \in Tree /\ AbsentManifestsAreEmpty(u)
  BY ReconcileType, IntegratedType, IntegratedManifests
<1>2. g \in Tree
  <2>1. ASSUME NEW w \in Tree PROVE RecordMembership(w, job.slug) \in Tree
    BY DEF RecordMembership, Tree, Membership
  <2> QED
    BY <1>1, <2>1, ApplyType DEF Grafted
<1>3. u = [g EXCEPT !.listed = SharedLinks(g)]
  BY DEF Integrated, GenerateSharedFiles
<1>4. VerifyAssembly(u) /\ CheckRosterAgreement(u) /\ SharedFilesAllowed(g)
  BY DEF Accepts, VerifyAssembly
<1>5. ReconcileMembership(u) = u
  BY <1>1, <1>4, ReconcileAgain
<1> HIDE DEF v, g, u
<1>6. /\ u.declared = g.declared /\ u.home = g.home /\ u.site = g.site /\ u.kinds = g.kinds
      /\ u.record = g.record /\ u.pages = g.pages /\ u.posts = g.posts
      /\ u.overlay = g.overlay /\ u.member = g.member /\ u.listed = SharedLinks(g)
  BY <1>2, <1>3 DEF Tree
<1>7. SharedLinks(u) = u.listed /\ SharedFilesAllowed(u)
  BY <1>1, <1>2, <1>4, <1>6, ListedAgain
<1>8. GenerateSharedFiles(u) = u
  BY <1>1, <1>7 DEF GenerateSharedFiles, Tree
<1> QED
  BY <1>1, <1>4, <1>5, <1>6, <1>7, <1>8 DEF g, u

LEMMA IntegrateAgain ==
    ASSUME NEW t \in Tree, NEW job \in Job, AbsentManifestsAreEmpty(t), Accepts(t, job)
    PROVE  LET u == Integrated(t, job) IN Accepts(u, job) /\ Integrated(u, job) = u
<1> DEFINE v == ReconcileMembership(t)
           g == Grafted(t, job)
           u == Integrated(t, job)
<1>1. v \in Tree /\ u \in Tree
  BY ReconcileType, IntegratedType
<1>2. VerifyAssembly(u)
  BY RebuiltAgain
<1>3. ReconcileMembership(u) = u
  BY RebuiltAgain
<1>4. /\ u.declared = g.declared /\ u.home = g.home /\ u.site = g.site /\ u.kinds = g.kinds
      /\ u.record = g.record /\ u.pages = g.pages /\ u.posts = g.posts
      /\ u.overlay = g.overlay /\ u.member = g.member
  BY RebuiltAgain
<1>5. SharedFilesAllowed(u)
  BY RebuiltAgain
<1>6. GenerateSharedFiles(u) = u
  BY RebuiltAgain
<1> HIDE DEF v, g, u
<1>7. CASE job.scope = "shared-only"
  <2>1. Grafted(u, job) = u
    BY <1>3, <1>7 DEF Grafted
  <2> QED
    BY <1>2, <1>5, <1>6, <1>7, <2>1 DEF Accepts, Integrated, u
<1>8. CASE job.scope # "shared-only"
  <2> DEFINE s == job.slug
             a == ApplyProjectFiles(v, job)
  <2>1. a \in Tree /\ g = RecordMembership(a, s) /\ s \in Slugs
    BY <1>1, <1>8, ApplyType DEF Grafted, Job, g, v
  <2>2. s \in t.declared /\ GraftAllowed(v, job)
    BY <1>8 DEF Accepts, v
  <2>3. /\ g.declared = a.declared /\ g.home = a.home /\ g.site = a.site /\ g.kinds = a.kinds
        /\ g.record = a.record /\ g.pages = a.pages /\ g.posts = a.posts
        /\ g.overlay = a.overlay /\ g.member = [a.member EXCEPT ![s] = "referenced"]
    <3> HIDE DEF a
    <3> QED
      BY <2>1 DEF RecordMembership, Tree
  <2>4. ApplyProjectFiles(u, job) = u
    BY <1>1, <1>4, <2>3, ApplyAgain
  <2>5. RecordMembership(u, s) = u
    <3>1. u.member[s] = "referenced" /\ u.member \in [Slugs -> Membership]
      BY <1>1, <1>4, <2>1, <2>3 DEF Tree
    <3>2. [u.member EXCEPT ![s] = "referenced"] = u.member
      BY <2>1, <3>1
    <3>3. [u EXCEPT !.member = u.member] = u
      BY <1>1 DEF Tree
    <3> QED
      BY <3>2, <3>3 DEF RecordMembership
  <2>6. Grafted(u, job) = u
    BY <1>3, <1>8, <2>4, <2>5 DEF Grafted
  <2>7. s \in u.declared
    <3>1. v.declared = t.declared
      BY DEF v, ReconcileMembership, KeepManifests, Tree
    <3>2. a.declared = v.declared
      BY <1>1, ApplyParts DEF ApplyProjectFiles
    <3> QED
      BY <1>4, <2>2, <2>3, <3>1, <3>2
  <2>8. GraftAllowed(u, job)
    <3>1. CASE NothingToPublish(job)
      BY <3>1 DEF GraftAllowed
    <3>2. CASE ~NothingToPublish(job)
      <4>1. u.home = v.home
        BY <1>1, <1>4, <2>3, <3>2, ApplyParts
      <4>2. Produced(u, job) = Produced(v, job)
        BY <4>1 DEF Produced
      <4>3. \A x \in Slugs \ {s} : u.record[x] = v.record[x]
        <5> DEFINE plan == PrunePlan(v.record[s], Owner(job), Produced(v, job))
        <5>1. u.record = [v.record EXCEPT ![s] = plan.updated]
          BY <1>1, <1>4, <2>3, <3>2, ApplyParts
        <5> HIDE DEF plan
        <5> QED
          BY <1>1, <5>1 DEF Tree
      <4>4. ForeignPostClaims(u, s, Slugs) = ForeignPostClaims(v, s, Slugs)
        BY <4>3 DEF ForeignPostClaims
      <4> QED
        BY <2>2, <3>2, <4>1, <4>2, <4>4 DEF GraftAllowed
    <3> QED
      BY <3>1, <3>2
  <2> QED
    BY <1>2, <1>3, <1>5, <1>6, <1>8, <2>6, <2>7, <2>8 DEF Accepts, Integrated, u
<1> QED
  BY <1>7, <1>8 DEF u

-----------------------------------------------------------------------------
\* A run that is about to push integrated some tree.
Synced(r) ==
    run[r].phase = "push" =>
        \E t \in Tree : /\ AbsentManifestsAreEmpty(t) /\ Accepts(t, run[r].job)
                        /\ run[r].work = Integrated(t, run[r].job)

RetryInv == \A r \in Runners : Synced(r)

LEMMA RetryInvStep == CommitInv /\ RetryInv /\ [Next]_vars => RetryInv'
<1> SUFFICES ASSUME CommitInv, RetryInv, [Next]_vars, NEW r \in Runners,
                    run'[r].phase = "push", run'[r] # run[r]
             PROVE  Synced(r)'
  BY DEF RetryInv, Synced
<1>1. run \in [Runners -> Run] /\ tree \in Tree /\ AbsentManifestsAreEmpty(tree)
  BY DEF CommitInv, TypeOK, WorkIsCurrent
<1>2. PICK q \in Runners : RunStep(q) \/ RunFault(q)
  BY DEF Next, vars, Dispatch, Begin, PublisherStep, CommandDies, EditRoster,
         ReadRoster, ReadClaims, ReadRecord, ListPaths, ReadMembership, ReadHead,
         UpdateRef, DispatchSharedRebuild
<1>3. \A x \in Runners \ {q} : run'[x] = run[x]
  BY <1>1, <1>2 DEF RunStep, RunFault, StartRun, Sync, PushAccepted, PushRejected,
                    PushLost, PushTimedOut, RunDies, Retry, Deploy
<1>4. r = q
  BY <1>3
<1>5. Sync(r)
  <2>1. run' # [run EXCEPT ![r] = IdleRun]
    BY <1>1, IdleRunIsCurrent
  <2>2. ~StartRun(r)
    BY <1>1 DEF StartRun, IdleRun
  <2>3. ~PushAccepted(r)
    BY <1>1 DEF PushAccepted, Run
  <2>4. ~Retry(r)
    BY <1>1, <2>1 DEF Retry, Run
  <2> QED
    BY <1>2, <1>4, <2>1, <2>2, <2>3, <2>4
       DEF RunStep, RunFault, PushRejected, PushLost, PushTimedOut, RunDies, Deploy
<1>6. /\ Accepts(tree, run[r].job) /\ run'[r].job = run[r].job
      /\ run'[r].work = Integrated(tree, run[r].job)
  <2> DEFINE work == Integrated(tree, run[r].job)
  <2> HIDE DEF work
  <2>1. IdleRun.phase # "push"
    BY IdleRunIsCurrent
  <2>2. Accepts(tree, run[r].job)
        /\ run' = [run EXCEPT ![r].phase = "push", ![r].base = head, ![r].work = work]
    BY <1>1, <1>5, <2>1 DEF Sync, work
  <2>3. run[r] \in Run
    BY <1>1
  <2> QED
    BY <1>1, <2>2, <2>3 DEF Run, work
<1> QED
  BY <1>1, <1>6 DEF Synced

\* However often runs re-sync and their pushes are lost, rejected or time out
\* after the branch moved, pushing again what an integrate committed is accepted
\* and changes nothing: the loop of IntegrateProject retries without asking.
THEOREM RetriesAreIdempotent == Spec => []RetryIsIdempotent
<1>1. Init => RetryInv
  BY IdleRunIsCurrent DEF Init, RetryInv, Synced
<1>2. ASSUME CommitInv, RetryInv PROVE RetryIsIdempotent
  <2> SUFFICES ASSUME NEW r \in Runners, run[r].phase = "push"
               PROVE  /\ Accepts(run[r].work, run[r].job)
                      /\ Integrated(run[r].work, run[r].job) = run[r].work
    BY DEF RetryIsIdempotent
  <2>1. run[r].job \in Job
    BY <1>2 DEF CommitInv, TypeOK, Run
  <2>2. PICK t \in Tree : /\ AbsentManifestsAreEmpty(t) /\ Accepts(t, run[r].job)
                          /\ run[r].work = Integrated(t, run[r].job)
    BY <1>2 DEF RetryInv, Synced
  <2> QED
    BY <2>1, <2>2, IntegrateAgain
<1> QED
  BY <1>1, <1>2, CommitInvHolds, RetryInvStep, PTL DEF Spec

\* A tree an integrate committed can be rebuilt at once, and rebuilding it
\* changes nothing: retire, docs and posts commit on such trees without a check,
\* and dispatch exactly this job to have the shared files redone.
THEOREM RebuildsFollowIntegrates ==
    Spec => [][\A r \in Runners : Landed(r) =>
                  /\ Accepts(tree', SharedOnlyJob)
                  /\ Integrated(tree', SharedOnlyJob) = tree']_vars
<1> DEFINE follows == \A r \in Runners : Landed(r) =>
                         /\ Accepts(tree', SharedOnlyJob)
                         /\ Integrated(tree', SharedOnlyJob) = tree'
<1>1. CommitInv /\ [Next]_vars => [follows]_vars
  <2> SUFFICES ASSUME CommitInv, Next, NEW r \in Runners, Landed(r)
               PROVE  /\ Accepts(tree', SharedOnlyJob)
                      /\ Integrated(tree', SharedOnlyJob) = tree'
    OBVIOUS
  <2>1. tree \in Tree /\ run[r].job \in Job /\ AbsentManifestsAreEmpty(tree)
    BY DEF CommitInv, TypeOK, Run, WorkIsCurrent
  <2>2. Accepts(tree, run[r].job) /\ tree' = Integrated(tree, run[r].job)
    BY LandedIsIntegrated
  <2>3. /\ VerifyAssembly(tree') /\ SharedFilesAllowed(tree')
        /\ ReconcileMembership(tree') = tree' /\ GenerateSharedFiles(tree') = tree'
    BY <2>1, <2>2, RebuiltAgain
  <2>4. SharedOnlyJob.scope = "shared-only"
    BY DEF SharedOnlyJob, SharedOnlyScope
  <2>5. Grafted(tree', SharedOnlyJob) = tree'
    BY <2>3, <2>4 DEF Grafted
  <2> QED
    BY <2>3, <2>4, <2>5 DEF Accepts, Integrated
<1> QED
  BY <1>1, CommitInvHolds, PTL DEF Spec

-----------------------------------------------------------------------------
(* What publishers push unverified, the rebuild they ask for accepts.        *)

\* A publish whose commit finds what the command read.
Publishes(t, c) ==
    /\ c.kind = "posts" \/ (c.kind = "docs" /\ Index \in c.build.pages)
    /\ ListingsAreBacked(t) /\ ReadsStillHold(t, c) /\ PrunesItsOwn(t, c)

\* What a publish writes: site/ and the files that go by its project's name.
LEMMA PublishedParts ==
    ASSUME NEW t \in Tree, NEW c \in Command, Publishes(t, c)
    PROVE  LET u == Pushed(t, c)
               s == c.slug
           IN  /\ u \in Tree /\ u.declared = t.declared /\ u.home = t.home
               /\ u.site = GraftSubtree(t.site, s, CommandProduced(c), c.removed)
               /\ u.record = [t.record EXCEPT ![s] = c.record]
               /\ u.kinds[s] = t.kinds[s] \cup {"files", IF c.kind = "docs" THEN "base" ELSE "posts"}
               /\ u.pages[s] = IF c.kind = "docs" THEN c.build.pages ELSE t.pages[s]
               /\ ManifestPosts(u, s) =
                      IF c.kind = "docs" /\ "posts" \in t.kinds[s] THEN t.overlay[s] ELSE c.build.posts
               /\ \A x \in Slugs : x \notin t.declared => u.member[x] = t.member[x]
               /\ \A x \in Slugs \ {s} : /\ u.kinds[x] = t.kinds[x] /\ u.pages[x] = t.pages[x]
                                         /\ ManifestPosts(u, x) = ManifestPosts(t, x)
<1> DEFINE s == c.slug
           site == GraftSubtree(t.site, s, CommandProduced(c), c.removed)
<1>1. s \in Slugs /\ s \in t.declared /\ ~c.home /\ c.member \in [Slugs -> Membership]
  BY DEF Publishes, ReadsStillHold, Command
<1>2. Pushed(t, c) \in Tree
  BY PushedType
<1>3. CASE c.kind = "docs"
  <2> DEFINE member == [c.member EXCEPT ![s] = PublishedMember(c)]
  <2>1. Pushed(t, c) =
            [t EXCEPT !.site = site, !.record[s] = c.record,
                      !.kinds[s] = @ \cup {"files", "base"} \cup {},
                      !.pages[s] = c.build.pages, !.posts[s] = c.build.posts,
                      !.member = member]
    BY <1>1, <1>3 DEF Pushed, PushDocs
  <2>2. \A x \in Slugs : x # s => member[x] = t.member[x]
    BY <1>1, <1>3 DEF Publishes, ReadsStillHold
  <2> HIDE DEF site, member
  <2>3. LET u == Pushed(t, c)
        IN  /\ u.declared = t.declared /\ u.home = t.home /\ u.site = site
            /\ u.record = [t.record EXCEPT ![s] = c.record]
            /\ u.kinds = [t.kinds EXCEPT ![s] = @ \cup {"files", "base"}]
            /\ u.pages = [t.pages EXCEPT ![s] = c.build.pages]
            /\ u.posts = [t.posts EXCEPT ![s] = c.build.posts]
            /\ u.overlay = t.overlay /\ u.member = member
    BY <2>1 DEF Tree
  <2> QED
    BY <1>1, <1>2, <1>3, <2>2, <2>3 DEF ManifestPosts, Tree, site
<1>4. CASE c.kind = "posts"
  <2>1. Pushed(t, c) =
            [t EXCEPT !.site = site, !.record[s] = c.record,
                      !.kinds[s] = @ \cup {"files", "posts"},
                      !.overlay[s] = c.build.posts]
    BY <1>4 DEF Pushed, PushPosts
  <2> HIDE DEF site
  <2>3. LET u == Pushed(t, c)
        IN  /\ u.declared = t.declared /\ u.home = t.home /\ u.site = site
            /\ u.record = [t.record EXCEPT ![s] = c.record]
            /\ u.kinds = [t.kinds EXCEPT ![s] = @ \cup {"files", "posts"}]
            /\ u.pages = t.pages /\ u.posts = t.posts
            /\ u.overlay = [t.overlay EXCEPT ![s] = c.build.posts] /\ u.member = t.member
    BY <2>1 DEF Tree
  <2> QED
    BY <1>1, <1>2, <1>4, <2>3 DEF ManifestPosts, Tree, site
<1> QED
  BY <1>3, <1>4 DEF Publishes

\* It takes down its project's own pages, by a docs publish, and posts that no
\* project lists any more; and what it produces is there.
LEMMA PublishedFiles ==
    ASSUME NEW t \in Tree, NEW c \in Command, AbsentManifestsAreEmpty(t), Publishes(t, c)
    PROVE  LET u == Pushed(t, c)
               s == c.slug
           IN  /\ \A path \in CommandProduced(c) : u.site[path] = s
               /\ \A path \in Path : path \notin c.removed \cup CommandProduced(c) =>
                                        u.site[path] = t.site[path]
               /\ CommandProduced(c) \cap c.removed = {}
               /\ \A path \in c.removed \cup CommandProduced(c) : path \in Path /\ path[1] \in {s, BlogDir}
               /\ c.kind = "posts" =>
                     \A path \in c.removed \cup CommandProduced(c) : path[1] = BlogDir
               /\ \A p \in Pages : c.kind = "docs" /\ p \in c.build.pages => <<s, p>> \in CommandProduced(c)
               /\ \A q \in Posts : q \in c.build.posts => <<BlogDir, q>> \in CommandProduced(c)
               /\ \A path \in c.removed : path \in Claimed(t.record[s])
<1> DEFINE s == c.slug
           P == CommandProduced(c)
           plan == PrunePlan(t.record[s], CommandOwner(c), P)
<1>1. P \in SUBSET Path /\ s \in Slugs /\ ~c.home /\ c.removed = plan.removed
  BY CommandProducedType DEF Publishes, ReadsStillHold, Command
<1>2. CommandOwner(c) \in Owners /\ t.record[s] \in Record
  BY <1>1 DEF CommandOwner, Owners, Tree
<1>3. c.removed \subseteq t.record[s][CommandOwner(c)] /\ c.removed \cap P = {}
  BY <1>1 DEF PrunePlan
<1>4. c.removed \subseteq Claimed(t.record[s]) /\ c.removed \subseteq Path
  BY <1>2, <1>3 DEF Claimed, Record
<1>5. P = {<<s, p>> : p \in CommandOutputs(c).pages} \cup {<<BlogDir, q>> : q \in c.build.posts}
  BY <1>1 DEF CommandProduced, SplitBuildOutput, CommandOutputs
<1>6. c.kind = "posts" => CommandOutputs(c).pages = {} /\ CommandOwner(c) = "posts"
  BY DEF CommandOutputs, CommandOwner
<1>7. c.kind = "docs" => CommandOutputs(c).pages = c.build.pages
  BY DEF CommandOutputs
<1>8. \A path \in P : path[1] \in {s, BlogDir} /\ (c.kind = "posts" => path[1] = BlogDir)
  BY <1>5, <1>6
<1>9. \A path \in c.removed : path[1] \in {s, BlogDir} /\ (c.kind = "posts" => path[1] = BlogDir)
  BY <1>3, <1>4, <1>6 DEF Publishes, PrunesItsOwn, IsPost
<1>10. Pushed(t, c).site = GraftSubtree(t.site, s, P, c.removed)
  BY PublishedParts
<1>11. \A path \in Path : Pushed(t, c).site[path] =
           IF path \in c.removed THEN None ELSE IF path \in P THEN s ELSE t.site[path]
  <2> HIDE DEF P
  <2> QED
    BY <1>3, <1>10 DEF GraftSubtree
<1>12. \A p \in Pages : c.kind = "docs" /\ p \in c.build.pages => <<s, p>> \in P
  BY <1>5, <1>7
<1>13. \A q \in Posts : q \in c.build.posts => <<BlogDir, q>> \in P
  BY <1>5
<1> HIDE DEF P
<1> QED
  BY <1>1, <1>3, <1>4, <1>8, <1>9, <1>11, <1>12, <1>13 DEF P

\* What a project lists after it is on the site, and nobody else lists a post of it.
LEMMA PublishedListing ==
    ASSUME NEW t \in Tree, NEW c \in Command, AbsentManifestsAreEmpty(t), Publishes(t, c),
           CheckRosterAgreement(t), CheckManifestPagesEmitted(t), CheckManifestPostsEmitted(t),
           CheckHomeProject(t), SharedFilesAllowed(t)
    PROVE  LET u == Pushed(t, c)
           IN  /\ ListedProjects(u) = ListedProjects(t)
               /\ CheckManifestPagesEmitted(u) /\ CheckManifestPostsEmitted(u)
               /\ SharedFilesAllowed(u)
<1> DEFINE s == c.slug
           P == CommandProduced(c)
           u == Pushed(t, c)
<1>1. s \in t.declared /\ s # t.home /\ s \in Slugs /\ s # BlogDir /\ None \notin Slugs
  BY NamesAssumption DEF Publishes, ReadsStillHold, Command
<1>2. "base" \in t.kinds[s]
  BY <1>1 DEF CheckRosterAgreement
<1>7. \A x \in Slugs : x # s => /\ u.kinds[x] = t.kinds[x] /\ u.pages[x] = t.pages[x]
                               /\ ManifestPosts(u, x) = ManifestPosts(t, x)
  <2>1. \A x \in Slugs \ {s} : /\ u.kinds[x] = t.kinds[x] /\ u.pages[x] = t.pages[x]
                              /\ ManifestPosts(u, x) = ManifestPosts(t, x)
    BY PublishedParts
  <2> QED
    BY <2>1
<1>3. ListedProjects(u) = ListedProjects(t)
  <2>1. u.kinds[s] = t.kinds[s] \cup {"files", IF c.kind = "docs" THEN "base" ELSE "posts"}
    BY PublishedParts
  <2>2. \A x \in Slugs : x # s => u.kinds[x] = t.kinds[x]
    BY <1>7
  <2> QED
    BY <1>2, <2>1, <2>2 DEF ListedProjects
<1>4. \A x \in ListedProjects(t) : \A p \in t.pages[x] : t.site[PageAddress(t, x, p)] # None
  BY DEF CheckManifestPagesEmitted
<1>5. u.home = t.home
  BY PublishedParts
<1>6. CheckManifestPagesEmitted(u)
  <2> SUFFICES ASSUME NEW x \in ListedProjects(t), NEW p \in u.pages[x]
               PROVE  u.site[PageAddress(u, x, p)] # None
    BY <1>3 DEF CheckManifestPagesEmitted
  <2>0. x \in Slugs /\ p \in Pages /\ PageDir[p] \in Dirs \ {BlogDir}
    <3>1. u \in Tree
      BY PushedType
    <3>2. x \in Slugs /\ p \in Pages
      BY <3>1 DEF ListedProjects, Tree
    <3> QED
      BY <3>2, NamesAssumption
  <2>1. PageAddress(u, x, p) = PageAddress(t, x, p)
    BY <1>5 DEF PageAddress
  <2>2. CASE x = s
    <3>1. PageAddress(t, x, p) = <<s, p>> /\ <<s, p>> \in Path
      BY <1>1, <2>0, <2>2 DEF PageAddress, Path, Dirs
    <3>2. CASE c.kind = "docs"
      <4>1. u.pages[s] = c.build.pages
        BY <3>2, PublishedParts
      <4>2. u.site[<<s, p>>] = s
        BY <2>0, <2>2, <3>2, <4>1, PublishedFiles
      <4> QED
        BY <1>1, <2>1, <3>1, <4>2
    <3>3. CASE c.kind = "posts"
      <4>1. p \in t.pages[s]
        BY <2>2, <3>3, PublishedParts
      <4>2. <<s, p>> \notin c.removed \cup P
        BY <1>1, <3>3, PublishedFiles
      <4>3. u.site[<<s, p>>] = t.site[<<s, p>>]
        BY <3>1, <4>2, PublishedFiles
      <4> QED
        BY <1>4, <2>1, <2>2, <3>1, <4>1, <4>3
    <3> QED
      BY <3>2, <3>3 DEF Publishes
  <2>3. CASE x # s
    <3>1. p \in t.pages[x]
      BY <1>7, <2>0, <2>3
    <3>2. PageAddress(t, x, p) \in Path /\ PageAddress(t, x, p)[1] # BlogDir
      BY <2>0, NamesAssumption DEF PageAddress, Path, Dirs
    <3>3. CASE PageAddress(t, x, p)[1] # s
      <4>1. PageAddress(t, x, p) \notin c.removed \cup P
        BY <3>2, <3>3, PublishedFiles
      <4>2. u.site[PageAddress(t, x, p)] = t.site[PageAddress(t, x, p)]
        BY <3>2, <4>1, PublishedFiles
      <4> QED
        BY <1>4, <2>1, <3>1, <4>2
    <3>4. CASE PageAddress(t, x, p)[1] = s
      <4>1. x = t.home
        BY <2>3, <3>4 DEF PageAddress
      <4>2. PageAddress(t, x, p) \in Claimed(t.record[x])
        BY <2>0, <3>1 DEF Publishes, ListingsAreBacked
      <4>3. s \in HomeOwnedRootNames(t)
        BY <1>1, <3>4, <4>1, <4>2, NamesAssumption DEF HomeOwnedRootNames
      <4> QED
        BY <1>1, <4>3 DEF CheckHomeProject
    <3> QED
      BY <3>3, <3>4
  <2> QED
    BY <2>2, <2>3
<1>8. \A x \in ListedProjects(t) : \A q \in ManifestPosts(t, x) : t.site[<<BlogDir, q>>] # None
  BY DEF CheckManifestPostsEmitted
<1>9. \A x \in Slugs : ManifestPosts(u, x) \subseteq Posts /\ ManifestPosts(t, x) \subseteq Posts
  BY PushedType DEF ManifestPosts, Tree
<1>10. ManifestPosts(u, s) = IF c.kind = "docs" /\ "posts" \in t.kinds[s] THEN t.overlay[s]
                            ELSE c.build.posts
  BY PublishedParts
<1>11. \A q \in Posts : <<BlogDir, q>> \in Path
  BY DEF Path, Dirs
<1>12. CheckManifestPostsEmitted(u)
  <2> SUFFICES ASSUME NEW x \in ListedProjects(t), NEW q \in ManifestPosts(u, x)
               PROVE  u.site[<<BlogDir, q>>] # None
    BY <1>3 DEF CheckManifestPostsEmitted
  <2>0. x \in Slugs /\ q \in Posts /\ <<BlogDir, q>> \in Path
    BY <1>9, <1>11 DEF ListedProjects
  <2>1. CASE <<BlogDir, q>> \in P
    BY <1>1, <2>1, PublishedFiles
  <2>2. CASE <<BlogDir, q>> \notin P
    <3>1. q \in ManifestPosts(t, x)
      <4>1. CASE x # s
        BY <1>7, <2>0, <4>1
      <4>2. CASE x = s
        <5>1. q \notin c.build.posts
          BY <2>0, <2>2, PublishedFiles
        <5> QED
          BY <1>10, <4>2, <5>1 DEF ManifestPosts
      <4> QED
        BY <4>1, <4>2
    <3>2. <<BlogDir, q>> \notin c.removed
      <4>1. CASE x # s
        <5>1. <<BlogDir, q>> \notin Claimed(t.record[s])
          BY <1>1, <2>0, <3>1, <4>1 DEF Publishes, ListingsAreBacked
        <5> QED
          BY <5>1, PublishedFiles
      <4>2. CASE x = s
        <5>1. q \notin c.build.posts
          BY <2>0, <2>2, PublishedFiles
        <5>2. c.kind = "docs" /\ q \in t.overlay[s] \ c.build.posts
          BY <1>10, <4>2, <5>1
        <5>3. <<BlogDir, q>> \in t.record[s]["release"] \cup t.record[s]["posts"]
          BY <5>2 DEF Publishes, PrunesItsOwn
        <5>4. CommandOwner(c) = "docs"
          BY <5>2 DEF CommandOwner
        <5>5. c.removed = PrunePlan(t.record[s], "docs", P).removed
          BY <5>4 DEF Publishes, ReadsStillHold
        <5> QED
          BY <5>3, <5>5 DEF PrunePlan, Owners
      <4> QED
        BY <4>1, <4>2
    <3>3. u.site[<<BlogDir, q>>] = t.site[<<BlogDir, q>>]
      BY <2>0, <2>2, <3>2, PublishedFiles
    <3> QED
      BY <1>8, <3>1, <3>3
  <2> QED
    BY <2>1, <2>2
<1>13. ASSUME NEW x \in ListedProjects(t), x # s
       PROVE  ManifestPosts(u, s) \cap ManifestPosts(t, x) = {}
  <2>0. x \in Slugs /\ s \in ListedProjects(t)
    BY <1>1, <1>2 DEF ListedProjects
  <2>1. CASE c.kind = "docs" /\ "posts" \in t.kinds[s]
    <3>1. ManifestPosts(u, s) = ManifestPosts(t, s)
      BY <1>10, <2>1 DEF ManifestPosts
    <3> QED
      BY <1>13, <2>0, <3>1 DEF SharedFilesAllowed
  <2>2. CASE ~(c.kind = "docs" /\ "posts" \in t.kinds[s])
    <3> SUFFICES ASSUME NEW q \in c.build.posts, q \in ManifestPosts(t, x)
                 PROVE  FALSE
      BY <1>10, <2>2
    <3>1. q \in Posts /\ <<BlogDir, q>> \in Path /\ <<BlogDir, q>> \in P
      BY <1>9, <1>11, <2>0, PublishedFiles
    <3>2. <<BlogDir, q>> \in Claimed(t.record[x])
      BY <2>0 DEF Publishes, ListingsAreBacked
    <3>3. x \in t.declared
      <4>1. "files" \in t.kinds[x]
        <5>1. SUFFICES ASSUME "files" \notin t.kinds[x] PROVE FALSE
          OBVIOUS
        <5>2. t.record[x] = NoClaims
          BY <2>0, <5>1 DEF AbsentManifestsAreEmpty
        <5> QED
          BY <3>2, <5>2 DEF Claimed, NoClaims
      <4> QED
        BY <2>0, <4>1 DEF CheckRosterAgreement, ManifestOwned
    <3>4. <<BlogDir, q>> \in ForeignPostClaims(t, s, t.declared)
      BY <1>13, <3>1, <3>2, <3>3 DEF ForeignPostClaims, IsPost
    <3> QED
      BY <3>1, <3>4 DEF Publishes, ReadsStillHold
  <2> QED
    BY <2>1, <2>2
<1>14. SharedFilesAllowed(u)
  <2>1. "listing" \in u.kinds[u.home]
    BY <1>1, <1>5, <1>7 DEF SharedFilesAllowed, Tree
  <2>2. ASSUME NEW x \in ListedProjects(t), NEW y \in ListedProjects(t), x # y
        PROVE  ManifestPosts(u, x) \cap ManifestPosts(u, y) = {}
    <3>0. x \in Slugs /\ y \in Slugs
      BY DEF ListedProjects
    <3>1. CASE x = s
      <4>1. ManifestPosts(u, y) = ManifestPosts(t, y)
        BY <1>7, <2>2, <3>0, <3>1
      <4>2. ManifestPosts(u, s) \cap ManifestPosts(t, y) = {}
        BY <1>13, <2>2, <3>1
      <4> QED
        BY <3>1, <4>1, <4>2
    <3>2. CASE y = s
      <4>1. ManifestPosts(u, x) = ManifestPosts(t, x)
        BY <1>7, <2>2, <3>0, <3>2
      <4>2. ManifestPosts(u, s) \cap ManifestPosts(t, x) = {}
        BY <1>13, <2>2, <3>2
      <4> QED
        BY <3>2, <4>1, <4>2
    <3>3. CASE x # s /\ y # s
      <4>1. ManifestPosts(u, x) = ManifestPosts(t, x) /\ ManifestPosts(u, y) = ManifestPosts(t, y)
        BY <1>7, <3>0, <3>3
      <4> QED
        BY <2>2, <4>1 DEF SharedFilesAllowed
    <3> QED
      BY <3>1, <3>2, <3>3
  <2> QED
    BY <1>3, <2>1, <2>2 DEF SharedFilesAllowed
<1> QED
  BY <1>3, <1>6, <1>12, <1>14

\* A publish leaves every directory of the site a declared project's, and every
\* declared project but the home one with its own.
LEMMA PublishedRoster ==
    ASSUME NEW t \in Tree, NEW c \in Command, AbsentManifestsAreEmpty(t), Publishes(t, c),
           CheckRosterAgreement(t), CheckHomeProject(t), CheckProjectReachability(t)
    PROVE  LET u == Pushed(t, c)
           IN  CheckRosterAgreement(u) /\ CheckHomeProject(u) /\ CheckProjectReachability(u)
<1> DEFINE s == c.slug
           P == CommandProduced(c)
           u == Pushed(t, c)
<1>1. /\ s \in t.declared /\ s # t.home /\ s \in Slugs /\ t.declared \subseteq Slugs /\ t.home \in Slugs
      /\ None \notin Slugs /\ BlogDir \notin Slugs /\ Index \in Pages /\ RootDir \notin Slugs
  BY NamesAssumption DEF Publishes, ReadsStillHold, Command, Tree
<1>2. u.declared = t.declared /\ u.home = t.home
  BY PublishedParts
<1>3. u.record = [t.record EXCEPT ![s] = c.record]
  BY PublishedParts
<1>4. HomeOwnedRootNames(u) = HomeOwnedRootNames(t) /\ u.record[u.home] = t.record[t.home]
  <2>1. u.record[u.home] = t.record[t.home]
    BY <1>1, <1>2, <1>3 DEF Tree
  <2> QED
    BY <2>1 DEF HomeOwnedRootNames
<1>5. \A path \in Path : path[1] \notin {s, BlogDir} => u.site[path] = t.site[path]
  BY PublishedFiles
<1>6. \A x \in Slugs : <<x, Index>> \in Path
  BY <1>1 DEF Path, Dirs
<1>7. Subtrees(u) \ {s, BlogDir} = Subtrees(t) \ {s, BlogDir}
  BY <1>5 DEF Subtrees, Emitted
<1>8. u.site[<<s, Index>>] # None
  <2>1. CASE c.kind = "docs"
    <3>1. <<s, Index>> \in P
      BY <1>1, <2>1, PublishedFiles DEF Publishes
    <3> QED
      BY <1>1, <3>1, PublishedFiles
  <2>2. CASE c.kind = "posts"
    <3>1. <<s, Index>> \notin c.removed \cup P
      BY <1>1, <2>2, PublishedFiles
    <3>2. u.site[<<s, Index>>] = t.site[<<s, Index>>]
      BY <1>1, <1>6, <3>1, PublishedFiles
    <3> QED
      BY <1>1, <3>2 DEF CheckProjectReachability
  <2> QED
    BY <2>1, <2>2 DEF Publishes
<1>9. s \in Subtrees(u)
  <2>1. <<s, Index>> \in Emitted(u)
    BY <1>1, <1>6, <1>8 DEF Emitted
  <2> QED
    BY <2>1 DEF Subtrees
<1>10. CheckProjectReachability(u)
  <2> SUFFICES ASSUME NEW x \in t.declared \ {t.home} PROVE u.site[<<x, Index>>] # None
    BY <1>2 DEF CheckProjectReachability
  <2>1. CASE x = s
    BY <1>8, <2>1
  <2>2. CASE x # s
    <3>1. u.site[<<x, Index>>] = t.site[<<x, Index>>]
      BY <1>1, <1>5, <1>6, <2>2
    <3> QED
      BY <3>1 DEF CheckProjectReachability
  <2> QED
    BY <2>1, <2>2
<1>11. CheckHomeProject(u)
  <2>1. t.home \notin Subtrees(u)
    BY <1>1, <1>7 DEF CheckHomeProject
  <2> QED
    BY <1>2, <1>4, <2>1 DEF CheckHomeProject
<1>12. \A x \in Slugs : \A k \in u.kinds[x] : ManifestOwned(t.declared, x, k)
  <2> SUFFICES ASSUME NEW x \in Slugs, NEW k \in u.kinds[x] PROVE ManifestOwned(t.declared, x, k)
    OBVIOUS
  <2>1. CASE x = s
    BY <1>1, <2>1 DEF ManifestOwned
  <2>2. CASE x # s
    <3>1. \A y \in Slugs \ {s} : u.kinds[y] = t.kinds[y]
      BY PublishedParts
    <3> QED
      BY <2>2, <3>1 DEF CheckRosterAgreement
  <2> QED
    BY <2>1, <2>2
<1>13. \A x \in t.declared : "base" \in u.kinds[x]
  <2>1. u.kinds[s] = t.kinds[s] \cup {"files", IF c.kind = "docs" THEN "base" ELSE "posts"}
    BY PublishedParts
  <2>2. \A y \in Slugs \ {s} : u.kinds[y] = t.kinds[y]
    BY PublishedParts
  <2>3. \A x \in t.declared : "base" \in t.kinds[x]
    BY DEF CheckRosterAgreement
  <2> QED
    BY <1>1, <2>1, <2>2, <2>3
<1>14. \A x \in Slugs \ t.declared : u.member[x] = "absent"
  <2>1. \A x \in Slugs : x \notin t.declared => u.member[x] = t.member[x]
    BY PublishedParts
  <2> QED
    BY <2>1 DEF CheckRosterAgreement
<1>15. LET subtrees == Subtrees(u) \ ({RootDir, BlogDir} \cup HomeOwnedRootNames(u))
       IN  subtrees \subseteq t.declared /\ t.declared \ {t.home} \subseteq subtrees
  <2> DEFINE before == Subtrees(t) \ ({RootDir, BlogDir} \cup HomeOwnedRootNames(t))
             after == Subtrees(u) \ ({RootDir, BlogDir} \cup HomeOwnedRootNames(u))
  <2>1. before \subseteq t.declared /\ t.declared \ {t.home} \subseteq before
    BY DEF CheckRosterAgreement
  <2>2. s \notin HomeOwnedRootNames(u)
    BY <1>1, <1>4 DEF CheckHomeProject
  <2>3. after = before \cup {s}
    BY <1>1, <1>4, <1>7, <1>9, <2>1, <2>2
  <2> QED
    BY <1>1, <2>1, <2>3
<1>16. CheckRosterAgreement(u)
  BY <1>2, <1>12, <1>13, <1>14, <1>15 DEF CheckRosterAgreement
<1> QED
  BY <1>10, <1>11, <1>16

\* What a tree needs besides the two lemmas for its rebuild to be accepted.
LEMMA RebuildableParts ==
    ASSUME NEW t \in Tree, AbsentManifestsAreEmpty(t)
    PROVE  Rebuildable(t) <=>
               /\ SharedFilesAllowed(t)
               /\ CheckRosterAgreement(t) /\ CheckHomeProject(t) /\ CheckManifestPagesEmitted(t)
               /\ CheckManifestPostsEmitted(t) /\ CheckSharedArtifacts(t)
               /\ \A path \in SharedLinks(t) : t.site[path] # None
               /\ CheckProjectReachability(t)
<1>1. SharedOnlyJob.scope = "shared-only"
  BY DEF SharedOnlyJob, SharedOnlyScope
<1> DEFINE g == GenerateSharedFiles(t)
<1>2. /\ g.declared = t.declared /\ g.home = t.home /\ g.site = t.site /\ g.kinds = t.kinds
      /\ g.record = t.record /\ g.pages = t.pages /\ g.posts = t.posts
      /\ g.overlay = t.overlay /\ g.member = t.member /\ g.listed = SharedLinks(t)
  BY DEF GenerateSharedFiles, Tree
<1> HIDE DEF g
<1>3. /\ Subtrees(g) = Subtrees(t) /\ HomeOwnedRootNames(g) = HomeOwnedRootNames(t)
      /\ ListedProjects(g) = ListedProjects(t)
      /\ \A x, p : PageAddress(g, x, p) = PageAddress(t, x, p)
      /\ \A x : ManifestPosts(g, x) = ManifestPosts(t, x)
  BY <1>2 DEF Subtrees, Emitted, HomeOwnedRootNames, ListedProjects, PageAddress, ManifestPosts
<1>4. VerifyAssembly(g) <=>
               /\ CheckRosterAgreement(t) /\ CheckHomeProject(t) /\ CheckManifestPagesEmitted(t)
               /\ CheckManifestPostsEmitted(t) /\ CheckSharedArtifacts(t)
               /\ \A path \in SharedLinks(t) : t.site[path] # None
               /\ CheckProjectReachability(t)
  <2>1. CheckRosterAgreement(g) <=> CheckRosterAgreement(t)
    BY <1>2, <1>3 DEF CheckRosterAgreement
  <2>2. CheckHomeProject(g) <=> CheckHomeProject(t)
    BY <1>2, <1>3 DEF CheckHomeProject
  <2>3. CheckManifestPagesEmitted(g) <=> CheckManifestPagesEmitted(t)
    BY <1>2, <1>3 DEF CheckManifestPagesEmitted
  <2>4. CheckManifestPostsEmitted(g) <=> CheckManifestPostsEmitted(t)
    BY <1>2, <1>3 DEF CheckManifestPostsEmitted
  <2>5. CheckSharedArtifacts(g) <=> CheckSharedArtifacts(t)
    BY <1>2 DEF CheckSharedArtifacts
  <2>6. CheckProjectReachability(g) <=> CheckProjectReachability(t)
    BY <1>2 DEF CheckProjectReachability
  <2>7. CheckReferences(g) <=> \A path \in SharedLinks(t) : t.site[path] # None
    BY <1>2 DEF CheckReferences
  <2> QED
    BY <2>1, <2>2, <2>3, <2>4, <2>5, <2>6, <2>7 DEF VerifyAssembly
<1>5. CASE ReconcileMembership(t) = t
  <2>1. Grafted(t, SharedOnlyJob) = t /\ Integrated(t, SharedOnlyJob) = g
    BY <1>1, <1>5 DEF Grafted, Integrated, g
  <2> QED
    BY <1>1, <1>4, <1>5, <2>1 DEF Rebuildable, Accepts
<1>6. CASE ReconcileMembership(t) # t
  BY <1>6, ReconcileAgain DEF Rebuildable
<1> QED
  BY <1>5, <1>6

\* A command's commit is its update of the ref.
LEMMA CommitsArePushed ==
    ASSUME TypeOK, Next, NEW p \in Publishers, cmd[p].step = "ref", cmd'[p].step = "dispatch"
    PROVE  tree' = Pushed(tree, cmd[p])
<1>1. cmd \in [Publishers -> Command] /\ IdleCommand.step = "idle"
  BY DEF TypeOK, IdleCommand
<1>2. ASSUME NEW q \in Publishers, PublisherStep(q) \/ CommandDies(q)
      PROVE  tree' = Pushed(tree, cmd[p])
  <2>1. CASE q # p
    <3>1. cmd'[p] = cmd[p]
      BY <1>1, <1>2, <2>1 DEF PublisherStep, CommandDies, ReadRoster, ReadClaims, ReadRecord,
             ListPaths, ReadMembership, ReadHead, UpdateRef, DispatchSharedRebuild
    <3> QED
      BY <3>1
  <2>2. CASE q = p
    <3>1. CASE UpdateRef(p)
      BY <1>1, <3>1 DEF UpdateRef
    <3>2. CASE CommandDies(p)
      BY <1>1, <3>2 DEF CommandDies
    <3>3. CASE PublisherStep(p) /\ ~UpdateRef(p)
      BY <3>3 DEF PublisherStep, ReadRoster, ReadClaims, ReadRecord, ListPaths,
                  ReadMembership, ReadHead, DispatchSharedRebuild
    <3> QED
      BY <1>2, <2>2, <3>1, <3>2, <3>3
  <2> QED
    BY <2>1, <2>2
<1>3. CASE \E r \in Runners : RunStep(r) \/ RunFault(r)
  <2>1. cmd' = cmd
    BY <1>3 DEF RunStep, RunFault, StartRun, Sync, PushAccepted, PushRejected, Deploy,
                PushLost, PushTimedOut, RunDies
  <2> QED
    BY <2>1
<1>4. CASE \E q \in Publishers, o \in OfferedCommands : Begin(q, o)
  <2>1. PICK q \in Publishers : cmd[q].step = "idle" /\ \A x \in Publishers \ {q} : cmd'[x] = cmd[x]
    BY <1>1, <1>4 DEF Begin
  <2> QED
    BY <2>1
<1>5. CASE (\E job \in OfferedJobs : Dispatch(job)) \/ (\E edit \in OfferedRosters : EditRoster(edit))
  BY <1>5 DEF Dispatch, EditRoster
<1> QED
  BY <1>2, <1>3, <1>4, <1>5 DEF Next

\* A publish of a project other than the home that finds what it read leaves the
\* rebuild it dispatches possible, if it was before; the publishers verify nothing.
THEOREM PublishesKeepRebuilds == Spec => PublishesStayRebuildable
<1> DEFINE stays == \A p \in Publishers :
              /\ Commits(p, "posts") \/ (Commits(p, "docs") /\ Index \in cmd[p].build.pages)
              /\ Rebuildable(tree) /\ ListingsAreBacked(tree)
              /\ ReadsStillHold(tree, cmd[p]) /\ PrunesItsOwn(tree, cmd[p])
              => Rebuildable(tree')
<1>1. CommitInv /\ [Next]_vars => [stays]_vars
  <2> SUFFICES ASSUME CommitInv, Next, NEW p \in Publishers,
                      Commits(p, "posts") \/ (Commits(p, "docs") /\ Index \in cmd[p].build.pages),
                      Rebuildable(tree), ListingsAreBacked(tree),
                      ReadsStillHold(tree, cmd[p]), PrunesItsOwn(tree, cmd[p])
               PROVE  Rebuildable(tree')
    OBVIOUS
  <2> PICK t \in Tree, c \in Command : t = tree /\ c = cmd[p]
    BY DEF CommitInv, TypeOK
  <2>1. AbsentManifestsAreEmpty(t) /\ Publishes(t, c)
    <3>1. c.kind = "posts" \/ (c.kind = "docs" /\ Index \in c.build.pages)
      BY DEF Commits
    <3> QED
      BY <3>1 DEF CommitInv, WorkIsCurrent, Publishes
  <2>2. tree' = Pushed(t, c)
    BY CommitsArePushed DEF Commits, CommitInv
  <2>3. Pushed(t, c) \in Tree /\ AbsentManifestsAreEmpty(Pushed(t, c))
    BY <2>1, PushedType, PushedManifests
  <2>4. /\ SharedFilesAllowed(t) /\ CheckRosterAgreement(t) /\ CheckHomeProject(t)
        /\ CheckManifestPagesEmitted(t) /\ CheckManifestPostsEmitted(t)
        /\ CheckSharedArtifacts(t) /\ CheckProjectReachability(t)
    BY <2>1, RebuildableParts
  <2> DEFINE u == Pushed(t, c)
  <2>5. /\ CheckRosterAgreement(u) /\ CheckHomeProject(u) /\ CheckProjectReachability(u)
    BY <2>1, <2>4, PublishedRoster
  <2>6. /\ SharedFilesAllowed(u) /\ CheckManifestPagesEmitted(u) /\ CheckManifestPostsEmitted(u)
    BY <2>1, <2>4, PublishedListing
  <2>7. CheckSharedArtifacts(u)
    <3>1. <<RootDir, Index>> \in Path /\ RootDir \notin {c.slug, BlogDir}
      BY NamesAssumption DEF Path, Dirs, Command
    <3>2. u.site[<<RootDir, Index>>] = t.site[<<RootDir, Index>>]
      BY <2>1, <3>1, PublishedFiles
    <3> QED
      BY <2>4, <3>2 DEF CheckSharedArtifacts
  <2>8. \A path \in SharedLinks(u) : u.site[path] # None
    BY <2>6 DEF SharedLinks, CheckManifestPagesEmitted, CheckManifestPostsEmitted
  <2> QED
    BY <2>2, <2>3, <2>5, <2>6, <2>7, <2>8, RebuildableParts
<1> QED
  BY <1>1, CommitInvHolds, PTL DEF Spec, PublishesStayRebuildable

-----------------------------------------------------------------------------
(***************************************************************************)
(* Whose files these are, in an assembly that only integrates write to and *)
(* whose roster names one home project throughout.                         *)
(***************************************************************************)

\* Nobody publishes through the API, the roster's home project stays, and no
\* slug is spelled like the beginning of another.
OnlyIntegrates ==
    /\ OfferedCommands = {}
    /\ \A edit \in OfferedRosters : edit.home = InitialTree.home
    /\ \A s \in Slugs : Extends[s] = {}

FilesOwned(t) ==
    \A path \in Path : t.site[path] # None => path \in Claimed(t.record[t.site[path]])

\* Only a member claims anything: what lies in its directory or is a post, but
\* for the home project.
ClaimsOwned(t) ==
    \A x \in Slugs : \A path \in Claimed(t.record[x]) :
        t.member[x] # "absent" /\ (x = t.home \/ path[1] \in {x, BlogDir})

\* The home project's pages are in nobody's directory.
HomeApart(t) == \A x \in Slugs : x \in HomeOwnedRootNames(t) => t.member[x] = "absent"

Owned(t) == FilesOwned(t) /\ ClaimsOwned(t) /\ HomeApart(t)

OwnInv ==
    /\ \A p \in Publishers : cmd[p].step = "idle"
    /\ tree.home = InitialTree.home
    /\ Owned(tree)

\* Two projects that both claim a path claim a post; only then can one of them
\* take it from the other.
LEMMA ClaimedApart ==
    ASSUME NEW t \in Tree, ClaimsOwned(t), HomeApart(t), NEW x \in Slugs, NEW y \in Slugs, x # y,
           NEW path \in Claimed(t.record[x]), path \in Claimed(t.record[y])
    PROVE  IsPost(path)
<1>1. SUFFICES ASSUME ~IsPost(path) PROVE FALSE
  OBVIOUS
<1>2. path[1] # BlogDir /\ t.member[x] # "absent" /\ t.member[y] # "absent"
  BY <1>1 DEF IsPost, ClaimsOwned
<1>3. RootDir \notin Slugs
  BY NamesAssumption
<1>4. CASE x = t.home
  <2>1. path[1] = y /\ y # RootDir
    BY <1>2, <1>3, <1>4 DEF ClaimsOwned
  <2>2. y \in HomeOwnedRootNames(t)
    BY <1>2, <1>4, <2>1 DEF HomeOwnedRootNames
  <2> QED
    BY <1>2, <2>2 DEF HomeApart
<1>5. CASE y = t.home
  <2>1. path[1] = x /\ x # RootDir
    BY <1>2, <1>3, <1>5 DEF ClaimsOwned
  <2>2. x \in HomeOwnedRootNames(t)
    BY <1>2, <1>5, <2>1 DEF HomeOwnedRootNames
  <2> QED
    BY <1>2, <2>2 DEF HomeApart
<1>6. CASE x # t.home /\ y # t.home
  BY <1>2, <1>6 DEF ClaimsOwned
<1> QED
  BY <1>4, <1>5, <1>6

\* Reconciliation drops the records of whoever is not declared, and no other.
LEMMA ReconciledRecords ==
    ASSUME NEW t \in Tree, AbsentManifestsAreEmpty(t), OnlyIntegrates, NEW x \in Slugs
    PROVE  /\ x \in t.declared => ReconcileMembership(t).record[x] = t.record[x]
           /\ x \notin t.declared => ReconcileMembership(t).record[x] = NoClaims
<1> DEFINE retired == Retired(t) \cap Slugs
           kept == [y \in Slugs |-> KeptKinds(t, retired, y)]
<1>1. ReconcileMembership(t).record[x] = IF "files" \in kept[x] THEN t.record[x] ELSE NoClaims
  BY DEF ReconcileMembership, KeepManifests, Tree
<1>2. \A r \in retired : r \notin t.declared /\ x \notin Extends[r]
  BY DEF Retired, OnlyIntegrates
<1>3. CASE x \in t.declared
  <2>1. "files" \in t.kinds[x] => "files" \in kept[x]
    BY <1>2, <1>3 DEF KeptKinds, ManifestFileOf, ManifestOwned
  <2>2. "files" \notin t.kinds[x] => t.record[x] = NoClaims
    BY DEF AbsentManifestsAreEmpty
  <2> QED
    BY <1>1, <1>3, <2>1, <2>2
<1>4. CASE x \notin t.declared
  <2>1. "files" \notin kept[x]
    BY <1>4 DEF KeptKinds, ManifestOwned
  <2> QED
    BY <1>1, <1>4, <2>1
<1> QED
  BY <1>3, <1>4

LEMMA ReconcileKeepsRoster ==
    ASSUME NEW t \in Tree
    PROVE  ReconcileMembership(t).home = t.home /\ ReconcileMembership(t).declared = t.declared
BY DEF ReconcileMembership, KeepManifests, Tree

LEMMA NobodyClaims == Claimed(NoClaims) = {}
BY DEF Claimed, NoClaims

\* Reconciliation leaves files of declared projects only, each still claimed.
LEMMA ReconcileKeepsOwned ==
    ASSUME NEW t \in Tree, AbsentManifestsAreEmpty(t), OnlyIntegrates, Owned(t)
    PROVE  /\ Owned(ReconcileMembership(t))
           /\ \A path \in Path : ReconcileMembership(t).site[path] \in t.declared \cup {None}
<1> DEFINE u == ReconcileMembership(t)
           dirs == Retired(t)
           retired == dirs \cap Slugs
           claims == ClaimsOfRetired(t, retired)
<1>1. /\ u.home = t.home /\ u.declared = t.declared
      /\ u.site = [path \in Path |-> IF path[1] \in dirs \/ path \in claims THEN None ELSE t.site[path]]
      /\ \A x \in Slugs : u.member[x] = IF x \in t.declared THEN t.member[x] ELSE "absent"
  BY DEF ReconcileMembership, KeepManifests, Tree
<1>2. \A x \in Slugs : /\ x \in t.declared => u.record[x] = t.record[x]
                       /\ x \notin t.declared => u.record[x] = NoClaims
  BY ReconciledRecords
<1>3. t.site \in [Path -> Slugs \cup {None}] /\ t.home \in Slugs
  BY DEF Tree
<1>4. ASSUME NEW path \in Path, u.site[path] # None
      PROVE  u.site[path] = t.site[path] /\ t.site[path] \in Slugs /\ u.site[path] \in t.declared
  <2>1. u.site[path] = t.site[path] /\ t.site[path] \in Slugs /\ path \notin claims
    BY <1>1, <1>3, <1>4
  <2>2. path \in Claimed(t.record[t.site[path]]) /\ t.member[t.site[path]] # "absent"
    BY <1>4, <2>1 DEF Owned, FilesOwned, ClaimsOwned
  <2>3. ASSUME t.site[path] \notin t.declared PROVE FALSE
    <3>1. t.site[path] \in retired
      BY <2>1, <2>2, <2>3 DEF Retired
    <3>2. \A r \in retired : t.site[path] \notin Extends[r]
      BY DEF OnlyIntegrates
    <3>3. path \in claims
      BY <2>2, <3>1, <3>2 DEF ClaimsOfRetired
    <3> QED
      BY <2>1, <3>3
  <2> QED
    BY <2>1, <2>3
<1> HIDE DEF u, dirs, retired, claims
<1>5. FilesOwned(u)
  BY <1>2, <1>4 DEF Owned, FilesOwned
<1>6. ClaimsOwned(u)
  BY <1>1, <1>2, NobodyClaims DEF Owned, ClaimsOwned
<1>7. HomeApart(u)
  <2>1. HomeOwnedRootNames(u) \subseteq HomeOwnedRootNames(t)
    BY <1>1, <1>2, <1>3, NobodyClaims DEF HomeOwnedRootNames
  <2> QED
    BY <1>1, <2>1 DEF Owned, HomeApart
<1> QED
  BY <1>4, <1>5, <1>6, <1>7 DEF Owned, u

\* What stands on the site for a declared project, where its files go.
Standing(t, path, s) ==
    /\ t.site[path] = s /\ s \in t.declared
    /\ path[1] \in {s, BlogDir} \/ s = t.home

\* Reconciliation removes nothing of a declared project.
LEMMA ReconcileSpares ==
    ASSUME NEW t \in Tree, AbsentManifestsAreEmpty(t), OnlyIntegrates, Owned(t), Disjoint(t),
           NEW path \in Path, NEW s \in Slugs, Standing(t, path, s)
    PROVE  ReconcileMembership(t).site[path] = s
<1> DEFINE dirs == Retired(t)
           retired == dirs \cap Slugs
           claims == ClaimsOfRetired(t, retired)
<1>1. ReconcileMembership(t).site[path] =
        IF path[1] \in dirs \/ path \in claims THEN None ELSE t.site[path]
  BY DEF ReconcileMembership, KeepManifests, Tree
<1>2. /\ path \in Claimed(t.record[s]) /\ t.member[s] # "absent"
      /\ {RootDir, BlogDir} \cap Slugs = {}
  BY NamesAssumption DEF Owned, FilesOwned, ClaimsOwned, Standing
<1>3. path[1] \notin dirs
  <2>1. CASE path[1] \in {s, BlogDir}
    BY <1>2, <2>1 DEF Retired, Standing
  <2>2. CASE s = t.home /\ path[1] \notin {RootDir, BlogDir}
    <3>1. path[1] \in HomeOwnedRootNames(t)
      BY <1>2, <2>2 DEF HomeOwnedRootNames
    <3>2. path[1] \in Slugs => t.member[path[1]] = "absent"
      BY <3>1 DEF Owned, HomeApart
    <3> QED
      BY <3>1, <3>2 DEF Retired
  <2>3. CASE s = t.home /\ path[1] \in {RootDir, BlogDir}
    BY <1>2, <2>3 DEF Retired
  <2> QED
    BY <2>1, <2>2, <2>3 DEF Standing
<1>4. path \notin claims
  <2>1. SUFFICES ASSUME NEW x \in retired, path \in Claimed(t.record[x]) PROVE FALSE
    BY DEF ClaimsOfRetired
  <2>2. x \in Slugs /\ x # s
    BY <2>1 DEF Retired, Standing
  <2>3. IsPost(path)
    BY <1>2, <2>1, <2>2, ClaimedApart DEF Owned
  <2> QED
    BY <1>2, <2>1, <2>2, <2>3 DEF Disjoint, PostPaths
<1> QED
  BY <1>1, <1>3, <1>4 DEF Standing

\* What a build puts where.
LEMMA ProducedPlaces ==
    ASSUME NEW t \in Tree, NEW job \in Job, NEW path \in Produced(t, job), job.slug # t.home
    PROVE  path[1] \in {job.slug, BlogDir}
BY DEF Produced, SplitBuildOutput

\* A graft removes what its own record claims and writes what it then claims;
\* whatever else the project had on the site, its record still claims.
LEMMA GraftedFiles ==
    ASSUME NEW t \in Tree, NEW job \in Job, ~NothingToPublish(job)
    PROVE  LET s == job.slug
               produced == Produced(t, job)
               removed == PrunePlan(t.record[s], Owner(job), produced).removed
               a == ApplyProjectFiles(t, job)
           IN  /\ a.home = t.home /\ a.declared = t.declared /\ a.member = t.member
               /\ removed \subseteq Claimed(t.record[s])
               /\ \A path \in Path :
                    a.site[path] = IF path \in removed THEN None
                                   ELSE IF path \in produced THEN s ELSE t.site[path]
               /\ \A x \in Slugs \ {s} : a.record[x] = t.record[x]
               /\ Claimed(a.record[s]) \subseteq Claimed(t.record[s]) \cup produced
               /\ produced \subseteq Claimed(a.record[s])
               /\ Claimed(t.record[s]) \ removed \subseteq Claimed(a.record[s])
<1> DEFINE s == job.slug
           owner == Owner(job)
           produced == Produced(t, job)
           plan == PrunePlan(t.record[s], owner, produced)
           a == ApplyProjectFiles(t, job)
<1>1. s \in Slugs /\ t.record[s] \in Record /\ t.record \in [Slugs -> Record] /\ owner \in Owners
      /\ produced \in SUBSET Path
  BY ProducedType DEF Job, Tree, Owner, Owners
<1>2. /\ a.home = t.home /\ a.declared = t.declared /\ a.member = t.member
      /\ a.site = GraftSubtree(t.site, s, produced, plan.removed)
      /\ a.record = [t.record EXCEPT ![s] = plan.updated]
  BY ApplyParts
<1> HIDE DEF a, s, owner, produced
<1>3. plan.removed \subseteq Claimed(t.record[s])
  BY <1>1 DEF PrunePlan, Claimed
<1>4. /\ Claimed(plan.updated) \subseteq Claimed(t.record[s]) \cup produced
      /\ produced \subseteq Claimed(plan.updated)
  <2>1. Claimed(plan.updated) \subseteq Claimed(t.record[s]) \cup produced
    BY <1>1, PruneClaims
  <2>2. plan.updated[owner] = produced
    BY <1>1 DEF PrunePlan, Record
  <2> QED
    BY <1>1, <2>1, <2>2 DEF Claimed
<1>5. Claimed(t.record[s]) \ plan.removed \subseteq Claimed(plan.updated)
  <2> SUFFICES ASSUME NEW path \in Claimed(t.record[s]), path \notin plan.removed
               PROVE  path \in Claimed(plan.updated)
    OBVIOUS
  <2>1. /\ plan.updated[owner] = produced
        /\ \A o \in Owners \ {owner} : plan.updated[o] = t.record[s][o]
    BY <1>1 DEF PrunePlan, Record
  <2>2. PICK o \in Owners : path \in t.record[s][o]
    BY DEF Claimed
  <2>3. CASE o # owner
    BY <2>1, <2>2, <2>3 DEF Claimed
  <2>4. CASE o = owner
    <3>1. path \in produced \/ \E other \in Owners \ {owner} : path \in t.record[s][other]
      BY <2>2, <2>4 DEF PrunePlan
    <3> QED
      BY <1>1, <2>1, <3>1 DEF Claimed
  <2> QED
    BY <2>3, <2>4
<1>6. \A path \in Path :
        a.site[path] = IF path \in plan.removed THEN None
                       ELSE IF path \in produced THEN s ELSE t.site[path]
  <2>1. plan.removed \cap produced = {}
    BY DEF PrunePlan
  <2> HIDE DEF plan
  <2> SUFFICES ASSUME NEW path \in Path
               PROVE  a.site[path] = IF path \in plan.removed THEN None
                                     ELSE IF path \in produced THEN s ELSE t.site[path]
    OBVIOUS
  <2>2. a.site[path] = GraftSubtree(t.site, s, produced, plan.removed)[path]
    BY <1>2
  <2>3. CASE path \in plan.removed
    BY <2>1, <2>2, <2>3 DEF GraftSubtree
  <2>4. CASE path \in produced
    BY <2>1, <2>2, <2>4 DEF GraftSubtree
  <2>5. CASE path \notin plan.removed /\ path \notin produced
    BY <2>2, <2>5 DEF GraftSubtree
  <2> QED
    BY <2>1, <2>3, <2>4, <2>5
<1>7. a.record[s] = plan.updated /\ \A x \in Slugs \ {s} : a.record[x] = t.record[x]
  BY <1>1, <1>2
<1> QED
  BY <1>2, <1>3, <1>4, <1>5, <1>6, <1>7 DEF a, s, owner, produced

\* What an integrate commits, but for the addresses that it generates.
LEMMA GraftOfTree ==
    ASSUME NEW t \in Tree, NEW job \in Job
    PROVE  LET r == ReconcileMembership(t)
               a == ApplyProjectFiles(r, job)
               w == Integrated(t, job)
           IN  /\ job.scope = "shared-only" =>
                    /\ w.site = r.site /\ w.record = r.record /\ w.member = r.member
                    /\ w.home = r.home /\ w.declared = r.declared
               /\ job.scope # "shared-only" =>
                    /\ w.site = a.site /\ w.record = a.record /\ w.home = a.home
                    /\ w.declared = a.declared
                    /\ w.member = [a.member EXCEPT ![job.slug] = "referenced"]
<1> DEFINE r == ReconcileMembership(t)
           a == ApplyProjectFiles(r, job)
<1>1. r \in Tree /\ a \in Tree
  BY ReconcileType, ApplyType
<1> HIDE DEF a, r
<1>3. /\ RecordMembership(a, job.slug).site = a.site
      /\ RecordMembership(a, job.slug).record = a.record
      /\ RecordMembership(a, job.slug).home = a.home
      /\ RecordMembership(a, job.slug).declared = a.declared
      /\ RecordMembership(a, job.slug).member = [a.member EXCEPT ![job.slug] = "referenced"]
  BY <1>1 DEF RecordMembership, Tree
<1> QED
  BY <1>1, <1>3 DEF Integrated, Grafted, GenerateSharedFiles, a, r

LEMMA IntegratedKeepsOwned ==
    ASSUME NEW t \in Tree, NEW job \in Job, AbsentManifestsAreEmpty(t), OnlyIntegrates, Owned(t),
           Accepts(t, job)
    PROVE  /\ Owned(Integrated(t, job)) /\ Integrated(t, job).home = t.home
           /\ \A path \in Path : Integrated(t, job).site[path] \in t.declared \cup {None}
           /\ Integrated(t, job).declared = t.declared
<1> DEFINE r == ReconcileMembership(t)
           w == Integrated(t, job)
           s == job.slug
<1>1. /\ r \in Tree /\ Owned(r) /\ r.home = t.home /\ r.declared = t.declared
      /\ \A path \in Path : r.site[path] \in t.declared \cup {None}
  BY ReconcileType, ReconcileKeepsOwned, ReconcileKeepsRoster
<1>2. s \in Slugs /\ VerifyAssembly(w) /\ (job.scope # "shared-only" => s \in t.declared)
  BY DEF Job, Accepts
<1>3. /\ FilesOwned(w) /\ ClaimsOwned(w) /\ w.home = t.home /\ w.declared = t.declared
      /\ \A path \in Path : w.site[path] \in t.declared \cup {None}
  <2>1. CASE job.scope = "shared-only"
    <3>1. /\ w.site = r.site /\ w.record = r.record /\ w.member = r.member
          /\ w.home = r.home /\ w.declared = r.declared
      BY <2>1, GraftOfTree
    <3> HIDE DEF w, r
    <3> QED
      BY <1>1, <3>1 DEF Owned, FilesOwned, ClaimsOwned
  <2>2. CASE job.scope # "shared-only"
    <3> DEFINE a == ApplyProjectFiles(r, job)
    <3>1. /\ w.site = a.site /\ w.record = a.record /\ w.home = a.home /\ w.declared = a.declared
          /\ w.member = [a.member EXCEPT ![s] = "referenced"]
      BY <2>2, GraftOfTree
    <3>2. CASE NothingToPublish(job)
      <4>1. a = r
        BY <3>2 DEF ApplyProjectFiles
      <4>2. \A x \in Slugs : r.member[x] # "absent" => w.member[x] # "absent"
        BY <1>1, <1>2, <3>1, <4>1 DEF Tree
      <4> HIDE DEF w, r, a
      <4> QED
        BY <1>1, <3>1, <4>1, <4>2 DEF Owned, FilesOwned, ClaimsOwned
    <3>3. CASE ~NothingToPublish(job)
      <4> DEFINE produced == Produced(r, job)
                 removed == PrunePlan(r.record[s], Owner(job), produced).removed
      <4>1. /\ a.home = r.home /\ a.declared = r.declared /\ a.member = r.member
            /\ \A path \in Path :
                 a.site[path] = IF path \in removed THEN None
                                ELSE IF path \in produced THEN s ELSE r.site[path]
            /\ \A x \in Slugs \ {s} : a.record[x] = r.record[x]
            /\ Claimed(a.record[s]) \subseteq Claimed(r.record[s]) \cup produced
            /\ produced \subseteq Claimed(a.record[s])
            /\ Claimed(r.record[s]) \ removed \subseteq Claimed(a.record[s])
        BY <1>1, <3>3, GraftedFiles
      <4>2. /\ w.member[s] # "absent"
            /\ \A x \in Slugs : r.member[x] # "absent" => w.member[x] # "absent"
        BY <1>1, <1>2, <3>1, <4>1 DEF Tree
      <4>3. s # r.home => \A path \in produced : path[1] \in {s, BlogDir}
        BY <1>1, ProducedPlaces
      <4> HIDE DEF w, r, a, produced, removed, s
      <4>4. FilesOwned(w)
        BY <1>1, <3>1, <4>1 DEF Owned, FilesOwned, Tree
      <4>5. ClaimsOwned(w)
        BY <1>1, <3>1, <4>1, <4>2, <4>3 DEF Owned, ClaimsOwned
      <4> QED
        BY <1>1, <1>2, <2>2, <3>1, <4>1, <4>4, <4>5
    <3> QED
      BY <3>2, <3>3
  <2> QED
    BY <2>1, <2>2
<1>4. HomeApart(w)
  BY <1>2 DEF VerifyAssembly, CheckHomeProject, CheckRosterAgreement, HomeApart
<1> QED
  BY <1>3, <1>4 DEF Owned

\* An integrate leaves what stands for the other declared projects alone.
LEMMA IntegratedSpares ==
    ASSUME NEW t \in Tree, NEW job \in Job, AbsentManifestsAreEmpty(t), OnlyIntegrates, Owned(t),
           Disjoint(t), Accepts(t, job),
           NEW path \in Path, NEW s \in Slugs \ {job.slug}, Standing(t, path, s)
    PROVE  Integrated(t, job).site[path] = s
<1> DEFINE r == ReconcileMembership(t)
           a == ApplyProjectFiles(r, job)
           w == Integrated(t, job)
           j == job.slug
           produced == Produced(r, job)
           removed == PrunePlan(r.record[j], Owner(job), produced).removed
<1>1. /\ r \in Tree /\ Owned(r) /\ Disjoint(r) /\ r.home = t.home /\ r.declared = t.declared
      /\ r.site[path] = s
  BY ReconcileType, ReconcileKeepsOwned, ReconcileKeepsDisjoint, ReconcileSpares,
     ReconcileKeepsRoster
<1>2. j \in Slugs /\ s # None /\ VerifyAssembly(w)
  BY NamesAssumption DEF Job, Accepts
<1>3. path \in Claimed(r.record[s])
  BY <1>1, <1>2 DEF Owned, FilesOwned
<1>4. CASE job.scope = "shared-only"
  BY <1>1, <1>4, GraftOfTree
<1>5. CASE job.scope # "shared-only" /\ NothingToPublish(job)
  BY <1>1, <1>5, GraftOfTree DEF ApplyProjectFiles
<1>6. CASE job.scope # "shared-only" /\ ~NothingToPublish(job)
  <2>1. /\ w.site = a.site /\ w.record = a.record /\ w.home = a.home /\ w.declared = a.declared
    BY <1>6, GraftOfTree
  <2>2. /\ a.home = r.home /\ a.declared = r.declared
        /\ removed \subseteq Claimed(r.record[j])
        /\ a.site[path] = IF path \in removed THEN None
                          ELSE IF path \in produced THEN j ELSE r.site[path]
        /\ \A x \in Slugs \ {j} : a.record[x] = r.record[x]
        /\ produced \subseteq Claimed(a.record[j])
    BY <1>1, <1>6, GraftedFiles
  <2>3. path \notin removed
    <3>1. SUFFICES ASSUME path \in Claimed(r.record[j]) PROVE FALSE
      BY <2>2
    <3>2. IsPost(path)
      BY <1>1, <1>2, <1>3, <3>1, ClaimedApart DEF Owned
    <3> QED
      BY <1>1, <1>2, <1>3, <3>1, <3>2 DEF Disjoint, PostPaths
  <2>4. path \notin produced
    <3>1. SUFFICES ASSUME path \in produced PROVE FALSE
      OBVIOUS
    <3>2. CASE IsPost(path)
      <4>1. path \in ForeignPostClaims(r, j, Slugs)
        BY <1>2, <1>3, <3>2 DEF ForeignPostClaims
      <4> QED
        BY <1>6, <3>1, <4>1 DEF Accepts, GraftAllowed
    <3>3. CASE ~IsPost(path)
      <4>1. path[1] = s \/ s = r.home
        BY <1>1, <3>3 DEF Standing, IsPost
      <4>2. j # r.home => path[1] = j
        BY <1>1, <3>1, <3>3, ProducedPlaces DEF IsPost
      <4>3. path \in Claimed(w.record[w.home]) /\ path[1] \in w.declared
        <5>1. CASE j = r.home
          BY <1>1, <1>2, <2>1, <2>2, <3>1, <4>1, <5>1 DEF Standing
        <5>2. CASE j # r.home
          BY <1>1, <1>2, <1>3, <1>6, <2>1, <2>2, <4>1, <4>2, <5>2 DEF Accepts
        <5> QED
          BY <5>1, <5>2
      <4>4. path[1] \notin {RootDir, BlogDir}
        <5>1. path[1] \in {s, j}
          BY <4>1, <4>2
        <5> QED
          BY <1>2, <5>1, NamesAssumption
      <4>5. path[1] \in HomeOwnedRootNames(w)
        BY <4>3, <4>4 DEF HomeOwnedRootNames
      <4> QED
        BY <1>2, <4>3, <4>5 DEF VerifyAssembly, CheckHomeProject
    <3> QED
      BY <3>2, <3>3
  <2> QED
    BY <1>1, <2>1, <2>2, <2>3, <2>4
<1> QED
  BY <1>4, <1>5, <1>6

\* A run's step leaves the branch alone or integrates onto it.
LEMMA RunIntegrates ==
    ASSUME CommitInv, NEW r \in Runners, RunStep(r) \/ RunFault(r)
    PROVE  tree' = tree \/ \E job \in Job : Accepts(tree, job) /\ tree' = Integrated(tree, job)
<1>1. run[r].job \in Job
  BY DEF CommitInv, TypeOK, Run
<1>2. tree' = tree \/ (run[r].phase = "push" /\ run[r].base = head /\ tree' = run[r].work)
  BY DEF RunStep, RunFault, StartRun, Sync, PushAccepted, PushRejected, PushLost, PushTimedOut,
         RunDies, Deploy
<1> QED
  BY <1>1, <1>2, CurrentPush DEF CommitInv

LEMMA OwnInvStep ==
    ASSUME OnlyIntegrates, CommitInv, OwnInv, [Next]_vars
    PROVE  OwnInv'
<1>0. /\ tree \in Tree /\ AbsentManifestsAreEmpty(tree)
      /\ \A p \in Publishers : cmd[p].step = "idle"
  BY DEF CommitInv, TypeOK, WorkIsCurrent, OwnInv
<1>1. CASE \E r \in Runners : RunStep(r) \/ RunFault(r)
  <2>1. PICK r \in Runners : RunStep(r) \/ RunFault(r)
    BY <1>1
  <2>2. cmd' = cmd
    BY <2>1 DEF RunStep, RunFault, StartRun, Sync, PushAccepted, PushRejected, PushLost,
                PushTimedOut, RunDies, Deploy
  <2>3. tree'.home = tree.home /\ Owned(tree')
    BY <1>0, <2>1, RunIntegrates, IntegratedKeepsOwned DEF OwnInv
  <2> QED
    BY <2>2, <2>3 DEF OwnInv
<1>2. CASE \E p \in Publishers : PublisherStep(p) \/ CommandDies(p)
  BY <1>0, <1>2 DEF PublisherStep, CommandDies, ReadRoster, ReadClaims, ReadRecord, ListPaths,
                    ReadMembership, ReadHead, UpdateRef, DispatchSharedRebuild
<1>3. CASE \E p \in Publishers, c \in OfferedCommands : Begin(p, c)
  BY <1>3 DEF OnlyIntegrates
<1>4. CASE \E edit \in OfferedRosters : EditRoster(edit)
  <2>1. PICK edit \in OfferedRosters : EditRoster(edit)
    BY <1>4
  <2>2. /\ tree'.site = tree.site /\ tree'.record = tree.record /\ tree'.member = tree.member
        /\ tree'.home = edit.home /\ cmd' = cmd
    BY <1>0, <2>1 DEF EditRoster, Tree
  <2>3. tree'.home = tree.home
    BY <2>2 DEF OnlyIntegrates, OwnInv
  <2>4. Owned(tree')
    BY <2>2, <2>3 DEF OwnInv, Owned, FilesOwned, ClaimsOwned, HomeApart, HomeOwnedRootNames
  <2> QED
    BY <2>2, <2>3, <2>4 DEF OwnInv
<1>5. CASE (\E job \in OfferedJobs : Dispatch(job)) \/ UNCHANGED vars
  BY <1>5 DEF Dispatch, vars, OwnInv
<1> QED
  BY <1>1, <1>2, <1>3, <1>4, <1>5 DEF Next

LEMMA OwnInvHolds ==
    ASSUME OnlyIntegrates, Owned(InitialTree)
    PROVE  Spec => [](CommitInv /\ OwnInv)
<1>1. Init => OwnInv
  BY DEF Init, OwnInv, IdleCommand
<1>2. CommitInv /\ OwnInv /\ [Next]_vars => OwnInv'
  BY OwnInvStep
<1> QED
  BY <1>1, <1>2, CommitInvHolds, PTL DEF Spec

\* Every file on the site is claimed by the record of the project whose bytes it
\* holds, so that pruning, reconciliation and the overwrite refusal see it, as
\* long as the assembly is written by integrates alone (ApplyProjectFiles writes
\* record and files together, reconciliation drops them together).
THEOREM FilesStayClaimed ==
    ASSUME OnlyIntegrates, Owned(InitialTree)
    PROVE  Spec => []FilesAreClaimed
<1>1. OwnInv => FilesAreClaimed
  BY DEF OwnInv, Owned, FilesOwned, FilesAreClaimed
<1> QED
  BY <1>1, OwnInvHolds, PTL

\* No integrate takes another declared project's pages or posts off the site or
\* writes over them, the home project's included.
THEOREM IntegratesSpareOthers ==
    ASSUME OnlyIntegrates, Owned(InitialTree)
    PROVE  Spec => IntegrateSparesOthers
<1> DEFINE Spared(r) == \A path \in Path :
               LET s == tree.site[path]
               IN  /\ s \in tree.declared \ {run[r].job.slug}
                   /\ path[1] \in {s, BlogDir} \/ s = tree.home
                   => tree'.site[path] = s
           spared == \A r \in Runners : Landed(r) /\ PostClaimsDisjoint => Spared(r)
<1>1. CommitInv /\ OwnInv /\ [Next]_vars => [spared]_vars
  <2> SUFFICES ASSUME CommitInv, OwnInv, Next, NEW r \in Runners, Landed(r), PostClaimsDisjoint,
                      NEW path \in Path, tree.site[path] \in tree.declared \ {run[r].job.slug},
                      path[1] \in {tree.site[path], BlogDir} \/ tree.site[path] = tree.home
               PROVE  tree'.site[path] = tree.site[path]
    OBVIOUS
  <2>1. tree \in Tree /\ run[r].job \in Job /\ AbsentManifestsAreEmpty(tree) /\ Owned(tree)
    BY DEF CommitInv, TypeOK, Run, WorkIsCurrent, OwnInv
  <2>2. Accepts(tree, run[r].job) /\ tree' = Integrated(tree, run[r].job)
    BY LandedIsIntegrated
  <2>3. tree.site[path] \in Slugs \ {run[r].job.slug} /\ Standing(tree, path, tree.site[path])
    BY <2>1 DEF Tree, Standing
  <2> QED
    BY <2>1, <2>2, <2>3, DisjointClaims, IntegratedSpares
<1> QED
  BY <1>1, OwnInvHolds, PTL DEF Spec, IntegrateSparesOthers

\* After an integrate the site holds bytes of declared projects only.
THEOREM OnlyMembersStay ==
    ASSUME OnlyIntegrates, Owned(InitialTree)
    PROVE  Spec => OnlyMembersRemain
<1> DEFINE members == \A r \in Runners : Landed(r) =>
               \A path \in Path : tree'.site[path] \in tree'.declared \cup {None}
<1>1. CommitInv /\ OwnInv /\ [Next]_vars => [members]_vars
  <2> SUFFICES ASSUME CommitInv, OwnInv, Next, NEW r \in Runners, Landed(r), NEW path \in Path
               PROVE  tree'.site[path] \in tree'.declared \cup {None}
    OBVIOUS
  <2>1. tree \in Tree /\ run[r].job \in Job /\ AbsentManifestsAreEmpty(tree) /\ Owned(tree)
    BY DEF CommitInv, TypeOK, Run, WorkIsCurrent, OwnInv
  <2>2. Accepts(tree, run[r].job) /\ tree' = Integrated(tree, run[r].job)
    BY LandedIsIntegrated
  <2> QED
    BY <2>1, <2>2, IntegratedKeepsOwned
<1> QED
  BY <1>1, OwnInvHolds, PTL DEF Spec, OnlyMembersRemain

-------------------------------------------------------------------------------
\* Outbound links (OutboundLinks).

IsCache(cache) ==
    /\ DOMAIN cache \subseteq Urls
    /\ \A u \in DOMAIN cache : cache[u].checked \in Nat /\ cache[u].ok \in BOOLEAN

IsTree(emitted) ==
    /\ emitted = [toml |-> emitted.toml, links |-> emitted.links, cache |-> emitted.cache]
    /\ emitted.toml \in Declarations \cup {NoFile}
    /\ \A page \in DOMAIN emitted.links : emitted.links[page] \subseteq Urls

\* The store of the branch holds good answers only, each one heard.
StoreInv ==
    /\ IsTree(branch) /\ IsCache(branch.cache)
    /\ \A u \in DOMAIN branch.cache :
         branch.cache[u].ok /\ branch.cache[u].checked \in told[u]
    /\ \A u \in DOMAIN settled :
         u \in DOMAIN branch.cache /\ settled[u] = branch.cache[u].checked

ClockInv == day \in Nat /\ told \in [Urls -> SUBSET Nat]

\* The attempt holds the branch's store, but for what it asked itself.
AttemptInv ==
    deploy.pc \in {"asking", "pushing", "refused"} =>
      /\ deploy = [pc |-> deploy.pc, now |-> deploy.now, tree |-> deploy.tree,
                   cache |-> deploy.cache, asked |-> deploy.asked]
      /\ deploy.now \in Nat /\ IsTree(deploy.tree) /\ IsCache(deploy.cache)
      /\ deploy.asked # {} => Configured /\ deploy.asked \subseteq DeclaredLinks(deploy.tree)
      /\ DOMAIN deploy.cache = DOMAIN branch.cache \cup deploy.asked
      /\ \A u \in DOMAIN deploy.cache \ deploy.asked : deploy.cache[u] = branch.cache[u]
      /\ \A u \in deploy.asked :
           /\ deploy.cache[u].checked = deploy.now
           /\ deploy.cache[u].ok => deploy.now \in told[u]

\* What the verification of an attempt has seen to.
VerifiedInv ==
    /\ deploy.pc \in {"pushing", "refused"} => ToAsk \subseteq deploy.asked
    /\ deploy.pc = "pushing" => ~Malformed /\ OutboundFailures = {}

PhaseInv == deploy.pc \in {"none", "asking", "pushing", "refused", "deployed"}

OutInv == ClockInv /\ StoreInv /\ PhaseInv /\ AttemptInv /\ VerifiedInv

-----------------------------------------------------------------------------

LEMMA LinksAreUrls ==
    ASSUME NEW emitted, IsTree(emitted)
    PROVE  DeclaredLinks(emitted) \subseteq Urls
BY DEF IsTree, DeclaredLinks, OutEmitted

\* A declaration that is in force has a window of a day at least.
LEMMA WindowIsPositive ==
    ASSUME IsTree(deploy.tree)
    PROVE  Configured => deploy.tree.toml.days \in Nat \ {0}
BY DeclarationsAssumption DEF IsTree, Configured, ParseOutbound

\* An answer just got is trusted, so an attempt asks an address once.
LEMMA AskedIsTrusted ==
    ASSUME AttemptInv, deploy.pc \in {"asking", "pushing", "refused"}, Configured,
           NEW u \in deploy.asked
    PROVE  Trusted(deploy.cache, u, deploy.tree.toml.days, deploy.now)
<1>1. u \in DOMAIN deploy.cache /\ deploy.cache[u].checked = deploy.now /\ deploy.now \in Nat
  BY DEF AttemptInv
<1>2. deploy.tree.toml.days \in Nat \ {0}
  BY WindowIsPositive DEF AttemptInv
<1> QED
  BY <1>1, <1>2 DEF Trusted

LEMMA InitInv == OutInit => OutInv
<1> SUFFICES ASSUME OutInit PROVE OutInv
  OBVIOUS
<1>1. DOMAIN branch.cache = {} /\ DOMAIN settled = {} /\ deploy.pc = "none"
  BY DEF OutInit, Never, NoDeploy
<1>2. ClockInv
  BY DEF OutInit, ClockInv
<1>3. IsTree(branch)
  BY DEF OutInit, IsTree
<1>4. StoreInv
  BY <1>1, <1>3 DEF StoreInv, IsCache
<1> QED
  BY <1>1, <1>2, <1>4 DEF OutInv, PhaseInv, AttemptInv, VerifiedInv

-----------------------------------------------------------------------------
\* Steps.

\* What the invariants of an attempt say of the branch is of its store alone.
LEMMA OthersStep ==
    ASSUME OutInv, IsTree(branch'), branch'.cache = branch.cache,
           UNCHANGED <<deploy, told, settled>>, day' \in Nat
    PROVE  OutInv'
<1>1. ClockInv' /\ PhaseInv'
  BY DEF OutInv, ClockInv, PhaseInv
<1>2. StoreInv'
  BY DEF OutInv, StoreInv
<1>3. ToAsk' = ToAsk /\ Malformed' = Malformed /\ OutboundFailures' = OutboundFailures
      /\ Configured' = Configured
  BY DEF ToAsk, Malformed, OutboundFailures, Configured, Failed
<1>4. AttemptInv'
  BY <1>3 DEF OutInv, AttemptInv
<1>5. VerifiedInv'
  BY <1>3 DEF OutInv, VerifiedInv
<1> QED
  BY <1>1, <1>2, <1>4, <1>5 DEF OutInv

LEMMA ResyncStep == OutInv /\ Resync => OutInv'
<1> SUFFICES ASSUME OutInv, Resync PROVE OutInv'
  OBVIOUS
<1>1. deploy' = [pc |-> "asking", now |-> day, tree |-> branch, cache |-> branch.cache, asked |-> {}]
  BY DEF Resync
<1>2. ClockInv' /\ StoreInv' /\ PhaseInv'
  BY <1>1 DEF Resync, OutInv, ClockInv, StoreInv, PhaseInv
<1>3. AttemptInv'
  BY <1>1 DEF Resync, OutInv, ClockInv, StoreInv, AttemptInv
<1>4. VerifiedInv'
  BY <1>1 DEF VerifiedInv
<1> QED
  BY <1>2, <1>3, <1>4 DEF OutInv

LEMMA FetchStep == \A u \in Urls : OutInv /\ Fetch(u) => OutInv'
<1> SUFFICES ASSUME NEW u \in Urls, OutInv, Fetch(u) PROVE OutInv'
  OBVIOUS
<1> DEFINE answer == [checked |-> deploy.now, ok |-> u \in answers]
<1>1. /\ deploy.pc = "asking" /\ u \in ToAsk /\ u \notin deploy.asked
      /\ deploy = [pc |-> deploy.pc, now |-> deploy.now, tree |-> deploy.tree,
                   cache |-> deploy.cache, asked |-> deploy.asked]
  BY DEF Fetch, OutInv, AttemptInv
<1>2. /\ deploy'.pc = deploy.pc /\ deploy'.now = deploy.now /\ deploy'.tree = deploy.tree
      /\ deploy'.asked = deploy.asked \cup {u}
      /\ deploy'.cache = [v \in DOMAIN deploy.cache \cup {u} |->
                            IF v = u THEN answer ELSE deploy.cache[v]]
      /\ deploy' = [pc |-> deploy'.pc, now |-> deploy'.now, tree |-> deploy'.tree,
                    cache |-> deploy'.cache, asked |-> deploy'.asked]
  BY <1>1 DEF Fetch
<1>3. Configured /\ u \in DeclaredLinks(deploy.tree) /\ Configured' = Configured
  BY <1>1, <1>2 DEF ToAsk, Configured
<1>4. told' \in [Urls -> SUBSET Nat] /\ (\A v \in Urls : told[v] \subseteq told'[v])
      /\ (u \in answers => deploy.now \in told'[u])
  BY <1>1 DEF Fetch, OutInv, ClockInv, AttemptInv
<1>5. ClockInv' /\ PhaseInv'
  BY <1>1, <1>2, <1>4 DEF Fetch, OutInv, ClockInv, PhaseInv
<1>6. StoreInv'
  BY <1>4 DEF Fetch, OutInv, StoreInv, IsCache
<1>7. AttemptInv'
  <2> DEFINE old == deploy.cache
  <2>1. deploy.now \in Nat /\ IsTree(deploy.tree) /\ IsCache(old)
        /\ DOMAIN old = DOMAIN branch.cache \cup deploy.asked
        /\ (\A v \in DOMAIN old \ deploy.asked : old[v] = branch.cache[v])
        /\ (\A v \in deploy.asked : /\ old[v].checked = deploy.now
                                    /\ old[v].ok => deploy.now \in told[v])
        /\ deploy.asked \subseteq DeclaredLinks(deploy.tree)
    BY <1>1 DEF OutInv, AttemptInv
  <2>2. DOMAIN deploy'.cache = DOMAIN old \cup {u} /\ deploy'.cache[u] = answer
        /\ \A v \in DOMAIN old \ {u} : deploy'.cache[v] = old[v]
    BY <1>2
  <2>3. IsCache(deploy'.cache)
    <3>1. answer.checked \in Nat /\ answer.ok \in BOOLEAN
      BY <2>1
    <3>2. \A v \in DOMAIN deploy'.cache :
            deploy'.cache[v].checked \in Nat /\ deploy'.cache[v].ok \in BOOLEAN
      <4> HIDE DEF answer
      <4> QED
        BY <2>1, <2>2, <3>1 DEF IsCache
    <3> HIDE DEF answer, old
    <3> QED
      BY <2>1, <2>2, <3>2 DEF IsCache
  <2>4. branch' = branch
    BY DEF Fetch
  <2>5. deploy.asked \subseteq Urls
    BY <2>1, LinksAreUrls
  <2>6. \A v \in deploy'.asked : /\ deploy'.cache[v].checked = deploy'.now
                                 /\ deploy'.cache[v].ok => deploy'.now \in told'[v]
    <3> SUFFICES ASSUME NEW v \in deploy'.asked
                 PROVE  /\ deploy'.cache[v].checked = deploy'.now
                        /\ deploy'.cache[v].ok => deploy'.now \in told'[v]
      OBVIOUS
    <3>1. answer.checked = deploy.now /\ answer.ok = (u \in answers)
      OBVIOUS
    <3> HIDE DEF answer
    <3>2. CASE v = u
      BY <1>2, <1>4, <2>2, <3>1, <3>2
    <3>3. CASE v # u
      <4>1. v \in deploy.asked /\ v \in Urls /\ v \in DOMAIN old
        BY <1>2, <2>1, <2>5, <3>3
      <4>2. deploy'.cache[v] = old[v] /\ told[v] \subseteq told'[v]
        BY <1>4, <2>2, <3>3, <4>1
      <4> HIDE DEF old
      <4> QED
        BY <1>2, <2>1, <4>1, <4>2
    <3> QED
      BY <3>2, <3>3
  <2>7. \A v \in DOMAIN deploy'.cache \ deploy'.asked : deploy'.cache[v] = branch'.cache[v]
    BY <1>2, <2>1, <2>2, <2>4
  <2> QED
    BY <1>2, <1>3, <2>1, <2>2, <2>3, <2>4, <2>6, <2>7 DEF AttemptInv
<1>8. VerifiedInv'
  BY <1>1, <1>2 DEF VerifiedInv
<1> QED
  BY <1>5, <1>6, <1>7, <1>8 DEF OutInv

\* The two ends of a verification change the phase and nothing else.
LEMMA JudgedStep == OutInv /\ (Refuse \/ Verified) => OutInv'
<1> SUFFICES ASSUME OutInv, Refuse \/ Verified PROVE OutInv'
  OBVIOUS
<1>1. /\ deploy = [pc |-> deploy.pc, now |-> deploy.now, tree |-> deploy.tree,
                   cache |-> deploy.cache, asked |-> deploy.asked]
      /\ deploy.pc = "asking" /\ ToAsk \subseteq deploy.asked
      /\ UNCHANGED <<day, branch, told, settled>>
      /\ \/ deploy' = [deploy EXCEPT !.pc = "refused"]
         \/ /\ deploy' = [deploy EXCEPT !.pc = "pushing"]
            /\ ~Malformed /\ OutboundFailures = {}
  BY DEF Refuse, Verified, OutInv, AttemptInv
<1>2. /\ deploy'.now = deploy.now /\ deploy'.tree = deploy.tree
      /\ deploy'.cache = deploy.cache /\ deploy'.asked = deploy.asked
      /\ deploy'.pc \in {"refused", "pushing"}
      /\ deploy' = [pc |-> deploy'.pc, now |-> deploy'.now, tree |-> deploy'.tree,
                    cache |-> deploy'.cache, asked |-> deploy'.asked]
      /\ deploy'.pc = "pushing" => ~Malformed /\ OutboundFailures = {}
  BY <1>1
<1>3. ToAsk' = ToAsk /\ Malformed' = Malformed /\ OutboundFailures' = OutboundFailures
      /\ Configured' = Configured
  BY <1>2 DEF ToAsk, Malformed, OutboundFailures, Configured, Failed
<1>4. ClockInv' /\ StoreInv' /\ PhaseInv'
  BY <1>1, <1>2 DEF OutInv, ClockInv, StoreInv, PhaseInv
<1>5. AttemptInv'
  BY <1>1, <1>2, <1>3 DEF OutInv, AttemptInv
<1>6. VerifiedInv'
  BY <1>1, <1>2, <1>3 DEF VerifiedInv
<1> QED
  BY <1>4, <1>5, <1>6 DEF OutInv

\* Whatever an attempt that passed holds of an address is a good answer, its
\* own or the branch's.
LEMMA PushedAnswersAreGood ==
    ASSUME OutInv, deploy.pc = "pushing"
    PROVE  \A u \in DOMAIN deploy.cache :
             deploy.cache[u].ok /\ deploy.cache[u].checked \in told[u]
<1> SUFFICES ASSUME NEW u \in DOMAIN deploy.cache
             PROVE  deploy.cache[u].ok /\ deploy.cache[u].checked \in told[u]
  OBVIOUS
<1>1. CASE u \in deploy.asked
  <2>1. Configured /\ u \in DeclaredLinks(deploy.tree)
    BY <1>1 DEF OutInv, AttemptInv
  <2>2. deploy.cache[u].ok
    BY <2>1 DEF OutInv, VerifiedInv, OutboundFailures, Failed
  <2> QED
    BY <1>1, <2>2 DEF OutInv, AttemptInv
<1>2. CASE u \notin deploy.asked
  BY <1>2 DEF OutInv, AttemptInv, StoreInv
<1> QED
  BY <1>1, <1>2

LEMMA PushStep == OutInv /\ PushStore => OutInv'
<1> SUFFICES ASSUME OutInv, PushStore PROVE OutInv'
  OBVIOUS
<1>1. deploy.pc = "pushing" /\ deploy'.pc = "deployed"
      /\ IsTree(deploy.tree) /\ IsCache(deploy.cache)
      /\ branch' = [deploy.tree EXCEPT !.cache = deploy.cache]
      /\ UNCHANGED <<day, told>>
  BY DEF PushStore, OutInv, AttemptInv, StagedTree
<1>2. branch'.toml = deploy.tree.toml /\ branch'.links = deploy.tree.links
      /\ branch'.cache = deploy.cache
      /\ branch' = [toml |-> branch'.toml, links |-> branch'.links, cache |-> branch'.cache]
  BY <1>1 DEF IsTree
<1>3. IsTree(branch') /\ IsCache(branch'.cache)
  BY <1>1, <1>2 DEF IsTree
<1>4. \A u \in DOMAIN branch'.cache : branch'.cache[u].ok /\ branch'.cache[u].checked \in told'[u]
  BY <1>1, <1>2, PushedAnswersAreGood
<1>5. \A u \in DOMAIN settled' : u \in DOMAIN branch'.cache
                                 /\ settled'[u] = branch'.cache[u].checked
  BY <1>1, <1>2 DEF PushStore, OutInv, AttemptInv, StoreInv
<1>6. StoreInv'
  BY <1>3, <1>4, <1>5 DEF StoreInv
<1> QED
  BY <1>1, <1>6 DEF OutInv, ClockInv, PhaseInv, AttemptInv, VerifiedInv

LEMMA NextInv == OutInv /\ [OutNext]_outVars => OutInv'
<1> SUFFICES ASSUME OutInv, [OutNext]_outVars PROVE OutInv'
  OBVIOUS
<1> USE DEF OutInv
<1>1. CASE Resync
  BY <1>1, ResyncStep
<1>2. CASE Refuse \/ Verified
  BY <1>2, JudgedStep
<1>3. CASE PushStore
  BY <1>3, PushStep
<1>4. CASE PushBehind
  BY <1>4 DEF PushBehind, NoDeploy, ClockInv, StoreInv, PhaseInv, AttemptInv, VerifiedInv
<1>5. CASE Midnight
  BY <1>5, OthersStep DEF Midnight, ClockInv, StoreInv
<1>6. ASSUME NEW u \in Urls, Fetch(u) PROVE OutInv'
  BY <1>6, FetchStep
<1>7. ASSUME NEW u \in Urls, BreakOrMend(u) PROVE OutInv'
  BY <1>7, OthersStep DEF BreakOrMend, ClockInv, StoreInv
<1>8. ASSUME NEW page \in OutPages, NEW urls \in SUBSET Urls, PublishPage(page, urls) PROVE OutInv'
  <2>1. IsTree(branch') /\ branch'.cache = branch.cache
    BY <1>8 DEF PublishPage, StoreInv, IsTree
  <2> QED
    BY <1>8, <2>1, OthersStep DEF PublishPage, ClockInv
<1>9. ASSUME NEW toml \in Declarations, Declare(toml) PROVE OutInv'
  <2>1. IsTree(branch') /\ branch'.cache = branch.cache
    BY <1>9 DEF Declare, StoreInv, IsTree
  <2> QED
    BY <1>9, <2>1, OthersStep DEF Declare, ClockInv
<1>10. CASE UNCHANGED outVars
  BY <1>10, OthersStep DEF outVars, ClockInv, StoreInv
<1> QED
  BY <1>1, <1>2, <1>3, <1>4, <1>5, <1>6, <1>7, <1>8, <1>9, <1>10 DEF OutNext

-----------------------------------------------------------------------------
\* What the invariant gives.

LEMMA FirstHand == OutInv => RefusalsAreFirstHand
<1> SUFFICES ASSUME OutInv, deploy.pc = "refused", Configured,
                    NEW u \in OutboundFailures \cap Urls, u \notin deploy.asked
             PROVE  FALSE
  BY DEF RefusalsAreFirstHand
<1>1. deploy.tree.toml.pages \in Seq(OutPages)
  BY DeclarationsAssumption DEF OutInv, AttemptInv, IsTree, Configured
<1>2. u \notin ToSet(deploy.tree.toml.pages)
  BY <1>1, AddressesAssumption DEF ToSet
<1>3. u \in DeclaredLinks(deploy.tree) /\ Failed(u)
  BY <1>2 DEF OutboundFailures
<1>4. u \in DOMAIN deploy.cache
  BY <1>3 DEF OutInv, VerifiedInv, ToAsk, Trusted
<1>5. deploy.cache[u] = branch.cache[u] /\ u \in DOMAIN branch.cache
  BY <1>4 DEF OutInv, AttemptInv
<1> QED
  BY <1>3, <1>5 DEF Failed, OutInv, StoreInv

LEMMA Answered ==
    ASSUME OutInv, PushStore, Configured, NEW u \in DeclaredLinks(deploy.tree)
    PROVE  \E d \in told[u] : deploy.now - d < deploy.tree.toml.days
<1>1. deploy.pc = "pushing" /\ ToAsk \subseteq deploy.asked
  BY DEF PushStore, OutInv, VerifiedInv
<1>2. Trusted(deploy.cache, u, deploy.tree.toml.days, deploy.now)
  BY <1>1, AskedIsTrusted DEF ToAsk, OutInv
<1>3. u \in DOMAIN deploy.cache
      /\ deploy.now - deploy.cache[u].checked < deploy.tree.toml.days
  BY <1>2 DEF Trusted
<1> QED
  BY <1>1, <1>3, PushedAnswersAreGood

LEMMA NotAskedAgain ==
    ASSUME OutInv, NEW u \in DOMAIN settled, Fetch(u)
    PROVE  deploy.now - settled[u] >= deploy.tree.toml.days
<1>1. deploy.pc = "asking" /\ u \in ToAsk /\ u \notin deploy.asked
  BY DEF Fetch
<1>2. Configured /\ ~Trusted(deploy.cache, u, deploy.tree.toml.days, deploy.now)
  BY <1>1 DEF ToAsk
<1>3. u \in DOMAIN deploy.cache /\ deploy.cache[u] = branch.cache[u]
      /\ settled[u] = branch.cache[u].checked
  BY <1>1 DEF OutInv, AttemptInv, StoreInv
<1>4. deploy.now \in Nat /\ settled[u] \in Nat /\ deploy.tree.toml.days \in Int
  BY <1>1, <1>2, <1>3, WindowIsPositive DEF OutInv, AttemptInv, IsCache
<1> QED
  BY <1>2, <1>3, <1>4 DEF Trusted

\* A kept answer is used for its window, all of it and no longer, by whichever
\* deploys, and only a deploy's own answer refuses it (CheckOutboundLinks, and
\* the commit that hands the cache on).
THEOREM KeptAnswers == OutSpec => AnswersAreTrustedRightly
<1>1. OutInit => OutInv
  BY InitInv
<1>2. OutInv /\ [OutNext]_outVars => OutInv'
  BY NextInv
<1>3. OutInv => RefusalsAreFirstHand
  BY FirstHand
<1>4. OutInv /\ [OutNext]_outVars =>
        [PushStore /\ Configured =>
           \A u \in DeclaredLinks(deploy.tree) :
             \E d \in told[u] : deploy.now - d < deploy.tree.toml.days]_outVars
  BY Answered
<1>5. OutInv /\ [OutNext]_outVars =>
        [\A u \in DOMAIN settled :
           Fetch(u) => deploy.now - settled[u] >= deploy.tree.toml.days]_outVars
  BY NotAskedAgain
<1> QED
  BY <1>1, <1>2, <1>3, <1>4, <1>5, PTL
     DEF OutSpec, AnswersAreTrustedRightly, DeployedLinksAnswered, SettledLinksAreNotAsked
================================================================================
