------------------------------ MODULE Assembly ------------------------------
(***************************************************************************)
(* The assembly repository and everyone who moves its branch: workflow     *)
(* runs executing `assembly integrate', the publishers that commit through *)
(* the Git Data API, and the operator who edits the roster by hand.  A     *)
(* successful run deploys its own checkout, which becomes the live site.   *)
(*                                                                         *)
(* head counts the commits of the branch; it stands for the SHA a run or a *)
(* publisher compares when its push asks the branch to move.               *)
(***************************************************************************)
EXTENDS AssemblyCommits, Integers, Sequences

CONSTANTS
    Runners,         \* workflow runs that can be executing at once
    Publishers,      \* people running docs publish, post publish or retire
    Serialized,      \* the workflow's concurrency group is honoured
    Attempts,        \* pushes one integrate tries before it gives up
    InitialTree,     \* the tree the behaviour starts from, live already
    OfferedJobs,     \* the dispatches that can arrive
    OfferedCommands, \* the API commands that can be run: [kind, slug, build]
    OfferedRosters,  \* the <<declared, home>> an operator can commit
    MaxJobs,         \* bound: dispatches sent other than by a publisher
    MaxCommands,     \* bound: API commands begun
    MaxEdits,        \* bound: roster edits
    MaxFaults        \* bound: lost and timed out pushes, dead runs and commands

\* Mutant of SharedOnlyScope: a scope IntegrateProject does not know.
UnknownScope == "docs"

SharedOnlyScope == "shared-only"
SharedOnlyJob == [slug  |-> InitialTree.home, scope |-> SharedOnlyScope,
                  build |-> [pages |-> {}, posts |-> {}]]

NewCommand == [kind : CommandKinds, slug : Slugs, build : Build]

ASSUME ConfigAssumption ==
    /\ InitialTree \in Tree
    /\ AbsentManifestsAreEmpty(InitialTree)
    /\ VerifyAssembly(InitialTree)
    /\ Attempts \in Nat \ {0}
    /\ Serialized \in BOOLEAN
    /\ OfferedJobs \subseteq Job
    /\ OfferedCommands \subseteq NewCommand
    /\ \A edit \in OfferedRosters :
          edit.declared \subseteq Slugs /\ edit.home \in edit.declared
    /\ {MaxJobs, MaxCommands, MaxEdits, MaxFaults} \subseteq Nat

VARIABLES
    tree,    \* the tree at the branch head
    head,    \* how many commits the branch has taken
    queue,   \* dispatches waiting for a run, oldest first
    run,     \* [Runners -> what each run is doing]
    cmd,     \* [Publishers -> what each publisher is doing]
    live,    \* the deployed site: its tree and the commit it came from
    budget   \* what the bounds leave: jobs, commands, edits, faults

vars == <<tree, head, queue, run, cmd, live, budget>>

RunPhases == {"idle", "sync", "push", "deploy"}
CommandSteps == {"idle", "roster", "claims", "record", "list", "member", "head",
                 "ref", "dispatch"}

Run == [phase : RunPhases, job : Job, attempt : Nat, base : Nat, work : Tree]

Command == [step : CommandSteps, kind : CommandKinds, slug : Slugs, build : Build,
            home : BOOLEAN, roster : SUBSET Slugs, homeSlug : Slugs, record : Record,
            removed : SUBSET Path, files : SUBSET (Slugs \X Kinds),
            member : [Slugs -> Membership], base : Nat]

IdleRun == [phase |-> "idle", job |-> SharedOnlyJob, attempt |-> 0, base |-> 0,
            work |-> InitialTree]

IdleCommand ==
    [step |-> "idle", kind |-> "docs", slug |-> InitialTree.home,
     build |-> [pages |-> {}, posts |-> {}], home |-> FALSE, roster |-> {},
     homeSlug |-> InitialTree.home, record |-> NoClaims, removed |-> {}, files |-> {},
     member |-> [s \in Slugs |-> "absent"], base |-> 0]

Init ==
    /\ tree = InitialTree
    /\ head = 0
    /\ queue = <<>>
    /\ run = [r \in Runners |-> IdleRun]
    /\ cmd = [p \in Publishers |-> IdleCommand]
    /\ live = [tree |-> InitialTree, commit |-> 0]
    /\ budget = [jobs |-> MaxJobs, commands |-> MaxCommands, edits |-> MaxEdits,
                 faults |-> MaxFaults]

Spend(what) == /\ budget[what] > 0
               /\ budget' = [budget EXCEPT ![what] = @ - 1]

-----------------------------------------------------------------------------
(* Dispatches and workflow runs.                                           *)

\* A release workflow, or someone at a terminal, dispatches a job.
Dispatch(job) ==
    /\ Spend("jobs")
    /\ queue' = Append(queue, job)
    /\ UNCHANGED <<tree, head, run, cmd, live>>

\* Mutant of StartRun: the concurrency group is ignored.
RunsOverlap(r) ==
    /\ run[r].phase = "idle"
    /\ queue # <<>>
    /\ run' = [run EXCEPT ![r] = [IdleRun EXCEPT !.phase = "sync", !.job = Head(queue),
                                                 !.attempt = 1]]
    /\ queue' = Tail(queue)
    /\ UNCHANGED <<tree, head, cmd, live, budget>>

\* A run takes the oldest dispatch; the group lets one run proceed at a time.
StartRun(r) ==
    /\ run[r].phase = "idle"
    /\ queue # <<>>
    /\ Serialized => \A q \in Runners : run[q].phase = "idle"
    /\ run' = [run EXCEPT ![r] = [IdleRun EXCEPT !.phase = "sync", !.job = Head(queue),
                                                 !.attempt = 1]]
    /\ queue' = Tail(queue)
    /\ UNCHANGED <<tree, head, cmd, live, budget>>

\* Mutant of Sync: a retry rebases what the first attempt built.
BuildsOnce(r) ==
    /\ run[r].phase = "sync"
    /\ run' = IF Accepts(tree, run[r].job)
                THEN [run EXCEPT ![r].phase = "push", ![r].base = head,
                                 ![r].work = IF run[r].attempt > 1 THEN @
                                             ELSE Integrated(tree, run[r].job)]
                ELSE [run EXCEPT ![r] = IdleRun]
    /\ UNCHANGED <<tree, head, queue, cmd, live, budget>>

\* Fetch and reset to the branch head, then do all the work and commit it in
\* the checkout, or refuse and fail the run before anything is committed.
Sync(r) ==
    /\ run[r].phase = "sync"
    /\ run' = IF Accepts(tree, run[r].job)
                THEN [run EXCEPT ![r].phase = "push", ![r].base = head,
                                 ![r].work = Integrated(tree, run[r].job)]
                ELSE [run EXCEPT ![r] = IdleRun]
    /\ UNCHANGED <<tree, head, queue, cmd, live, budget>>

\* Mutant of PushAccepted: the push is forced.
ForcePush(r) ==
    /\ run[r].phase = "push"
    /\ tree' = run[r].work
    /\ head' = head + 1
    /\ run' = [run EXCEPT ![r].phase = "deploy", ![r].base = head']
    /\ UNCHANGED <<queue, cmd, live, budget>>

\* The push moves the branch.  A commit that changed nothing was not made, and
\* the push then has nothing to move; page bytes are abstracted, so an equal
\* tree may have been committed all the same.
PushAccepted(r) ==
    /\ run[r].phase = "push"
    /\ run[r].base = head
    /\ tree' = run[r].work
    /\ \/ head' = head + 1
       \/ head' = head /\ run[r].work = tree
    /\ run' = [run EXCEPT ![r].phase = "deploy", ![r].base = head']
    /\ UNCHANGED <<queue, cmd, live, budget>>

\* Mutant of Retry: one attempt too few.
GivesUpEarly(r) ==
    run' = IF run[r].attempt + 1 < Attempts
             THEN [run EXCEPT ![r].phase = "sync", ![r].attempt = @ + 1]
             ELSE [run EXCEPT ![r] = IdleRun]

\* Try again from a fresh sync, or fail when no attempt is left.
Retry(r) ==
    run' = IF run[r].attempt < Attempts
             THEN [run EXCEPT ![r].phase = "sync", ![r].attempt = @ + 1]
             ELSE [run EXCEPT ![r] = IdleRun]

\* The branch moved since the sync, so it is not a fast-forward.
PushRejected(r) ==
    /\ run[r].phase = "push"
    /\ run[r].base # head
    /\ Retry(r)
    /\ UNCHANGED <<tree, head, queue, cmd, live, budget>>

\* The push exits nonzero for a reason of its own: it never reached the
\* remote, or the connection broke after the branch moved.
PushLost(r) ==
    /\ run[r].phase = "push"
    /\ Spend("faults")
    /\ \/ UNCHANGED <<tree, head>>
       \/ run[r].base = head /\ tree' = run[r].work /\ head' = head + 1
    /\ Retry(r)
    /\ UNCHANGED <<queue, cmd, live>>

\* The push runs into its timeout after the branch moved: the run fails.
PushTimedOut(r) ==
    /\ run[r].phase = "push"
    /\ run[r].base = head
    /\ Spend("faults")
    /\ tree' = run[r].work
    /\ head' = head + 1
    /\ run' = [run EXCEPT ![r] = IdleRun]
    /\ UNCHANGED <<queue, cmd, live>>

\* The run ends where it is: it is cancelled or runs out of time, a command it
\* executes fails, the vocabularies disagree, the confidential screen or a check
\* of what the model leaves out refuses.
RunDies(r) ==
    /\ run[r].phase # "idle"
    /\ Spend("faults")
    /\ run' = [run EXCEPT ![r] = IdleRun]
    /\ UNCHANGED <<tree, head, queue, cmd, live>>

\* wrangler deploys site/ of the checkout the run pushed from.
Deploy(r) ==
    /\ run[r].phase = "deploy"
    /\ live' = [tree |-> run[r].work, commit |-> run[r].base]
    /\ run' = [run EXCEPT ![r] = IdleRun]
    /\ UNCHANGED <<tree, head, queue, cmd, budget>>

-----------------------------------------------------------------------------
(* The publishers.                                                         *)

\* A command begins; `docs publish' reads the roster once before it builds,
\* for whether the project is home.
Begin(p, c) ==
    /\ cmd[p].step = "idle"
    /\ Spend("commands")
    /\ c.kind = "posts" => c.build.posts # {}
    /\ cmd' = [cmd EXCEPT ![p] = [IdleCommand EXCEPT
                  !.step = "roster", !.kind = c.kind, !.slug = c.slug, !.build = c.build,
                  !.home = c.kind = "docs" /\ c.slug = tree.home]]
    /\ UNCHANGED <<tree, head, queue, run, live>>

\* The roster: docs and retire refuse a slug it does not declare, retire the
\* home project; a post publish only asks it who else there is.
ReadRoster(p) ==
    LET c == cmd[p]
        refused == \/ c.kind # "posts" /\ c.slug \notin tree.declared
                   \/ c.kind = "retire" /\ c.slug = tree.home
                   \/ c.kind = "docs" /\ HomeCollisions(c.build, c.home)
    IN  /\ c.step = "roster"
        /\ cmd' = IF refused THEN [cmd EXCEPT ![p] = IdleCommand]
                  ELSE [cmd EXCEPT ![p].step = IF c.kind = "retire" THEN "record" ELSE "claims",
                                   ![p].roster = tree.declared,
                                   ![p].homeSlug = tree.home]
        /\ UNCHANGED <<tree, head, queue, run, live, budget>>

\* The other declared projects' records: a post path one of them claims is
\* refused.
ReadClaims(p) ==
    LET c == cmd[p]
        stolen == CommandProduced(c) \cap ForeignPostClaims(tree, c.slug, c.roster)
    IN  /\ c.step = "claims"
        /\ cmd' = IF stolen # {} THEN [cmd EXCEPT ![p] = IdleCommand]
                  ELSE [cmd EXCEPT ![p].step = "record"]
        /\ UNCHANGED <<tree, head, queue, run, live, budget>>

\* The project's own record: a publish prunes its entry, a retirement reads
\* what it claims.
ReadRecord(p) ==
    LET c    == cmd[p]
        rec  == tree.record[c.slug]
        plan == PrunePlan(rec, CommandOwner(c), CommandProduced(c))
    IN  /\ c.step = "record"
        /\ cmd' = IF c.kind = "retire"
                    THEN [cmd EXCEPT ![p].step = "list", ![p].record = rec]
                    ELSE [cmd EXCEPT ![p].step = IF c.kind = "docs" THEN "member" ELSE "head",
                                     ![p].record = plan.updated,
                                     ![p].removed = plan.removed]
        /\ UNCHANGED <<tree, head, queue, run, live, budget>>

\* A retirement lists the repository and picks the paths that are the project's.
ListPaths(p) ==
    LET c == cmd[p]
    IN  /\ c.step = "list"
        /\ cmd' = [cmd EXCEPT ![p].step = "member",
                              ![p].removed = RetirePaths(tree, c.slug, Claimed(c.record)),
                              ![p].files = RetireManifests(tree, c.slug)]
        /\ UNCHANGED <<tree, head, queue, run, live, budget>>

\* projects.json, which docs and retire write back whole.
ReadMembership(p) ==
    /\ cmd[p].step = "member"
    /\ cmd' = [cmd EXCEPT ![p].step = "head", ![p].member = tree.member]
    /\ UNCHANGED <<tree, head, queue, run, live, budget>>

\* The branch head and its tree: when every blob is already there the push
\* has nothing to do and the command goes on to its dispatch.
ReadHead(p) ==
    /\ cmd[p].step = "head"
    /\ \/ cmd' = [cmd EXCEPT ![p].step = "ref", ![p].base = head]
       \/ /\ Pushed(tree, cmd[p]) = tree
          /\ cmd' = [cmd EXCEPT ![p].step = "dispatch"]
    /\ UNCHANGED <<tree, head, queue, run, live, budget>>

\* The ref update is not forced: it moves the branch only from the head the
\* commit was built on.  A refused update fails the command.
UpdateRef(p) ==
    /\ cmd[p].step = "ref"
    /\ IF cmd[p].base = head
         THEN /\ tree' = Pushed(tree, cmd[p])
              /\ head' = head + 1
              /\ cmd' = [cmd EXCEPT ![p].step = "dispatch"]
         ELSE /\ cmd' = [cmd EXCEPT ![p] = IdleCommand]
              /\ UNCHANGED <<tree, head>>
    /\ UNCHANGED <<queue, run, live, budget>>

\* Mutant of DispatchSharedRebuild: the publisher stops at its commit.
ForgetsTheRebuild(p) ==
    /\ cmd[p].step = "dispatch"
    /\ cmd' = [cmd EXCEPT ![p] = IdleCommand]
    /\ UNCHANGED <<tree, head, queue, run, live, budget>>

\* The shared-only rebuild every publisher asks for after its commit.
DispatchSharedRebuild(p) ==
    /\ cmd[p].step = "dispatch"
    /\ queue' = Append(queue, SharedOnlyJob)
    /\ cmd' = [cmd EXCEPT ![p] = IdleCommand]
    /\ UNCHANGED <<tree, head, run, live, budget>>

\* The command ends where it is: an API call is refused or fails, it is
\* interrupted, or a check of what the model leaves out refuses.
CommandDies(p) ==
    /\ cmd[p].step # "idle"
    /\ Spend("faults")
    /\ cmd' = [cmd EXCEPT ![p] = IdleCommand]
    /\ UNCHANGED <<tree, head, queue, run, live>>

-----------------------------------------------------------------------------
(* The operator commits another roster.                                    *)

EditRoster(edit) ==
    /\ Spend("edits")
    /\ tree' = [tree EXCEPT !.declared = edit.declared, !.home = edit.home]
    /\ tree' # tree
    /\ head' = head + 1
    /\ UNCHANGED <<queue, run, cmd, live>>

-----------------------------------------------------------------------------

RunStep(r) ==
    \/ StartRun(r)
    \/ Sync(r)
    \/ PushAccepted(r)
    \/ PushRejected(r)
    \/ Deploy(r)

RunFault(r) == PushLost(r) \/ PushTimedOut(r) \/ RunDies(r)

PublisherStep(p) ==
    \/ ReadRoster(p)
    \/ ReadClaims(p)
    \/ ReadRecord(p)
    \/ ListPaths(p)
    \/ ReadMembership(p)
    \/ ReadHead(p)
    \/ UpdateRef(p)
    \/ DispatchSharedRebuild(p)

Next ==
    \/ \E job \in OfferedJobs : Dispatch(job)
    \/ \E r \in Runners : RunStep(r) \/ RunFault(r)
    \/ \E p \in Publishers, c \in OfferedCommands : Begin(p, c)
    \/ \E p \in Publishers : PublisherStep(p) \/ CommandDies(p)
    \/ \E edit \in OfferedRosters : EditRoster(edit)

Spec == Init /\ [][Next]_vars

\* When a run, or a publisher, can take its next step.
RunReady(r) ==
    \/ run[r].phase # "idle"
    \/ queue # <<>> /\ (Serialized => \A q \in Runners : run[q].phase = "idle")
PublisherReady(p) == cmd[p].step # "idle"

\* GitHub keeps executing a run it queued, and a publisher's process runs on;
\* nobody is obliged to dispatch, publish or edit anything.  This is weak
\* fairness of RunStep(r) and PublisherStep(p), with ENABLED written out: TLC
\* is slow at ENABLED of actions that compute whole trees.
Fairness ==
    /\ \A r \in Runners : <>[]RunReady(r) => []<><<RunStep(r)>>_vars
    /\ \A p \in Publishers : <>[]PublisherReady(p) => []<><<PublisherStep(p)>>_vars

FairSpec == Spec /\ Fairness

-----------------------------------------------------------------------------
(* What is claimed of it.                                                  *)

\* Every variable holds a value of its type (the records' fields are those of
\* the JSON and TOML documents the code writes).
TypeOK ==
    /\ tree \in Tree
    /\ head \in Nat
    /\ queue \in Seq(Job)
    /\ run \in [Runners -> Run]
    /\ cmd \in [Publishers -> Command]
    /\ live \in [tree : Tree, commit : Nat]
    /\ budget \in [jobs : Nat, commands : Nat, edits : Nat, faults : Nat]

Jobs == OfferedJobs \cup {SharedOnlyJob}

Staged == {run[r].work : r \in {x \in Runners : run[x].phase = "deploy"}}

\* A commit from t to u on behalf of project s writes only s's bytes, leaves
\* every record and manifest alone but those named after s, and never touches
\* the generated files.
OnlyOf(s, t, u) ==
    /\ \A path \in Path : u.site[path] \in {t.site[path], s, None}
    /\ \A x \in Slugs : ~ManifestFileOf(x, s) =>
          /\ u.kinds[x] = t.kinds[x]
          /\ u.record[x] = t.record[x]
          /\ u.pages[x] = t.pages[x]
          /\ u.posts[x] = t.posts[x]
          /\ u.overlay[x] = t.overlay[x]
    /\ u.listed = t.listed

Atomic == INSTANCE AtomicAssembly WITH
              Start <- InitialTree, Rosters <- OfferedRosters, Projects <- Slugs,
              tree <- tree, staged <- Staged, live <- live.tree

\* The retry loop of IntegrateProject makes an integrate atomic: whatever other
\* runs, publishers and operators commit meanwhile, the commit that lands is
\* the integration of the tree it lands on, and only such trees are deployed.
IntegratesAreAtomic == Atomic!Spec

\* Why an integrate is atomic, as an inductive invariant: a run that is about
\* to push holds what its job makes of the branch as it was at its sync, so of
\* the branch as it is if the branch has not moved; nothing it holds escaped
\* the verification; and a retirement lists only manifests that go by its name.
WorkIsCurrent ==
    /\ queue \in Seq(Jobs)
    /\ \A r \in Runners :
          /\ run[r].job \in Jobs
          /\ run[r].phase \in {"push", "deploy"} => VerifyAssembly(run[r].work)
          /\ run[r].phase = "push" =>
                /\ run[r].base <= head
                /\ run[r].base = head => /\ Accepts(tree, run[r].job)
                                         /\ run[r].work = Integrated(tree, run[r].job)
    /\ \A p \in Publishers : \A file \in cmd[p].files : ManifestFileOf(file[1], cmd[p].slug)
    /\ AbsentManifestsAreEmpty(tree)

-----------------------------------------------------------------------------
(* Deploys.                                                                *)

\* The live site always passes the assembly's verification, although the
\* publishers push unverified trees: VerifyBeforeDeploy runs on the very tree
\* the workflow deploys.
LiveIsVerified == VerifyAssembly(live.tree)

\* With the workflow's concurrency group, a deploy never replaces a newer
\* commit's site with an older one's.
LiveNeverGoesBack == [][live'.commit >= live.commit]_vars

\* Integrating a second time on top of the commit one just made is accepted and
\* changes nothing, so a push whose success went unreported can be retried.
RetryIsIdempotent ==
    \A r \in Runners : run[r].phase = "push" =>
        /\ Accepts(run[r].work, run[r].job)
        /\ Integrated(run[r].work, run[r].job) = run[r].work

\* When everyone is done the live site is the head of the branch: no dispatch,
\* rejected push or publisher's commit leaves the site behind for good.
LiveCatchesUp == <>[](live.tree.site = tree.site /\ live.tree.listed = tree.listed)

\* A rejected push always leaves an attempt, as long as fewer others commit
\* during a run than IntegrateOptions.Attempts allows.
RetriesSuffice ==
    [][\A r \in Runners :
          run[r].phase = "push" /\ run[r].base # head /\ run'[r] # run[r]
              => run'[r].phase = "sync"]_vars

\* A run comes to its end, and what was asked for comes with it.
RunsComeThrough == RetriesSuffice /\ LiveCatchesUp

-----------------------------------------------------------------------------
(* Whose files these are.                                                  *)

\* Post paths are claimed by one project at most: blog/<post-slug>/ has no
\* project segment.
PostClaimsDisjoint ==
    \A x, y \in Slugs : x # y =>
        \A path \in Claimed(tree.record[x]) \cap Claimed(tree.record[y]) : ~IsPost(path)

\* Run r's commit moves the branch.
Landed(r) == run[r].phase = "push" /\ run'[r] # run[r] /\ head' # head

\* An integrate never makes two projects claim one post path, whatever other
\* publishers did before it: ForeignPostClaims reads the tree it is grafted on.
IntegrateKeepsPostsDisjoint ==
    [][\A r \in Runners : Landed(r) /\ PostClaimsDisjoint => PostClaimsDisjoint']_vars

\* Every file on the site is claimed by the record of the project whose bytes
\* it holds, so that pruning, retirement and the overwrite refusal see it:
\* StagePublishedRecord and ApplyProjectFiles write the record with the files.
FilesAreClaimed ==
    \A path \in Path : tree.site[path] # None =>
        path \in Claimed(tree.record[tree.site[path]])

\* An integrate takes no other declared project's pages or posts off the site
\* and puts its own bytes over none of them; the home project's pages, which
\* have no directory of their own, included.  (Of a post that two projects
\* claim already, one can take it from the other.)
IntegrateSparesOthers ==
    [][\A r \in Runners : Landed(r) /\ PostClaimsDisjoint =>
          \A path \in Path :
             LET s == tree.site[path]
             IN  /\ s \in tree.declared \ {run[r].job.slug}
                 /\ path[1] \in {s, BlogDir} \/ s = tree.home
                 => tree'.site[path] = s]_vars

\* After an integrate, the site holds bytes of declared projects only: one that
\* left the roster leaves neither pages nor posts behind.
OnlyMembersRemain ==
    [][\A r \in Runners : Landed(r) =>
          \A path \in Path : tree'.site[path] \in tree'.declared \cup {None}]_vars

-----------------------------------------------------------------------------
(* Publishers.                                                             *)

\* Publisher p's commit moves the branch.
Commits(p, kind) == cmd[p].kind = kind /\ cmd[p].step = "ref" /\ cmd'[p].step = "dispatch"

\* The next shared-only rebuild accepts the tree, and finds nothing to reconcile.
Rebuildable(t) == Accepts(t, SharedOnlyJob) /\ ReconcileMembership(t) = t

\* What a project lists its record claims, and no other claims a post of it.
ListingsAreBacked(t) ==
    \A x \in Slugs :
        /\ \A p \in t.pages[x] : PageAddress(t, x, p) \in Claimed(t.record[x])
        /\ \A q \in ManifestPosts(t, x), y \in Slugs :
              <<BlogDir, q>> \in Claimed(t.record[y]) <=> x = y

\* A publish of a project other than the home, whose commit finds what the command
\* read, from the roster to projects.json.
ReadsStillHold(t, c) ==
    LET plan == PrunePlan(t.record[c.slug], CommandOwner(c), CommandProduced(c))
    IN  /\ c.slug \in t.declared \ {t.home} /\ ~c.home
        /\ CommandProduced(c) \cap ForeignPostClaims(t, c.slug, t.declared) = {}
        /\ c.record = plan.updated /\ c.removed = plan.removed
        /\ c.kind = "docs" => c.member = t.member

\* The project claims nothing outside its directory but posts, and by `post publish'
\* nothing else; and a docs publish claims no post of the overlay alone that it no
\* longer builds.
PrunesItsOwn(t, c) ==
    LET rec == t.record[c.slug]
    IN  /\ \A path \in Claimed(rec) : path[1] \in {c.slug, BlogDir}
        /\ \A path \in rec["posts"] : IsPost(path)
        /\ c.kind = "docs" =>
              \A q \in t.overlay[c.slug] \ c.build.posts :
                 <<BlogDir, q>> \in rec["release"] \cup rec["posts"]

\* The publishers push trees nobody verified, and every later deploy of every
\* project depends on them.  A publish with a front page that finds what it read, on
\* a tree whose rebuild is accepted, leaves one whose rebuild is: it takes down
\* nothing that anybody lists, and lists what it pushed.  (One that finds something
\* else need not, nor one that takes down what the overlay still lists.)
PublishesStayRebuildable ==
    [][\A p \in Publishers :
          /\ Commits(p, "posts") \/ (Commits(p, "docs") /\ Index \in cmd[p].build.pages)
          /\ Rebuildable(tree) /\ ListingsAreBacked(tree)
          /\ ReadsStillHold(tree, cmd[p]) /\ PrunesItsOwn(tree, cmd[p])
          => Rebuildable(tree')]_vars

\* A docs publish creates no membership: the slug it publishes into is declared.
DocsCannotCreateMembership ==
    [][\A p \in Publishers : Commits(p, "docs") => cmd[p].slug \in tree.declared]_vars
=============================================================================
