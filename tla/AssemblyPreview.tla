--------------------------- MODULE AssemblyPreview ---------------------------
(***************************************************************************)
(* `selfdoc assembly preview': the checkouts named on the command line,    *)
(* assembled into a directory of the author's with the operations of a     *)
(* deploy.  The directory outlives the command: the next preview starts    *)
(* from whatever the last one, finished or not, left in it, with other     *)
(* checkouts, other builds or another home project.                        *)
(*                                                                         *)
(* A command writes one file at a time, so a kill may come between any two *)
(* files.  The roster is one of them, and so is every manifest and record; *)
(* no overlay of posts is ever written, since every scope is "full".       *)
(***************************************************************************)
EXTENDS AssemblyCommits, Naturals, SequencesExt

CONSTANTS
    PreviewBuilds,  \* PreviewBuilds[s]: what a checkout of s can be built into
    OfferedLines,   \* command lines: the home checkout, and a list of others
    MaxPreviews,    \* commands
    MaxSourceEdits, \* changes of a checkout
    MaxKills        \* commands killed

VARIABLES
    folder,           \* the directory
    checkout,       \* checkout[s]: what its build makes
    command,        \* [pc, home, order, left, steps, copied, built]
    strays,            \* what killed grafts copied and no member's record claims
    previews, sourceEdits, kills

previewVars == <<folder, checkout, command, strays, previews, sourceEdits, kills>>

Vacant ==
    [declared |-> {}, home |-> CHOOSE s \in Slugs : TRUE,
     site     |-> [path \in Path |-> None],
     kinds    |-> [s \in Slugs |-> {}],
     record   |-> [s \in Slugs |-> NoClaims],
     pages    |-> [s \in Slugs |-> {}],
     posts    |-> [s \in Slugs |-> {}],
     overlay  |-> [s \in Slugs |-> {}],
     member   |-> [s \in Slugs |-> "absent"],
     listed   |-> {}]

\* Every other project in the order given, then the home project, whose front
\* page renders the others' manifests.  Mutant: in the order given.
HomeFirst(home, others) == <<home>> \o others
ResolveCheckouts(home, others) == Append(others, home)

\* The roster declares exactly the checkouts; what it does not declare leaves.
Started(t, home, slugs) ==
    ReconcileMembership([t EXCEPT !.declared = slugs, !.home = home])

\* A checkout grafted and recorded without an interruption.
PreviewJob(s, build) == [slug |-> s, scope |-> "full", build |-> build]
Assembled(t, s, build) == RecordMembership(ApplyProjectFiles(t, PreviewJob(s, build)), s)

\* The same command in a directory that is not there yet.
Fresh ==
    LET order == command.order
        step(t, s) == Assembled(t, s, command.built[s])
    IN  GenerateSharedFiles(
            FoldLeft(step, Started(Vacant, command.home, ToSet(order)), order))

\* Every list of further checkouts; two of one slug are refused.
Others(home) == UNION {SetToSeqs(S) : S \in SUBSET (Slugs \ {home})}

ASSUME LinesAssumption ==
    \A line \in OfferedLines : line[1] \in Slugs /\ line[2] \in Others(line[1])

-----------------------------------------------------------------------------
(* The writes of a command.  It knows the next ones as a sequence of sets: *)
(* those of a set come in the order of their names, here in any order.     *)

Deletes(paths) == {[do |-> "remove", path |-> path] : path \in paths}
Copies(s, paths) == {[do |-> "copy", slug |-> s, path |-> path] : path \in paths}
Unlinks(files) == {[do |-> "unlink", slug |-> f[1], kind |-> f[2]] : f \in files}

Written(t, w) ==
    CASE w.do = "remove"   -> [t EXCEPT !.site[w.path] = None]
      [] w.do = "copy"     -> [t EXCEPT !.site[w.path] = w.slug]
      [] w.do = "unlink"   -> KeepManifests(t, [t.kinds EXCEPT ![w.slug] = @ \ {w.kind}])
      [] w.do = "leave"    -> [t EXCEPT !.member = [x \in Slugs |->
                                 IF x \in t.declared THEN @[x] ELSE "absent"]]
      [] w.do = "record"   -> [t EXCEPT !.record[w.slug] = w.record,
                                        !.kinds[w.slug] = @ \cup {"files"}]
      [] w.do = "manifest" -> [t EXCEPT !.pages[w.slug] = w.build.pages,
                                        !.posts[w.slug] = w.build.posts,
                                        !.kinds[w.slug] = @ \cup {"base"}]
      [] w.do = "listing"  -> [t EXCEPT !.kinds[w.slug] = @ \cup {"listing"}]
      [] w.do = "join"     -> RecordMembership(t, w.slug)

Pending(steps) == SelectSeq(steps, LAMBDA S : S # {})

\* What leaves, in name order: none after one whose name it begins.
Longer(dir) == IF dir \in Slugs THEN Extends[dir] ELSE {}
RetireOrders(dirs) ==
    {q \in SetToSeqs(dirs) : \A i, j \in DOMAIN q : i < j => q[i] \notin Longer(q[j])}

\* Of each that leaves the subtree, then what its record claims outside it,
\* then its manifests; then the manifests nobody declared owns, and last the
\* membership file.
RetireSteps(t, order) ==
    LET Earlier(i) == {order[j] : j \in 1..(i - 1)}
        Files(dirs) == {f \in Slugs \X Kinds :
            f[2] \in t.kinds[f[1]] /\ \E d \in dirs : f[1] \in {d} \cup Longer(d)}
        Of(i) ==
            LET d == order[i]
                claims == IF d \in Slugs /\ \A e \in Earlier(i) : d \notin Longer(e)
                          THEN Claimed(t.record[d]) ELSE {}
            IN  <<Deletes({path \in Emitted(t) : path[1] = d}),
                  Deletes({path \in Emitted(t) \cap claims : path[1] # d}),
                  Unlinks(Files({d}) \ Files(Earlier(i)))>>
        stale == {f \in Slugs \X Kinds : /\ f[2] \in t.kinds[f[1]]
                                         /\ ~ManifestOwned(t.declared, f[1], f[2])}
    IN  FlattenSeq([i \in DOMAIN order |-> Of(i)])
            \o <<Unlinks(stale \ Files(ToSet(order))),
                 IF \E s \in Slugs \ t.declared : t.member[s] # "absent"
                 THEN {[do |-> "leave"]} ELSE {}>>

\* The build's files are copied and the dropped ones removed, then the record
\* that claims them is written, the manifest, the listing and the membership.
GraftSteps(t, s, build) ==
    LET produced == Produced(t, PreviewJob(s, build))
        plan     == PrunePlan(t.record[s], "release", produced)
    IN  <<Copies(s, produced), Deletes(plan.removed),
          {[do |-> "record", slug |-> s, record |-> plan.updated]},
          {[do |-> "manifest", slug |-> s, build |-> build]},
          IF s = t.home THEN {[do |-> "listing", slug |-> s]} ELSE {},
          {[do |-> "join", slug |-> s]}>>

\* The paths that no record of a member claims.
Unclaimed(t, paths) ==
    {path \in paths : \A s \in Slugs : t.member[s] # "absent" => path \notin Claimed(t.record[s])}

-----------------------------------------------------------------------------
Idle == [pc |-> "idle"]

PreviewCommand(home, others) ==
    /\ command.pc # "assembling" /\ previews < MaxPreviews
    /\ LET order == ResolveCheckouts(home, others)
           rostered == [folder EXCEPT !.declared = ToSet(order), !.home = home]
       IN  /\ folder' = rostered
           /\ \E leavers \in RetireOrders(Retired(rostered)) :
                 command' = [pc |-> "assembling", home |-> home, order |-> order,
                             left |-> order, copied |-> {}, built |-> [s \in {} |-> 0],
                             steps |-> Pending(RetireSteps(rostered, leavers))]
    /\ previews' = previews + 1
    /\ UNCHANGED <<checkout, strays, sourceEdits, kills>>

Write ==
    /\ command.pc = "assembling" /\ command.steps # <<>>
    /\ \E w \in Head(command.steps) :
          /\ folder' = Written(folder, w)
          /\ command' = [command EXCEPT
                            !.steps = Pending(<<Head(@) \ {w}>> \o Tail(@)),
                            !.copied = IF w.do = "copy" THEN @ \cup {w.path} ELSE @]
    /\ strays' = Unclaimed(folder', strays)
    /\ UNCHANGED <<checkout, previews, sourceEdits, kills>>

Ready == command.pc = "assembling" /\ command.steps = <<>>
Current == Head(command.left)
Allowed == GraftAllowed(folder, PreviewJob(Current, checkout[Current]))

\* A checkout is built, and its graft planned from the record.
TakeCheckout ==
    /\ Ready /\ command.left # <<>> /\ Allowed
    /\ command' = [command EXCEPT
                      !.left = Tail(@),
                      !.steps = Pending(GraftSteps(folder, Current, checkout[Current])),
                      !.copied = {},
                      !.built = [s \in DOMAIN @ \cup {Current} |->
                                    IF s = Current THEN checkout[s] ELSE @[s]]]
    /\ UNCHANGED <<folder, checkout, strays, previews, sourceEdits, kills>>

\* The shared files, the search index and the report end it.  What
\* verification finds is reported and nothing else.
Finish ==
    /\ Ready /\ command.left = <<>> /\ SharedFilesAllowed(folder)
    /\ folder' = GenerateSharedFiles(folder)
    /\ command' = [command EXCEPT !.pc = "served"]
    /\ UNCHANGED <<checkout, strays, previews, sourceEdits, kills>>

PreviewFails ==
    /\ Ready
    /\ IF command.left = <<>> THEN ~SharedFilesAllowed(folder) ELSE ~Allowed
    /\ command' = Idle
    /\ UNCHANGED <<folder, checkout, strays, previews, sourceEdits, kills>>

\* The command is interrupted between two writes, or the build of a checkout
\* fails.
PreviewKilled ==
    /\ command.pc = "assembling" /\ kills < MaxKills
    /\ command' = Idle /\ kills' = kills + 1
    /\ strays' = Unclaimed(folder, strays \cup command.copied)
    /\ UNCHANGED <<folder, checkout, previews, sourceEdits>>

EditCheckout(s, build) ==
    /\ sourceEdits < MaxSourceEdits /\ build # checkout[s]
    /\ checkout' = [checkout EXCEPT ![s] = build]
    /\ sourceEdits' = sourceEdits + 1
    /\ UNCHANGED <<folder, command, strays, previews, kills>>

PreviewInit ==
    /\ folder = Vacant /\ command = Idle /\ strays = {} /\ previews = 0 /\ sourceEdits = 0 /\ kills = 0
    /\ checkout \in {c \in [Slugs -> UNION {PreviewBuilds[s] : s \in Slugs}] :
                        \A s \in Slugs : c[s] \in PreviewBuilds[s]}

PreviewNext ==
    \/ \E line \in OfferedLines : PreviewCommand(line[1], line[2])
    \/ Write \/ TakeCheckout \/ Finish \/ PreviewFails \/ PreviewKilled
    \/ \E s \in Slugs : \E build \in PreviewBuilds[s] : EditCheckout(s, build)

-----------------------------------------------------------------------------
\* What a preview serves is what the same checkouts would make in an empty
\* directory, whatever earlier previews left in it: of a project no longer named,
\* a page no longer built, a project that was at the root before and is under its
\* slug now, a retirement or a graft that was killed between two files.  One thing
\* may be left over: a file that a graft had copied when it was killed before its
\* project was a member that claims it.  Nobody claims such a file afterwards, the
\* checkouts do not make it, and nothing served links it.
RerunIsFresh ==
    command.pc = "served" =>
        /\ folder.listed = Fresh.listed
        /\ \A path \in Path : folder.site[path] # Fresh.site[path] =>
              /\ path \in strays
              /\ Fresh.site[path] = None /\ path \notin Fresh.listed
              /\ \A s \in Slugs : path \notin Claimed(folder.record[s])
=============================================================================
