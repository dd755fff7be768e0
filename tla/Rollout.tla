-------------------------------- MODULE Rollout --------------------------------
(* Moving a whole site to the manifest schema of a new selfdoc                 *)
(* (blog/assembly/republish.go): every project is published again from its     *)
(* checkout in one pass, while authors go on publishing with whatever selfdoc  *)
(* they have, the deploy workflow runs the one it pins, and any remote call    *)
(* may fail.  A reader reads manifests of its own schema only.                 *)
EXTENDS Naturals, Sequences, FiniteSets, SequencesExt, TLC

CONSTANTS
  Order,     \* the checkouts given, the home project's last
  Others,    \* further projects a roster may declare
  Posts,     \* posts
  Old, New,  \* the two schemas, 1 and 2; New is the running selfdoc's
  MaxMoves   \* bound on what everyone else does, and on failures

ASSUME SchemasGrow == Old \in Nat /\ New \in Nat /\ 0 < Old /\ Old < New
ASSUME OneIsGiven == Order \in Seq(Range(Order)) /\ Order # <<>>
ASSUME OneIsPosted == Posts # {}

Given == Range(Order)
Projects == Given \cup Others
Schemas == {Old, New}
Nothing == 0        \* the schema of a manifest that is not there; no pin
WordsOf == {"says nothing", "accepts", "rejects"}  \* what a vocabulary says of one word

VARIABLES
  repo,      \* the assembly repository exists
  roster,    \* the projects declared on it; empty while it declares no home
  pin,       \* the schema of the selfdoc its workflow pins
  released,  \* the schemas of the selfdocs the module proxy serves
  base,      \* [Projects -> [schema, word]]: the manifests on it
  tagged,    \* [Projects -> [schema, word]]: what projects.json has the tag of
  overlay,   \* [Projects -> [schema, posts]]: the post overlays on it
  work,      \* [Projects -> [schema, committed, word, posts]]: the checkouts
  requests,  \* deploy requests not yet served: "shared", or a project's tag
  served,    \* the manifests and overlays the last deploy published
  pass,      \* the republish: [pc, at, words, converted]
  disturbed, \* someone else has written since the republish began
  moves      \* how much of MaxMoves is spent

rolloutVars == <<repo, roster, pin, released, base, tagged, overlay, work, requests, served, pass, disturbed, moves>>
siteVars == <<base, overlay>>
registryVars == <<released, tagged>>  \* what only a release and a deploy change

IdlePass == [pc |-> "idle", at |-> 1, words |-> <<>>, converted |-> <<>>]
NoManifest == [schema |-> Nothing, word |-> "says nothing"]
NoOverlay == [schema |-> Nothing, posts |-> {}]

Spend == moves < MaxMoves /\ moves' = moves + 1
Disturb == disturbed' = (disturbed \/ pass.pc # "idle")

Conflict(a, b) == {a, b} = {"accepts", "rejects"}

(* Compat: every manifest and overlay there is, or the read is refused.        *)
ReadableBy(schema) ==
  \A p \in Projects : base[p].schema \in {Nothing, schema} /\ overlay[p].schema \in {Nothing, schema}

(* ParseRoster: a roster that does not parse, or names no home it declares,    *)
(* declares nobody.                                                            *)
Declared(p) == repo /\ p \in roster

Recorded(p) == [schema |-> work[p].schema, word |-> work[p].word]

-------------------------------------------------------------------------------
(* The pass, up to the first build: refuseUnpublishable, refuseRosterMismatch, *)
(* refuseOlderPin and the vocabulary conflicts; all of it is read here once.   *)
Publishable(p) == work[p].schema = New /\ work[p].committed \in {Nothing, New}
WordsGiven == [p \in Given |-> work[p].word]
AgreesWithPeers(p, words) == \A q \in Given \ {p} : ~Conflict(work[p].word, words[q])

RosterIsGiven == repo /\ roster = Given
PinIsNotOlder == pin >= New

ChecksPass ==
  /\ \A p \in Given : Publishable(p) /\ AgreesWithPeers(p, WordsGiven)
  /\ RosterIsGiven /\ PinIsNotOlder

Settled ==
  /\ served = siteVars /\ ReadableBy(New)
  /\ \A p \in Given : base[p].schema = New

(* Whoever runs the pass lets the deploys asked for end, and runs it until the *)
(* site is settled.                                                            *)
Check ==
  /\ pass.pc = "idle" /\ ChecksPass /\ requests = {} /\ ~Settled
  /\ pass' = [IdlePass EXCEPT !.pc = "build", !.words = WordsGiven]
  /\ disturbed' = FALSE
  /\ UNCHANGED <<registryVars, repo, roster, pin, base, overlay, work, requests, served, moves>>

(* convertedOverlay: the overlay of an older schema, in the current one.       *)
Converted(p) ==
  IF overlay[p].schema = Old THEN [schema |-> New, posts |-> overlay[p].posts] ELSE NoOverlay

Build ==
  /\ pass.pc = "build"
  /\ LET seen == Append(pass.converted, Converted(Order[pass.at]))
     IN pass' = IF pass.at = Len(Order) THEN [pass EXCEPT !.pc = "publish", !.at = 1, !.converted = seen]
                ELSE [pass EXCEPT !.at = @ + 1, !.converted = seen]
  /\ UNCHANGED <<registryVars, repo, roster, pin, base, overlay, work, requests, served, disturbed, moves>>

(* PublishProjectDocs: the roster is read again, and the checkout's manifest,  *)
(* which is held against the vocabularies the checks read; what goes up with it *)
(* is the overlay as it was converted.                                         *)
Publish ==
  LET p == Order[pass.at] carried == pass.converted[pass.at]
  IN /\ pass.pc = "publish"
     /\ Declared(p) /\ work[p].schema = New /\ AgreesWithPeers(p, pass.words)
     /\ base' = [base EXCEPT ![p] = Recorded(p)]
     /\ overlay' = IF carried = NoOverlay THEN overlay ELSE [overlay EXCEPT ![p] = carried]
     /\ pass' = IF pass.at = Len(Order) THEN [pass EXCEPT !.pc = "dispatch"] ELSE [pass EXCEPT !.at = @ + 1]
     /\ UNCHANGED <<registryVars, repo, roster, pin, work, requests, served, disturbed, moves>>

(* A publish refused over what has changed since the checks.                   *)
PublishRefused ==
  LET p == Order[pass.at]
  IN /\ pass.pc = "publish"
     /\ ~(Declared(p) /\ work[p].schema = New /\ AgreesWithPeers(p, pass.words))
     /\ pass' = IdlePass
     /\ UNCHANGED <<registryVars, repo, roster, pin, base, overlay, work, requests, served, disturbed, moves>>

EndsHere ==  \* mutant: nothing asks for a deploy of what the pass published
  /\ pass.pc = "dispatch" /\ pass' = [IdlePass EXCEPT !.pc = "done"]
  /\ UNCHANGED <<registryVars, repo, roster, pin, base, overlay, work, requests, served, disturbed, moves>>
Dispatch ==
  /\ pass.pc = "dispatch" /\ pass' = [IdlePass EXCEPT !.pc = "done"]
  /\ requests' = requests \cup {[kind |-> "shared"]}
  /\ UNCHANGED <<registryVars, repo, roster, pin, base, overlay, work, served, disturbed, moves>>
Return ==
  /\ pass.pc = "done" /\ pass' = IdlePass
  /\ UNCHANGED <<registryVars, repo, roster, pin, base, overlay, work, requests, served, disturbed, moves>>

(* A build, a scan or a remote call fails: what was published stays published. *)
PassStops ==
  /\ pass.pc \in {"build", "publish", "dispatch"} /\ Spend /\ pass' = IdlePass
  /\ UNCHANGED <<registryVars, repo, roster, pin, base, overlay, work, requests, served, disturbed>>

-------------------------------------------------------------------------------
(* ResolveToolchainPins: the selfdoc named, or the one that is running.  What   *)
(* it names has to be one the deploy can install (CheckPinsArePublished), and  *)
(* a checkout of selfdoc runs ahead of its release.                            *)
PinFor(named) == IF named = Nothing THEN New ELSE named
Installable(version) == version \in released

ReleaseSelfdoc ==
  /\ New \notin released /\ released' = released \cup {New}
  /\ UNCHANGED <<repo, roster, pin, base, tagged, overlay, work, requests, served, pass, disturbed, moves>>

(* assembly init: the repository is created, then files of it one by one: the  *)
(* workflow first, the empty roster last.  Stopped between them it cannot be   *)
(* run again, since the repository exists.                                     *)
InitAssembly(workflow) ==
  /\ ~repo /\ Installable(PinFor(Nothing))
  /\ repo' = TRUE /\ pin' = IF workflow THEN PinFor(Nothing) ELSE Nothing
  /\ UNCHANGED <<registryVars, roster, base, overlay, work, requests, served, pass, disturbed, moves>>

(* assembly sync-workflow, of a version named or not.                          *)
SyncWorkflow(named) ==
  /\ repo /\ Installable(PinFor(named)) /\ pin # PinFor(named) /\ pin' = PinFor(named)
  /\ UNCHANGED <<registryVars, repo, roster, base, overlay, work, requests, served, pass>> /\ Disturb

(* The roster is a file people edit.                                           *)
EditRoster(next) ==
  /\ repo /\ next # roster /\ roster' = next
  /\ UNCHANGED <<registryVars, repo, pin, base, overlay, work, requests, served, pass>> /\ Disturb

(* gen with either selfdoc, or layout migrate; a commit; a word is accepted or *)
(* rejected; a post is written.                                                *)
Gen(p, schema) ==
  /\ work[p].schema # schema \/ work[p].committed # schema
  /\ work' = [work EXCEPT ![p].schema = schema, ![p].committed = schema]
  /\ UNCHANGED <<registryVars, repo, roster, pin, base, overlay, requests, served, pass>> /\ Disturb
Say(p, word) ==
  /\ work[p].word # word /\ work' = [work EXCEPT ![p].word = word]
  /\ UNCHANGED <<registryVars, repo, roster, pin, base, overlay, requests, served, pass>> /\ Disturb
WritePost(p, post) ==
  /\ post \notin work[p].posts /\ work' = [work EXCEPT ![p].posts = @ \cup {post}]
  /\ UNCHANGED <<registryVars, repo, roster, pin, base, overlay, requests, served, pass, disturbed>>

(* post publish: the overlay is the author's own posts, whatever was there.    *)
PostPublish(p, schema) ==
  /\ Declared(p) /\ work[p].posts # {}
  /\ overlay' = [overlay EXCEPT ![p] = [schema |-> schema, posts |-> work[p].posts]]
  /\ requests' = requests \cup {[kind |-> "shared"]}
  /\ UNCHANGED <<registryVars, repo, roster, pin, base, work, served, pass>> /\ Disturb

(* docs publish of one project reads every manifest of the site first.         *)
DocsPublish(p, schema) ==
  /\ Declared(p) /\ work[p].schema = schema /\ ReadableBy(schema)
  /\ \A q \in Projects \ {p} : ~Conflict(work[p].word, base[q].word)
  /\ base' = [base EXCEPT ![p] = Recorded(p)]
  /\ requests' = requests \cup {[kind |-> "shared"]}
  /\ UNCHANGED <<registryVars, repo, roster, pin, overlay, work, served, pass>> /\ Disturb

(* assembly push: a request to build the project at a tag, as committed.       *)
Push(p) ==
  /\ repo /\ work[p].committed = work[p].schema /\ work[p].schema # Nothing
  /\ requests' = requests \cup {[kind |-> "project", project |-> p] @@ Recorded(p)}
  /\ UNCHANGED <<registryVars, repo, roster, pin, base, overlay, work, served, pass, disturbed>>

(* assembly rebuild: a request per member at the tag projects.json has of it,  *)
(* refused when it has none of one of them; a request that is not delivered is *)
(* warned about.                                                               *)
Members == {p \in Projects : base[p] # NoManifest}
AtTag(p) == [kind |-> "project", project |-> p] @@ tagged[p]
Rebuild(delivered) ==
  /\ repo /\ delivered \subseteq Members
  /\ \A p \in Members : tagged[p] # NoManifest
  /\ requests' = requests \cup {AtTag(p) : p \in delivered}
  /\ UNCHANGED <<registryVars, repo, roster, pin, base, overlay, work, served, pass, disturbed>>

-------------------------------------------------------------------------------
(* A run of the workflow, with the pinned selfdoc, which refuses any manifest  *)
(* of another schema and any disagreement of the arriving project.             *)
Arrived(manifests, request) ==
  IF request.kind = "shared" THEN manifests
  ELSE [manifests EXCEPT ![request.project] = [schema |-> request.schema, word |-> request.word]]
DeployAccepts(request) ==
  /\ pin # Nothing /\ roster # {} /\ ReadableBy(pin)
  /\ request.kind = "project" =>
       /\ request.project \in roster /\ request.schema = pin
       /\ \A q \in Projects \ {request.project} : ~Conflict(request.word, base[q].word)

Deploy(request) ==
  /\ request \in requests /\ requests' = requests \ {request}
  /\ IF DeployAccepts(request)
     THEN base' = Arrived(base, request) /\ tagged' = Arrived(tagged, request)
          /\ served' = <<base', overlay>>
          /\ disturbed' = (disturbed \/ (pass.pc # "idle" /\ request.kind # "shared"))
     ELSE UNCHANGED <<base, tagged, served, disturbed>>
  /\ UNCHANGED <<repo, roster, pin, released, overlay, work, pass, moves>>

RolloutInit ==
  /\ repo \in BOOLEAN /\ roster \in IF repo THEN {Given} ELSE {{}}
  /\ pin = IF repo THEN Old ELSE Nothing
  /\ released = {Old}
  /\ base = [p \in Projects |-> IF repo /\ p \in Given THEN [NoManifest EXCEPT !.schema = Old] ELSE NoManifest]
  /\ tagged = base
  /\ overlay \in IF repo THEN [Projects -> {NoOverlay, [schema |-> Old, posts |-> {CHOOSE post \in Posts : TRUE}]}]
                 ELSE {[p \in Projects |-> NoOverlay]}
  /\ \A p \in Others : overlay[p] = NoOverlay
  /\ work = [p \in Projects |-> [schema |-> Old, committed |-> Old, word |-> "says nothing", posts |-> overlay[p].posts]]
  /\ requests = {} /\ served = <<base, overlay>> /\ pass = IdlePass
  /\ disturbed = FALSE /\ moves = 0

(* What the operator of the move does: the remedies the refusals name.         *)
Operator ==
  \/ ReleaseSelfdoc \/ \E workflow \in BOOLEAN : InitAssembly(workflow)
  \/ SyncWorkflow(Nothing) /\ UNCHANGED moves
  \/ EditRoster(Given) /\ UNCHANGED moves
  \/ \E p \in Given : Gen(p, New) /\ UNCHANGED moves
  \/ \E p \in Given : ~AgreesWithPeers(p, WordsGiven) /\ Say(p, "says nothing") /\ UNCHANGED moves
Everyone ==
  /\ Spend
  /\ \/ SyncWorkflow(Old)
     \/ \E q \in Others : EditRoster(Given \cup {q})
     \/ \E delivered \in SUBSET Members \ {{}} : Rebuild(delivered)
     \/ \E p \in Given :
          \/ Gen(p, Old) \/ Push(p)
          \/ \E word \in WordsOf : Say(p, word)
          \/ \E post \in Posts : WritePost(p, post)
          \/ \E schema \in Schemas : PostPublish(p, schema) \/ DocsPublish(p, schema)

PassGoesOn == Check \/ Build \/ Publish \/ PublishRefused \/ Dispatch \/ Return
RolloutNext ==
  \/ PassGoesOn \/ PassStops \/ Operator \/ Everyone
  \/ \E request \in requests : Deploy(request)

RolloutSpec == RolloutInit /\ [][RolloutNext]_rolloutVars

RolloutFair ==
  /\ WF_rolloutVars(PassGoesOn) /\ WF_rolloutVars(Operator)
  /\ WF_rolloutVars(\E request \in requests : Deploy(request))

-------------------------------------------------------------------------------
(* A pass nobody disturbed leaves every project and its posts on the running    *)
(* selfdoc's schema, without a disagreement, for a deploy that reads them.      *)
PassMakesTheSiteNew ==
  pass.pc = "done" /\ ~disturbed =>
    /\ \A p \in Given : base[p].schema = New /\ overlay[p].schema \in {Nothing, New}
    /\ \A p, q \in Given : ~Conflict(base[p].word, base[q].word)
    /\ pin = New

(* Once people leave the site alone, passes that fail or are refused are        *)
(* followed by one that ends, and the site serves what it recorded.            *)
RolloutEnds == <>[](Settled /\ requests = {})
===============================================================================
