---------------------------- MODULE OutboundLinks ----------------------------
(***************************************************************************)
(* The outbound links of an assembled site.  outbound.toml declares the    *)
(* pages whose links into other sites are asked for, and for how many days *)
(* an answer is trusted; the answers are kept in outbound-cache.json, in   *)
(* the assembly's repository, which a deploy commits together with what it *)
(* deploys.  A deploy is one attempt here, from its reset to the branch to *)
(* its push; a run with more attempts is several of them.                  *)
(***************************************************************************)
EXTENDS Integers, Sequences, SequencesExt, FiniteSets

CONSTANTS
    OutPages,       \* pages that outbound.toml can name
    Urls,           \* addresses of other sites
    Declarations,   \* the contents of outbound.toml, NoFile where there is none
    NoFile,
    MaxDays,        \* the days the clock may reach
    MaxEvents       \* links that break or come back, pages and files that change

\* The fields of outbound.toml are parsed to their types, and no page is named
\* like an address of another site.
ASSUME DeclarationsAssumption ==
    Declarations \ {NoFile} \subseteq [days : Int, pages : Seq(OutPages)]
ASSUME AddressesAssumption == OutPages \cap Urls = {}

VARIABLES
    day,            \* the clock the deploys are given
    answers,        \* the addresses that answer
    branch,         \* [toml, links, cache]: outbound.toml, what each emitted page
                    \* links, and the answers kept
    moved,          \* whether somebody committed since the attempt's reset
    deploy,         \* the attempt under way
    told,           \* told[u]: the days on which u was asked and answered
    settled,        \* settled[u]: the day whose answer of u was last committed
    events

outVars == <<day, answers, branch, moved, deploy, told, settled, events>>

-----------------------------------------------------------------------------
(* The declaration and the store.                                          *)

\* Every defect of the declaration is an error.
ParseOutbound(toml) ==
    toml.days >= 1 /\ toml.pages # <<>> /\ IsInjective(toml.pages)

NoAnswer == [checked |-> 0, ok |-> FALSE]
Never == [u \in {} |-> NoAnswer]

OutEmitted(tree) == DOMAIN tree.links

\* Whether a kept answer is still trusted.  Mutant: the day it expires counts.
TrustedToTheEnd(cache, u, days, now) ==
    u \in DOMAIN cache /\ now - cache[u].checked =< days
Trusted(cache, u, days, now) ==
    u \in DOMAIN cache /\ now - cache[u].checked < days

\* The addresses on the declared pages, in no order that matters.
DeclaredLinks(tree) ==
    UNION { tree.links[page] : page \in ToSet(tree.toml.pages) \cap OutEmitted(tree) }

-----------------------------------------------------------------------------
(* An attempt to deploy.                                                   *)

NoDeploy == [pc |-> "none"]

\* git fetch and git reset --hard: the attempt works on the branch's head, and
\* fixes the clock.
Resync ==
    /\ deploy.pc \in {"none", "refused", "deployed"}
    /\ deploy' = [pc |-> "asking", now |-> day, tree |-> branch,
                  cache |-> branch.cache, asked |-> {}]
    /\ moved' = FALSE
    /\ UNCHANGED <<day, answers, branch, told, settled, events>>

Malformed == deploy.tree.toml # NoFile /\ ~ParseOutbound(deploy.tree.toml)
Configured == deploy.tree.toml # NoFile /\ ParseOutbound(deploy.tree.toml)

ToAsk ==
    IF Configured
    THEN { u \in DeclaredLinks(deploy.tree) :
             ~Trusted(deploy.cache, u, deploy.tree.toml.days, deploy.now) }
    ELSE {}

\* One link is fetched.  The world goes on between one fetch and the next.
Fetch(u) ==
    /\ deploy.pc = "asking" /\ u \in ToAsk \ deploy.asked
    /\ deploy' = [deploy EXCEPT !.cache = [v \in DOMAIN @ \cup {u} |->
                                             IF v = u THEN [checked |-> deploy.now,
                                                            ok |-> u \in answers]
                                                      ELSE @[v]],
                                !.asked = @ \cup {u}]
    /\ told' = [told EXCEPT ![u] = IF u \in answers THEN @ \cup {deploy.now} ELSE @]
    /\ UNCHANGED <<day, answers, branch, moved, settled, events>>

Failed(u) == ~deploy.cache[u].ok

OutboundFailures ==
    IF ~Configured THEN {}
    ELSE (ToSet(deploy.tree.toml.pages) \ OutEmitted(deploy.tree))
           \cup { u \in DeclaredLinks(deploy.tree) : Failed(u) }

StagedTree == [deploy.tree EXCEPT !.cache = deploy.cache]

\* An attempt whose verification fails ends the run: nothing is written.
Refuse ==
    /\ deploy.pc = "asking" /\ ToAsk \subseteq deploy.asked
    /\ Malformed \/ OutboundFailures # {}
    /\ deploy' = [deploy EXCEPT !.pc = "refused"]
    /\ UNCHANGED <<day, answers, branch, moved, told, settled, events>>

Verified ==
    /\ deploy.pc = "asking" /\ ToAsk \subseteq deploy.asked
    /\ ~Malformed /\ OutboundFailures = {}
    /\ deploy' = [deploy EXCEPT !.pc = "pushing"]
    /\ UNCHANGED <<day, answers, branch, moved, told, settled, events>>

\* The push moves the branch when nobody else did; otherwise the attempt's own
\* store goes with its commit, and the next attempt starts again.
PushStore ==
    /\ deploy.pc = "pushing" /\ ~moved
    /\ branch' = StagedTree
    /\ deploy' = [deploy EXCEPT !.pc = "deployed"]
    /\ settled' = [u \in DOMAIN settled \cup deploy.asked |->
                    IF u \in deploy.asked THEN deploy.now ELSE settled[u]]
    /\ UNCHANGED <<day, answers, moved, told, events>>

PushBehind ==
    /\ deploy.pc = "pushing" /\ moved
    /\ deploy' = NoDeploy
    /\ UNCHANGED <<day, answers, branch, moved, told, settled, events>>

-----------------------------------------------------------------------------
(* Everybody else.                                                         *)

Midnight ==
    /\ day < MaxDays /\ day' = day + 1
    /\ UNCHANGED <<answers, branch, moved, deploy, told, settled, events>>

Event == events < MaxEvents /\ events' = events + 1

BreakOrMend(u) ==
    /\ Event
    /\ answers' = IF u \in answers THEN answers \ {u} ELSE answers \cup {u}
    /\ UNCHANGED <<day, branch, moved, deploy, told, settled>>

\* A publisher's commit, or an operator's to outbound.toml.  Neither touches
\* the store.
PublishPage(page, urls) ==
    /\ Event /\ moved' = TRUE
    /\ branch' = [branch EXCEPT !.links = [p \in DOMAIN @ \cup {page} |->
                                             IF p = page THEN urls ELSE @[p]]]
    /\ UNCHANGED <<day, answers, deploy, told, settled>>

Declare(toml) ==
    /\ Event /\ toml # branch.toml /\ moved' = TRUE
    /\ branch' = [branch EXCEPT !.toml = toml]
    /\ UNCHANGED <<day, answers, deploy, told, settled>>

OutInit ==
    /\ day = 0 /\ answers \in SUBSET Urls /\ moved = FALSE
    /\ \E toml \in Declarations, page \in OutPages :
          branch = [toml |-> toml, links |-> [p \in {page} |-> Urls], cache |-> Never]
    /\ deploy = NoDeploy
    /\ told = [u \in Urls |-> {}] /\ settled = [u \in {} |-> 0]
    /\ events = 0

OutNext ==
    \/ Resync \/ Refuse \/ Verified \/ PushStore \/ PushBehind \/ Midnight
    \/ \E u \in Urls : Fetch(u) \/ BreakOrMend(u)
    \/ \E page \in OutPages, urls \in SUBSET Urls : PublishPage(page, urls)
    \/ \E toml \in Declarations : Declare(toml)

OutSpec == OutInit /\ [][OutNext]_outVars

-----------------------------------------------------------------------------
(* Properties.                                                             *)

\* What a deploy puts online links, on the declared pages, only to addresses
\* that answered when they were last asked, fewer than cache_days before the
\* deploy looked: whatever broke, was published or was redeclared since, and
\* whichever deploy did the asking.
DeployedLinksAnswered ==
    [][PushStore /\ Configured =>
         \A u \in DeclaredLinks(deploy.tree) :
             \E d \in told[u] : deploy.now - d < deploy.tree.toml.days]_outVars

\* A deploy is refused over an address only when it asked it itself: a link
\* that answers again is not held against the site because it once did not.
RefusalsAreFirstHand ==
    deploy.pc = "refused" /\ Configured =>
        OutboundFailures \cap Urls \subseteq deploy.asked

\* An address whose answer a deploy committed is not asked again while the
\* answer is trusted ("a deploy that changes nothing sends no requests"): pages
\* published, pushes lost and declarations withdrawn in between do not lose it.
SettledLinksAreNotAsked ==
    [][\A u \in DOMAIN settled :
          Fetch(u) => deploy.now - settled[u] >= deploy.tree.toml.days]_outVars

\* What the kept answers are trusted for: no more than their window when links
\* are deployed, nothing when a deploy is refused, and all of it before an
\* address is asked again (CheckOutboundLinks and the cache it hands on).
AnswersAreTrustedRightly ==
    DeployedLinksAnswered /\ SettledLinksAreNotAsked /\ []RefusalsAreFirstHand
=============================================================================
