---------------------------- MODULE EditorServer ----------------------------
(* The editor's server process (blog/editor/server.go, state.go, links.go,   *)
(* publish.go): the event streams it holds, the link targets it caches, the  *)
(* publishes it runs one at a time, and its stop.  Every request has its own *)
(* goroutine; manifests are rewritten by builds the server knows nothing of. *)
EXTENDS Naturals, Sequences, FiniteSets

CONSTANTS
  Repos,       \* the registry's local entries, in the order it lists them
  Shells,      \* browser tabs
  Requests,    \* requests in flight at once
  Capacity,    \* frames a stream's socket holds that its shell has not read
  MaxWrites,   \* bound on what builds do to manifests
  MaxRequests, \* bound on requests
  Nobody, Nothing

ASSUME NothingAssumption ==
  /\ Nothing \notin Nat /\ "heartbeat" \notin Requests /\ Nobody \notin Requests \cup {"heartbeat"}

ASSUME ReposAssumption == Len(Repos) \in Nat

VARIABLES
  manifests,  \* [Repos -> a revision, or Nothing]; a revision has its own stamp
  written,    \* how many revisions there have been
  cache,      \* [Repos -> [stamp, targets], or Nothing]: TargetIndex.cache
  clients,    \* SSEChannel.clients
  stream,     \* [Shells -> what its connection holds]
  request,    \* [Requests -> what its goroutine is at]
  publishing, \* who holds publishLock
  stop,       \* "serving", "stopping", "closed" to requests, "stopped"
  asked       \* how many requests there have been

serverVars == <<manifests, written, cache, clients, stream, request, publishing, stop, asked>>

\* handler: the goroutine that holds the connection; writer: who holds the
\* client's mutex; sent: the frames not read; gone: the shell is not there.
NoStream == [handler |-> "none", writer |-> Nobody, sent |-> 0, dead |-> FALSE, gone |-> TRUE]
FreeRequest == [kind |-> "none", pc |-> "free"]

Busy == {r \in Requests : request[r].pc # "free"}
Held == {s \in Shells : stream[s].handler # "none"}

ServerInit ==
  /\ manifests = [i \in 1..Len(Repos) |-> i] /\ written = Len(Repos)
  /\ cache = [i \in 1..Len(Repos) |-> Nothing]
  /\ clients = {} /\ stream = [s \in Shells |-> NoStream]
  /\ request = [r \in Requests |-> FreeRequest]
  /\ publishing = Nobody /\ stop = "serving" /\ asked = 0

(* The listener is open until Shutdown has closed it.                        *)
Listening == stop \in {"serving", "stopping"}
Ask(r, state) ==
  /\ Listening /\ asked < MaxRequests /\ asked' = asked + 1
  /\ request[r].pc = "free" /\ request' = [request EXCEPT ![r] = state]
Answer(r) == request' = [request EXCEPT ![r] = FreeRequest]

-----------------------------------------------------------------------------
(* Link targets: entryTargets of each entry in order.  The manifest's stamp  *)
(* is read first, the cache is asked under its mutex, and the bytes are read *)
(* outside of it.                                                            *)
Becomes(i, content) ==
  /\ written < Len(Repos) + MaxWrites /\ written' = written + 1
  /\ manifests' = [manifests EXCEPT ![i] = content]
  /\ request' = [r \in Requests |-> IF request[r].kind # "search" THEN request[r]
                                    ELSE [request[r] EXCEPT !.since[i] = @ \cup {content}]]
  /\ UNCHANGED <<cache, clients, stream, publishing, stop, asked>>
BuildWrites(i) == Becomes(i, written + 1)
Removed(i) == manifests[i] # Nothing /\ Becomes(i, Nothing)

\* since: what each manifest has held since the request came (a history).
Asking(n) == IF n > Len(Repos) THEN "found" ELSE "stat"
Search(r) ==
  /\ Ask(r, [kind |-> "search", pc |-> Asking(1), at |-> 1, stamp |-> Nothing, loaded |-> Nothing,
             found |-> <<>>, since |-> [i \in 1..Len(Repos) |-> {manifests[i]}]])
  /\ UNCHANGED <<manifests, written, cache, clients, stream, publishing, stop>>

At(r) == request[r].at
Found(r, targets) ==
  [request EXCEPT ![r].found = Append(@, targets), ![r].at = @ + 1, ![r].stamp = Nothing,
                  ![r].pc = Asking(At(r) + 1)]

StatManifest(r) ==
  /\ request[r].kind = "search" /\ request[r].pc = "stat"
  /\ request' = [request EXCEPT ![r].pc = "look", ![r].stamp = manifests[At(r)]]
  /\ UNCHANGED <<manifests, written, cache, clients, stream, publishing, stop, asked>>

Cached(i, stamp) == cache[i] # Nothing /\ cache[i].stamp = stamp
\* Mutant: an entry that is cached is used whatever its manifest's stamp is.
LookOnce(r) ==
  /\ request[r].kind = "search" /\ request[r].pc = "look"
  /\ request' = IF cache[At(r)] # Nothing THEN Found(r, cache[At(r)].targets)
                ELSE [request EXCEPT ![r].pc = "load"]
  /\ UNCHANGED <<manifests, written, cache, clients, stream, publishing, stop, asked>>
Look(r) ==
  /\ request[r].kind = "search" /\ request[r].pc = "look"
  /\ LET stamp == request[r].stamp
     IN \/ /\ stamp = Nothing
           /\ cache' = [cache EXCEPT ![At(r)] = Nothing] /\ request' = Found(r, Nothing)
        \/ /\ stamp # Nothing /\ Cached(At(r), stamp)
           /\ request' = Found(r, cache[At(r)].targets) /\ UNCHANGED cache
        \/ /\ stamp # Nothing /\ ~Cached(At(r), stamp)
           /\ request' = [request EXCEPT ![r].pc = "load"] /\ UNCHANGED cache
  /\ UNCHANGED <<manifests, written, clients, stream, publishing, stop, asked>>

LoadManifest(r) ==
  /\ request[r].kind = "search" /\ request[r].pc = "load"
  /\ request' = [request EXCEPT ![r].pc = "store", ![r].loaded = manifests[At(r)]]
  /\ UNCHANGED <<manifests, written, cache, clients, stream, publishing, stop, asked>>
\* A manifest that is not readable refuses the search, of every entry's targets.
ManifestUnreadable(r) ==
  /\ request[r].kind = "search" /\ request[r].pc = "load" /\ manifests[At(r)] # Nothing
  /\ Answer(r)
  /\ UNCHANGED <<manifests, written, cache, clients, stream, publishing, stop, asked>>
Store(r) ==
  /\ request[r].kind = "search" /\ request[r].pc = "store"
  /\ cache' = [cache EXCEPT ![At(r)] = [stamp |-> request[r].stamp, targets |-> request[r].loaded]]
  /\ request' = Found(r, request[r].loaded)
  /\ UNCHANGED <<manifests, written, clients, stream, publishing, stop, asked>>
SearchAnswered(r) ==
  /\ request[r].kind = "search" /\ request[r].pc = "found" /\ Answer(r)
  /\ UNCHANGED <<manifests, written, cache, clients, stream, publishing, stop, asked>>

-----------------------------------------------------------------------------
(* The event streams.  A write goes into the socket under the client's mutex  *)
(* and waits there while the socket is full; it fails once the shell is gone. *)
Lock(s, who) == stream[s].writer = Nobody /\ stream' = [stream EXCEPT ![s].writer = who]
Fails(s) == stream[s].dead \/ stream[s].gone \/ stream[s].handler = "none"
CanWrite(s) == Fails(s) \/ stream[s].sent < Capacity
Wrote(s, handler) ==
  [stream EXCEPT ![s].writer = Nobody, ![s].handler = handler,
                 ![s].dead = handler # "none" /\ Fails(s), ![s].sent = IF Fails(s) THEN @ ELSE @ + 1]

\* The first frame takes the mutex like any other.  A shell connects again once
\* no broadcast has its former client (a bound).
OpenStream(s) ==
  /\ Listening /\ asked < MaxRequests /\ asked' = asked + 1
  /\ stream[s] = NoStream /\ \A r \in Requests : request[r].kind = "preview" => s \notin request[r].left
  /\ stream' = [stream EXCEPT ![s] = [NoStream EXCEPT !.handler = "blocked", !.gone = FALSE]]
  /\ clients' = clients \cup {s}
  /\ UNCHANGED <<manifests, written, cache, request, publishing, stop>>
ShellReads(s) ==
  /\ ~stream[s].gone /\ stream[s].sent > 0 /\ stream' = [stream EXCEPT ![s].sent = @ - 1]
  /\ UNCHANGED <<manifests, written, cache, clients, request, publishing, stop, asked>>
ShellLeaves(s) ==
  /\ stream[s].handler # "none" /\ ~stream[s].gone /\ stream' = [stream EXCEPT ![s].gone = TRUE]
  /\ UNCHANGED <<manifests, written, cache, clients, request, publishing, stop, asked>>

(* streamEvents: a ping is due, or the connection or the server ends.         *)
Heartbeat(s) ==
  /\ stream[s].handler = "waiting" /\ stream[s].writer = Nobody
  /\ stream' = [stream EXCEPT ![s].handler = "pinging", ![s].writer = "heartbeat"]
  /\ UNCHANGED <<manifests, written, cache, clients, request, publishing, stop, asked>>
HeartbeatWaits(s) ==  \* for a broadcast that holds the mutex
  /\ stream[s].handler = "waiting" /\ stream[s].writer # Nobody
  /\ stream' = [stream EXCEPT ![s].handler = "blocked"]
  /\ UNCHANGED <<manifests, written, cache, clients, request, publishing, stop, asked>>
OwnFrame(s) ==
  /\ stream[s].handler = "blocked" /\ stream[s].writer = Nobody
  /\ stream' = [stream EXCEPT ![s].handler = "pinging", ![s].writer = "heartbeat"]
  /\ UNCHANGED <<manifests, written, cache, clients, request, publishing, stop, asked>>
Pinged(s) ==
  /\ stream[s].handler = "pinging" /\ CanWrite(s)
  /\ stream' = Wrote(s, IF Fails(s) THEN "leaving" ELSE "waiting")
  /\ UNCHANGED <<manifests, written, cache, clients, request, publishing, stop, asked>>
StreamEnds(s) ==
  /\ stream[s].handler = "waiting" /\ (stop # "serving" \/ stream[s].gone)
  /\ stream' = [stream EXCEPT ![s].handler = "leaving"]
  /\ UNCHANGED <<manifests, written, cache, clients, request, publishing, stop, asked>>

Returned(s) == [NoStream EXCEPT !.writer = stream[s].writer]
StreamLeft(s) ==
  /\ stream[s].handler = "leaving"
  /\ clients' = clients \ {s} /\ stream' = [stream EXCEPT ![s] = Returned(s)]
  /\ UNCHANGED <<manifests, written, cache, request, publishing, stop, asked>>

(* A rendered preview is pushed to the clients there are, one after another.  *)
Preview(r) ==
  /\ Ask(r, [kind |-> "preview", pc |-> "broadcast", left |-> clients])
  /\ UNCHANGED <<manifests, written, cache, clients, stream, publishing, stop>>
Broadcasting(r) == request[r].kind = "preview" /\ request[r].pc = "broadcast"
Push(r, s) ==
  /\ Broadcasting(r) /\ s \in request[r].left /\ Lock(s, r)
  /\ request' = [request EXCEPT ![r].pc = "writing", ![r].left = @ \ {s}]
  /\ UNCHANGED <<manifests, written, cache, clients, publishing, stop, asked>>
Pushed(r, s) ==
  /\ stream[s].writer = r /\ CanWrite(s)
  /\ stream' = Wrote(s, stream[s].handler)
  /\ clients' = IF Fails(s) THEN clients \ {s} ELSE clients
  /\ request' = [request EXCEPT ![r].pc = "broadcast"]
  /\ UNCHANGED <<manifests, written, cache, publishing, stop, asked>>
PreviewAnswered(r) ==
  /\ Broadcasting(r) /\ request[r].left = {} /\ Answer(r)
  /\ UNCHANGED <<manifests, written, cache, clients, stream, publishing, stop, asked>>

-----------------------------------------------------------------------------
(* A publish holds the process-wide lock while the command runs.  One that    *)
(* panics, and keeps the lock, is left out.                                   *)
Publish(r) ==
  /\ Ask(r, [kind |-> "publish", pc |-> "waiting"])
  /\ UNCHANGED <<manifests, written, cache, clients, stream, publishing, stop>>
PublishStarts(r) ==
  /\ request[r].kind = "publish" /\ request[r].pc = "waiting" /\ publishing = Nobody
  /\ publishing' = r /\ request' = [request EXCEPT ![r].pc = "running"]
  /\ UNCHANGED <<manifests, written, cache, clients, stream, stop, asked>>

\* Mutant: a refusal returns before the lock is released.
PublishKeepsTheLock(r) ==
  /\ publishing = r /\ request[r].pc = "running" /\ Answer(r)
  /\ UNCHANGED <<manifests, written, cache, clients, stream, publishing, stop, asked>>
PublishEnds(r) ==
  /\ publishing = r /\ request[r].pc = "running" /\ publishing' = Nobody /\ Answer(r)
  /\ UNCHANGED <<manifests, written, cache, clients, stream, stop, asked>>

-----------------------------------------------------------------------------
(* Stop: the streams are told to end, and Shutdown waits for every request.   *)
Interrupt ==
  /\ stop = "serving" /\ stop' = "stopping"
  /\ UNCHANGED <<manifests, written, cache, clients, stream, request, publishing, asked>>
CloseListener ==
  /\ stop = "stopping" /\ stop' = "closed"
  /\ UNCHANGED <<manifests, written, cache, clients, stream, request, publishing, asked>>
Shutdown ==
  /\ stop = "closed" /\ Busy = {} /\ Held = {} /\ stop' = "stopped"
  /\ UNCHANGED <<manifests, written, cache, clients, stream, request, publishing, asked>>

Handle(r) ==
  \/ StatManifest(r) \/ Look(r) \/ LoadManifest(r) \/ ManifestUnreadable(r) \/ Store(r)
  \/ SearchAnswered(r)
  \/ (\E s \in Shells : Push(r, s) \/ Pushed(r, s)) \/ PreviewAnswered(r)
  \/ PublishStarts(r) \/ PublishEnds(r)
HandleStream(s) == OwnFrame(s) \/ Pinged(s) \/ StreamLeft(s)

ServerNext ==
  \/ \E i \in 1..Len(Repos) : BuildWrites(i) \/ Removed(i)
  \/ \E r \in Requests : Search(r) \/ Preview(r) \/ Publish(r) \/ Handle(r)
  \/ \E s \in Shells :
       \/ OpenStream(s) \/ ShellReads(s) \/ ShellLeaves(s)
       \/ Heartbeat(s) \/ HeartbeatWaits(s) \/ HandleStream(s) \/ StreamEnds(s)
  \/ Interrupt \/ CloseListener \/ Shutdown

(* Every goroutine that can run does, and a publish ends.  A mutex is handed  *)
(* to whoever waits for it, and a select that finds the stop and a tick both  *)
(* ready takes either: strong fairness for those two.                         *)
ServerRuns ==
  /\ \A r \in Requests : SF_serverVars(Handle(r))
  /\ \A s \in Shells : SF_serverVars(HandleStream(s)) /\ SF_serverVars(StreamEnds(s))
  /\ WF_serverVars(CloseListener \/ Shutdown)
ShellsRead == \A s \in Shells : WF_serverVars(ShellReads(s))

ServerSpec == ServerInit /\ [][ServerNext]_serverVars

-----------------------------------------------------------------------------
(* A completion list answers with what each manifest held at some moment      *)
(* since the key was pressed: "a build that rewrites one is picked up on the  *)
(* next keystroke", whatever other requests load and store meanwhile.         *)
SearchesAreCurrent ==
  \A r \in Requests : request[r].kind = "search" =>
    \A i \in 1..Len(request[r].found) : request[r].found[i] \in request[r].since[i]

(* The channel holds no client for good whose handler has returned.           *)
ClientsAreHeld == clients \subseteq Held

(* A publish that was asked for ends, however many wait for it.               *)
PublishesEnd == \A r \in Requests : []<>(request[r].kind # "publish")

(* Interrupted, the server ends: it "releases every held event stream", and   *)
(* no preview, search or publish keeps it.                                    *)
StopEnds == []<>(stop \in {"serving", "stopped"})

(* What requests that overlap share stays right: the link targets kept for    *)
(* searches, and the clients the broadcasts go to.                            *)
SharedStateHolds == SearchesAreCurrent /\ ClientsAreHeld

(* Nothing is waited for in vain: neither a publish nor the shutdown.         *)
RequestsEnd == PublishesEnd /\ StopEnds
=============================================================================
