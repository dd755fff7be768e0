---------------------------- MODULE EditorServerProofs ----------------------------
(***************************************************************************)
(* The state the editor's requests share stays right: proofs of the safety *)
(* properties of EditorServer for any number of repositories, shells and   *)
(* requests, however often their manifests are rewritten.                  *)
(***************************************************************************)
EXTENDS EditorServer, TLAPS

Revision == Nat \cup {Nothing}
Entries == 1..Len(Repos)
Stamps == (0..written) \cup {Nothing}

\* No manifest ever has a revision again, but for none at all.
ManifestInv ==
  /\ written \in Nat
  /\ manifests \in [Entries -> (0..written) \cup {Nothing}]

\* Targets kept under the stamp a manifest still has are that manifest's.
CacheInv ==
  /\ DOMAIN cache = Entries
  /\ \A i \in Entries : cache[i] # Nothing =>
       /\ cache[i].stamp \in 0..written
       /\ cache[i].targets \in Revision
       /\ cache[i].stamp = manifests[i] => cache[i].targets = manifests[i]

\* A search has one answer of each entry before the one it is at, and what it
\* loaded is the content its stamp was of unless the manifest has changed.
SearchInv(r) ==
  /\ "kind" \in DOMAIN request[r]
  /\ request[r].kind = "search" =>
       /\ request[r] = [kind |-> "search", pc |-> request[r].pc, at |-> request[r].at,
                        stamp |-> request[r].stamp, loaded |-> request[r].loaded,
                        found |-> request[r].found, since |-> request[r].since]
       /\ DOMAIN request[r].since = Entries
       /\ \A i \in Entries : manifests[i] \in request[r].since[i]
       /\ request[r].at \in Nat \ {0} /\ Len(request[r].found) = request[r].at - 1
       /\ request[r].found \in Seq(Revision)
       /\ \A i \in 1..Len(request[r].found) : i \in Entries /\ request[r].found[i] \in request[r].since[i]
       /\ request[r].pc \in {"stat", "look", "load", "store"} => request[r].at \in Entries
       /\ request[r].pc = "look" => request[r].stamp \in request[r].since[request[r].at] \cap Stamps
       /\ request[r].pc \in {"load", "store"} => request[r].stamp \in 0..written
       /\ request[r].pc = "store" =>
            /\ request[r].loaded \in request[r].since[request[r].at] \cap Revision
            /\ request[r].stamp = manifests[request[r].at] => request[r].loaded = manifests[request[r].at]

\* What a search that has read a stamp finds in the cache under it, or will find
\* there once another has stored it, is what the manifest held since its key.
LookInv(r) ==
  (request[r].kind = "search" /\ request[r].pc = "look") =>
    /\ Cached(request[r].at, request[r].stamp) =>
         cache[request[r].at].targets \in request[r].since[request[r].at]
    /\ \A q \in Requests :
         (/\ request[q].kind = "search" /\ request[q].pc = "store"
          /\ request[q].at = request[r].at /\ request[q].stamp = request[r].stamp) =>
         request[q].loaded \in request[r].since[request[r].at]

LooksInv == \A r \in Requests : LookInv(r)

RequestInv == DOMAIN request = Requests /\ \A r \in Requests : SearchInv(r)

Handlers == {"none", "waiting", "blocked", "pinging", "leaving"}
StreamState == [handler : Handlers, writer : Requests \cup {Nobody, "heartbeat"},
                sent : Nat, dead : BOOLEAN, gone : BOOLEAN]

StreamInv ==
  /\ stream \in [Shells -> StreamState]
  /\ ClientsAreHeld

SharedInv == ManifestInv /\ CacheInv /\ RequestInv /\ LooksInv /\ StreamInv
-----------------------------------------------------------------------------
\* Initially.

LEMMA InitShared == ServerInit => SharedInv
<1> SUFFICES ASSUME ServerInit PROVE SharedInv
  OBVIOUS
<1> USE DEF ServerInit, Entries
<1>1. Len(Repos) \in Nat
  BY ReposAssumption
<1>2. ManifestInv
  BY <1>1 DEF ManifestInv
<1>3. CacheInv
  BY DEF CacheInv
<1>4. RequestInv
  BY DEF RequestInv, SearchInv, FreeRequest
<1>5. StreamInv
  BY DEF StreamInv, NoStream, ClientsAreHeld, StreamState, Handlers
<1>6. LooksInv
  BY DEF LooksInv, LookInv, FreeRequest
<1> QED
  BY <1>2, <1>3, <1>4, <1>5, <1>6 DEF SharedInv

-----------------------------------------------------------------------------
\* What each step leaves alone.

\* A search nothing happens to stays as it is while the manifests do.
LEMMA SearchKept ==
  ASSUME NEW r, SearchInv(r), UNCHANGED <<manifests, written>>, request'[r] = request[r]
  PROVE  SearchInv(r)'
BY DEF SearchInv, Stamps

\* A request of another kind says nothing about link targets.
LEMMA OtherKind ==
  ASSUME NEW r, "kind" \in DOMAIN request'[r], request'[r].kind # "search"
  PROVE  SearchInv(r)'
BY DEF SearchInv

\* The manifests and their cache stay as they are.
LEMMA ManifestsKept ==
  ASSUME ManifestInv, CacheInv, UNCHANGED <<manifests, written, cache>>
  PROVE  ManifestInv' /\ CacheInv'
BY DEF ManifestInv, CacheInv

\* The streams and their clients stay as they are.
LEMMA StreamsKept ==
  ASSUME StreamInv, UNCHANGED <<stream, clients>>
  PROVE  StreamInv'
BY DEF StreamInv, ClientsAreHeld, Held

\* A request asked for, answered or brought on by r leaves the others alone.
LEMMA OneRequest ==
  ASSUME RequestInv, UNCHANGED <<manifests, written>>, NEW r \in Requests,
         DOMAIN request' = Requests, \A q \in Requests \ {r} : request'[q] = request[q], SearchInv(r)'
  PROVE  RequestInv'
<1>1. ASSUME NEW q \in Requests PROVE SearchInv(q)'
  <2>1. CASE q = r
    BY <2>1
  <2>2. CASE q # r
    BY <2>2, SearchKept DEF RequestInv
  <2> QED
    BY <2>1, <2>2
<1> QED
  BY <1>1 DEF RequestInv

\* A request that neither looks at the cache nor stores into it, and that drops
\* an entry at most, changes nothing for the searches that look.
LEMMA LooksKept ==
  ASSUME LooksInv, NEW r \in Requests, \A q \in Requests \ {r} : request'[q] = request[q],
         request'[r].kind = "search" => request'[r].pc \notin {"look", "store"},
         \A i : cache'[i] \in {cache[i], Nothing}
  PROVE  LooksInv'
<1> SUFFICES ASSUME NEW p \in Requests, (request[p].kind = "search" /\ request[p].pc = "look")'
             PROVE  LookInv(p)'
  BY DEF LooksInv, LookInv
<1>1. p # r /\ request'[p] = request[p] /\ LookInv(p)
  BY DEF LooksInv
<1> DEFINE i == request[p].at
<1>2. cache'[i] # Nothing => cache'[i] = cache[i]
  OBVIOUS
<1> QED
  BY <1>1, <1>2 DEF LookInv, Cached

\* Neither does a step of no request.
LEMMA LooksStay ==
  ASSUME LooksInv, UNCHANGED <<cache, request>>
  PROVE  LooksInv'
BY DEF LooksInv, LookInv, Cached

-----------------------------------------------------------------------------
\* Manifests.

LEMMA BecomesStep ==
  ASSUME SharedInv, NEW i \in Entries, NEW content \in {written + 1, Nothing},
         Becomes(i, content)
  PROVE  SharedInv'
<1> USE DEF Becomes
<1>1. ManifestInv'
  BY NothingAssumption DEF SharedInv, ManifestInv
<1>2. CacheInv'
  <2> SUFFICES ASSUME NEW j \in Entries, cache[j] # Nothing
               PROVE  /\ cache[j].stamp \in 0..written' /\ cache[j].targets \in Revision
                      /\ cache[j].stamp = manifests'[j] => cache[j].targets = manifests'[j]
    BY DEF SharedInv, CacheInv
  <2>1. /\ cache[j].stamp \in 0..written /\ written \in Nat /\ written' = written + 1
        /\ cache[j].targets \in Revision
    BY DEF SharedInv, CacheInv, ManifestInv
  <2>2. CASE j # i
    <3>1. manifests'[j] = manifests[j]
      BY <2>2 DEF SharedInv, ManifestInv
    <3> QED
      BY <2>1, <3>1 DEF SharedInv, CacheInv
  <2>3. CASE j = i
    <3>1. manifests'[j] = content
      BY <2>3 DEF SharedInv, ManifestInv
    <3>2. cache[j].stamp # content
      BY <2>1, NothingAssumption
    <3> QED
      BY <2>1, <3>1, <3>2
  <2> QED
    BY <2>2, <2>3
<1>3. DOMAIN request' = Requests
  OBVIOUS
<1>4. ASSUME NEW r \in Requests PROVE SearchInv(r)'
  <2>1. CASE request[r].kind # "search"
    BY <2>1, OtherKind DEF SharedInv, RequestInv, SearchInv
  <2>2. CASE request[r].kind = "search"
    <3> DEFINE old == request[r]
    <3>1. SearchInv(r) /\ written \in Nat /\ DOMAIN manifests = Entries
      BY DEF SharedInv, RequestInv, ManifestInv
    <3>2. request'[r] = [old EXCEPT !.since[i] = @ \cup {content}]
      BY <2>2
    <3>3. /\ request'[r] = [kind |-> "search", pc |-> old.pc, at |-> old.at, stamp |-> old.stamp,
                            loaded |-> old.loaded, found |-> old.found,
                            since |-> [old.since EXCEPT ![i] = @ \cup {content}]]
      BY <2>2, <3>1, <3>2 DEF SearchInv
    <3>4. /\ DOMAIN request'[r].since = Entries
          /\ \A j \in Entries : old.since[j] \subseteq request'[r].since[j]
          /\ content \in request'[r].since[i]
      BY <2>2, <3>1, <3>3 DEF SearchInv
    <3>5. \A j \in Entries : manifests'[j] \in request'[r].since[j]
      BY <2>2, <3>1, <3>4 DEF SearchInv
    <3>6. old.pc \in {"load", "store"} =>
            old.stamp \in 0..written /\ old.stamp \in 0..written' /\ old.stamp # content
      BY <2>2, <3>1, NothingAssumption DEF SearchInv
    <3>10. old.pc = "look" => old.stamp \in request'[r].since[old.at] \cap Stamps'
      BY <2>2, <3>1, <3>4 DEF SearchInv, Stamps
    <3>7. old.pc = "store" =>
            /\ old.loaded \in request'[r].since[old.at] \cap Revision
            /\ old.stamp = manifests'[old.at] => old.loaded = manifests'[old.at]
      BY <2>2, <3>1, <3>4, <3>6 DEF SearchInv
    <3>8. \A k \in 1..Len(old.found) : k \in Entries /\ old.found[k] \in request'[r].since[k]
      BY <2>2, <3>1, <3>4 DEF SearchInv
    <3>9. request'[r].kind = "search" /\ request'[r].pc = old.pc /\ request'[r].at = old.at
          /\ request'[r].stamp = old.stamp /\ request'[r].loaded = old.loaded
          /\ request'[r].found = old.found
      BY <3>3
    <3> QED
      BY <2>2, <3>1, <3>3, <3>4, <3>5, <3>6, <3>7, <3>8, <3>9, <3>10 DEF SearchInv
  <2> QED
    BY <2>1, <2>2
<1>5. StreamInv'
  BY StreamsKept DEF SharedInv
<1>6. ASSUME NEW r \in Requests PROVE LookInv(r)'
  <2> SUFFICES ASSUME (request[r].kind = "search" /\ request[r].pc = "look")'
               PROVE  LookInv(r)'
    BY DEF LookInv
  <2> DEFINE Same(q) == /\ request'[q].kind = "search" <=> request[q].kind = "search"
                        /\ request[q].kind = "search" =>
                             /\ request'[q].pc = request[q].pc /\ request'[q].at = request[q].at
                             /\ request'[q].stamp = request[q].stamp
                             /\ request'[q].loaded = request[q].loaded
                             /\ \A j \in Entries : request[q].since[j] \subseteq request'[q].since[j]
  <2>1. ASSUME NEW q \in Requests PROVE Same(q)
    <3>1. CASE request[q].kind # "search"
      BY <3>1
    <3>2. CASE request[q].kind = "search"
      <4> DEFINE old == request[q]
      <4>1. SearchInv(q)
        BY DEF SharedInv, RequestInv
      <4>2. request'[q] = [old EXCEPT !.since[i] = @ \cup {content}]
        BY <3>2
      <4>3. request'[q] = [kind |-> "search", pc |-> old.pc, at |-> old.at, stamp |-> old.stamp,
                           loaded |-> old.loaded, found |-> old.found,
                           since |-> [old.since EXCEPT ![i] = @ \cup {content}]]
        BY <3>2, <4>1, <4>2 DEF SearchInv
      <4>4. \A j \in Entries : old.since[j] \subseteq [old.since EXCEPT ![i] = @ \cup {content}][j]
        BY <3>2, <4>1 DEF SearchInv
      <4> QED
        BY <3>2, <4>3, <4>4
    <3> QED
      BY <3>1, <3>2
  <2>2. Same(r) /\ LookInv(r) /\ request[r].kind = "search" /\ request[r].pc = "look"
    BY <2>1 DEF SharedInv, LooksInv
  <2>3. request[r].at \in Entries
    BY <2>2 DEF SharedInv, RequestInv, SearchInv
  <2>4. UNCHANGED cache
    OBVIOUS
  <2> HIDE DEF Becomes
  <2> QED
    BY <2>1, <2>2, <2>3, <2>4 DEF LookInv, Cached
<1> QED
  BY <1>1, <1>2, <1>3, <1>4, <1>5, <1>6 DEF SharedInv, RequestInv, LooksInv
-----------------------------------------------------------------------------
\* Searches.

\* A request that is not looking for targets is asked for, brought on or answered.
LEMMA OtherRequestStep ==
  ASSUME SharedInv, UNCHANGED <<manifests, written, cache, stream, clients>>, NEW r \in Requests,
         DOMAIN request' = Requests, \A q \in Requests \ {r} : request'[q] = request[q],
         "kind" \in DOMAIN request'[r], request'[r].kind # "search"
  PROVE  SharedInv'
<1>1. RequestInv'
  BY OtherKind, OneRequest DEF SharedInv
<1>2. LooksInv'
  BY LooksKept DEF SharedInv
<1> QED
  BY <1>1, <1>2, ManifestsKept, StreamsKept DEF SharedInv

LEMMA SearchStep ==
  ASSUME SharedInv, NEW r \in Requests, Search(r)
  PROVE  SharedInv'
<1> DEFINE state == [kind |-> "search", pc |-> Asking(1), at |-> 1, stamp |-> Nothing, loaded |-> Nothing,
                     found |-> <<>>, since |-> [i \in Entries |-> {manifests[i]}]]
<1>1. request' = [request EXCEPT ![r] = state] /\ UNCHANGED <<manifests, written, cache>>
      /\ StreamInv'
  BY StreamsKept DEF Search, Ask, Entries, SharedInv
<1>2. request'[r] = state
  BY <1>1 DEF SharedInv, RequestInv
<1>3. Asking(1) \in {"stat", "found"} /\ (Asking(1) = "stat" => 1 \in Entries)
  BY ReposAssumption DEF Asking, Entries
<1>4. SearchInv(r)'
  <2>1. /\ DOMAIN state.since = Entries /\ \A i \in Entries : manifests[i] \in state.since[i]
        /\ Len(state.found) = state.at - 1 /\ state.found \in Seq(Revision)
        /\ 1..Len(state.found) = {}
    OBVIOUS
  <2>2. state.pc \notin {"look", "load", "store"} /\ (state.pc = "stat" => state.at \in Entries)
    BY <1>3
  <2> HIDE DEF state
  <2>3. request'[r] = [kind |-> "search", pc |-> state.pc, at |-> state.at, stamp |-> state.stamp,
                       loaded |-> state.loaded, found |-> state.found, since |-> state.since]
        /\ state.at \in Nat \ {0}
    BY <1>2 DEF state
  <2> QED
    BY <1>1, <2>1, <2>2, <2>3 DEF SearchInv
<1>5. RequestInv'
  BY <1>1, <1>4, OneRequest DEF SharedInv, RequestInv
<1>6. LooksInv'
  BY <1>1, <1>2, <1>3, LooksKept DEF SharedInv, RequestInv
<1> QED
  BY <1>1, <1>5, <1>6, ManifestsKept DEF SharedInv

\* Targets the manifest has had are found, and the search goes on to the next.
LEMMA FoundStep ==
  ASSUME SharedInv, UNCHANGED <<manifests, written, stream, clients>>, NEW r \in Requests,
         request[r].kind = "search", At(r) \in Entries,
         NEW targets \in request[r].since[At(r)] \cap Revision, request' = Found(r, targets)
  PROVE  /\ RequestInv' /\ request'[r].pc \in {"stat", "found"}
         /\ \A q \in Requests \ {r} : request'[q] = request[q]
<1> DEFINE old == request[r]
<1>1. SearchInv(r) /\ old.at \in Entries /\ old.at \in Nat \ {0}
  BY DEF SharedInv, RequestInv, At, SearchInv
<1> DEFINE state == [kind |-> "search", pc |-> Asking(old.at + 1), at |-> old.at + 1, stamp |-> Nothing,
                     loaded |-> old.loaded, found |-> Append(old.found, targets), since |-> old.since]
<1>2. old = [kind |-> "search", pc |-> old.pc, at |-> old.at, stamp |-> old.stamp,
             loaded |-> old.loaded, found |-> old.found, since |-> old.since]
  BY <1>1 DEF SearchInv
<1>3. DOMAIN request' = Requests /\ \A q \in Requests \ {r} : request'[q] = request[q]
  BY DEF Found, SharedInv, RequestInv
<1>4. request'[r] = state
  <2>1. request'[r] = [[[[old EXCEPT !.found = Append(@, targets)] EXCEPT !.at = @ + 1]
                         EXCEPT !.stamp = Nothing] EXCEPT !.pc = Asking(old.at + 1)]
    BY DEF Found, At, SharedInv, RequestInv
  <2> QED
    BY <1>2, <2>1
<1>5. Asking(old.at + 1) \in {"stat", "found"} /\ (Asking(old.at + 1) = "stat" => old.at + 1 \in Entries)
  BY <1>1, ReposAssumption DEF Asking, Entries
<1>6. /\ state.found \in Seq(Revision) /\ Len(state.found) = old.at
      /\ \A k \in 1..Len(old.found) : state.found[k] = old.found[k]
      /\ state.found[old.at] = targets
  <2>1. old.found \in Seq(Revision) /\ Len(old.found) = old.at - 1 /\ targets \in Revision
    BY <1>1 DEF SearchInv
  <2>2. state.found = Append(old.found, targets)
    OBVIOUS
  <2> HIDE DEF state
  <2> QED
    BY <1>1, <2>1, <2>2
<1>7. \A k \in 1..Len(state.found) : k \in Entries /\ state.found[k] \in old.since[k]
  <2> SUFFICES ASSUME NEW k \in 1..old.at PROVE k \in Entries /\ state.found[k] \in old.since[k]
    BY <1>6
  <2>1. CASE k = old.at
    BY <1>1, <1>6, <2>1 DEF At
  <2>2. CASE k # old.at
    <3>1. k \in 1..Len(old.found)
      BY <1>1, <2>2 DEF SearchInv
    <3> QED
      BY <1>1, <1>6, <3>1 DEF SearchInv
  <2> QED
    BY <2>1, <2>2
<1>8. SearchInv(r)'
  BY <1>1, <1>4, <1>5, <1>6, <1>7 DEF SearchInv
<1>9. RequestInv'
  BY <1>3, <1>8, OneRequest DEF SharedInv
<1> QED
  BY <1>3, <1>4, <1>5, <1>9

LEMMA StatManifestStep ==
  ASSUME SharedInv, NEW r \in Requests, StatManifest(r)
  PROVE  SharedInv'
<1> DEFINE old == request[r]
           state == [kind |-> "search", pc |-> "look", at |-> old.at, stamp |-> manifests[old.at],
                     loaded |-> old.loaded, found |-> old.found, since |-> old.since]
<1>1. /\ request[r].kind = "search" /\ request[r].pc = "stat" /\ SearchInv(r)
      /\ UNCHANGED <<manifests, written, cache, clients, stream>>
  BY DEF StatManifest, SharedInv, RequestInv
<1>2. /\ request'[r] = [[old EXCEPT !.pc = "look"] EXCEPT !.stamp = manifests[old.at]]
      /\ DOMAIN request' = Requests /\ \A q \in Requests \ {r} : request'[q] = request[q]
  BY DEF StatManifest, At, SharedInv, RequestInv
<1>3. request'[r] = state
  BY <1>1, <1>2 DEF SearchInv
<1>4. old.at \in Entries /\ manifests[old.at] \in old.since[old.at] \cap Stamps
  BY <1>1 DEF SearchInv, SharedInv, ManifestInv, Stamps
<1>5. SearchInv(r)'
  BY <1>1, <1>3, <1>4 DEF SearchInv, Stamps
<1>6. RequestInv'
  BY <1>1, <1>2, <1>5, OneRequest DEF SharedInv
<1>7. LooksInv'
  <2>1. LookInv(r)'
    <3>1. Cached(old.at, manifests[old.at]) => cache[old.at].targets = manifests[old.at]
      BY <1>4 DEF Cached, SharedInv, CacheInv
    <3>2. ASSUME NEW q \in Requests, request'[q].kind = "search", request'[q].pc = "store",
                 request'[q].at = old.at, request'[q].stamp = manifests[old.at]
          PROVE  request'[q].loaded = manifests[old.at]
      <4>1. q # r /\ request'[q] = request[q] /\ SearchInv(q)
        BY <1>2, <1>3, <3>2 DEF SharedInv, RequestInv
      <4> QED
        BY <3>2, <4>1 DEF SearchInv
    <3> HIDE DEF old
    <3> QED
      BY <1>1, <1>3, <1>4, <3>1, <3>2 DEF LookInv, Cached
  <2>2. ASSUME NEW q \in Requests \ {r} PROVE LookInv(q)'
    <3>1. request'[q] = request[q] /\ LookInv(q)
      BY <1>2 DEF SharedInv, LooksInv
    <3>2. \A p \in Requests : request'[p].pc = "store" => request'[p] = request[p]
      BY <1>2, <1>3
    <3> HIDE DEF state
    <3> QED
      BY <1>1, <3>1, <3>2 DEF LookInv, Cached
  <2> QED
    BY <2>1, <2>2 DEF LooksInv
<1> QED
  BY <1>1, <1>6, <1>7, ManifestsKept, StreamsKept DEF SharedInv

LEMMA LookStep ==
  ASSUME SharedInv, NEW r \in Requests, Look(r)
  PROVE  SharedInv'
<1> DEFINE stamp == request[r].stamp
<1>1. /\ request[r].kind = "search" /\ request[r].pc = "look" /\ SearchInv(r) /\ LookInv(r)
      /\ UNCHANGED <<manifests, written, clients, stream>>
  BY DEF Look, SharedInv, RequestInv, LooksInv
<1>2. At(r) \in Entries /\ stamp \in request[r].since[At(r)] \cap Stamps
  BY <1>1 DEF SearchInv, At
<1>3. ManifestInv' /\ StreamInv'
  BY <1>1, StreamsKept DEF SharedInv, ManifestInv
<1>4. CASE stamp = Nothing /\ cache' = [cache EXCEPT ![At(r)] = Nothing] /\ request' = Found(r, Nothing)
  <2>1. /\ RequestInv' /\ request'[r].pc \in {"stat", "found"}
        /\ \A q \in Requests \ {r} : request'[q] = request[q]
    BY <1>1, <1>2, <1>4, FoundStep DEF Revision
  <2>2. CacheInv'
    BY <1>1, <1>2, <1>4 DEF SharedInv, CacheInv
  <2>3. LooksInv'
    <3>1. \A i : cache'[i] \in {cache[i], Nothing}
      BY <1>2, <1>4 DEF SharedInv, CacheInv
    <3> QED
      BY <2>1, <3>1, LooksKept DEF SharedInv
  <2> QED
    BY <1>3, <2>1, <2>2, <2>3 DEF SharedInv
<1>5. CASE stamp # Nothing /\ Cached(At(r), stamp) /\ request' = Found(r, cache[At(r)].targets)
           /\ UNCHANGED cache
  <2>1. cache[At(r)].targets \in request[r].since[At(r)] \cap Revision
    BY <1>1, <1>2, <1>5 DEF SharedInv, CacheInv, Cached, LookInv, At
  <2>2. /\ RequestInv' /\ request'[r].pc \in {"stat", "found"}
        /\ \A q \in Requests \ {r} : request'[q] = request[q]
    BY <1>1, <1>2, <1>5, <2>1, FoundStep
  <2>3. LooksInv'
    BY <1>5, <2>2, LooksKept DEF SharedInv
  <2> QED
    BY <1>1, <1>3, <1>5, <2>2, <2>3, ManifestsKept DEF SharedInv
<1>6. CASE stamp # Nothing /\ request' = [request EXCEPT ![r].pc = "load"] /\ UNCHANGED cache
  <2> DEFINE old == request[r]
             state == [kind |-> "search", pc |-> "load", at |-> old.at, stamp |-> old.stamp,
                       loaded |-> old.loaded, found |-> old.found, since |-> old.since]
  <2>1. /\ request'[r] = [old EXCEPT !.pc = "load"]
        /\ DOMAIN request' = Requests /\ \A q \in Requests \ {r} : request'[q] = request[q]
    BY <1>6 DEF SharedInv, RequestInv
  <2>2. request'[r] = state
    BY <1>1, <2>1 DEF SearchInv
  <2>3. stamp \in 0..written
    BY <1>2, <1>6 DEF Stamps
  <2>4. SearchInv(r)'
    BY <1>1, <1>2, <2>2, <2>3 DEF SearchInv, At
  <2>5. RequestInv'
    BY <1>1, <2>1, <2>4, OneRequest DEF SharedInv
  <2>6. LooksInv'
    BY <1>6, <2>1, <2>2, LooksKept DEF SharedInv
  <2> QED
    BY <1>1, <1>3, <1>6, <2>5, <2>6, ManifestsKept DEF SharedInv
<1> QED
  BY <1>4, <1>5, <1>6 DEF Look

LEMMA LoadManifestStep ==
  ASSUME SharedInv, NEW r \in Requests, LoadManifest(r)
  PROVE  SharedInv'
<1> DEFINE old == request[r]
           state == [kind |-> "search", pc |-> "store", at |-> old.at, stamp |-> old.stamp,
                     loaded |-> manifests[old.at], found |-> old.found, since |-> old.since]
<1>1. /\ request[r].kind = "search" /\ request[r].pc = "load" /\ SearchInv(r)
      /\ UNCHANGED <<manifests, written, cache, clients, stream>>
  BY DEF LoadManifest, SharedInv, RequestInv
<1>2. /\ request'[r] = [[old EXCEPT !.pc = "store"] EXCEPT !.loaded = manifests[old.at]]
      /\ DOMAIN request' = Requests /\ \A q \in Requests \ {r} : request'[q] = request[q]
  BY DEF LoadManifest, At, SharedInv, RequestInv
<1>3. request'[r] = state
  BY <1>1, <1>2 DEF SearchInv
<1>4. At(r) \in Entries /\ manifests[At(r)] \in request[r].since[At(r)] \cap Revision
  BY <1>1 DEF SearchInv, At, SharedInv, ManifestInv, Revision
<1>5. SearchInv(r)'
  BY <1>1, <1>3, <1>4 DEF SearchInv, At
<1>6. RequestInv'
  BY <1>1, <1>2, <1>5, OneRequest DEF SharedInv
<1>7. LooksInv'
  <2> SUFFICES ASSUME NEW p \in Requests, (request[p].kind = "search" /\ request[p].pc = "look")'
               PROVE  LookInv(p)'
    BY DEF LooksInv, LookInv
  <2>1. p # r /\ request'[p] = request[p] /\ LookInv(p) /\ SearchInv(p)
    BY <1>2, <1>3 DEF SharedInv, LooksInv, RequestInv
  <2>2. request[p].at = old.at => manifests[old.at] \in request[p].since[request[p].at]
    BY <2>1, <1>4 DEF SearchInv, At
  <2>3. request'[r].at = old.at /\ request'[r].loaded = manifests[old.at]
    BY <1>3
  <2>4. Cached(request[p].at, request[p].stamp)' <=> Cached(request[p].at, request[p].stamp)
    BY <1>1, <2>1 DEF Cached
  <2>5. ASSUME NEW q \in Requests, (request[q].kind = "search" /\ request[q].pc = "store")',
               request'[q].at = request[p].at, request'[q].stamp = request[p].stamp
        PROVE  request'[q].loaded \in request[p].since[request[p].at]
    <3>1. CASE q = r
      BY <2>2, <2>3, <2>5, <3>1
    <3>2. CASE q # r
      BY <1>2, <2>1, <2>5, <3>2 DEF LookInv
    <3> QED
      BY <3>1, <3>2
  <2> HIDE DEF old, state
  <2> QED
    BY <1>1, <2>1, <2>4, <2>5 DEF LookInv
<1> QED
  BY <1>1, <1>6, <1>7, ManifestsKept, StreamsKept DEF SharedInv

LEMMA StoreStep ==
  ASSUME SharedInv, NEW r \in Requests, Store(r)
  PROVE  SharedInv'
<1>1. /\ request[r].kind = "search" /\ request[r].pc = "store" /\ SearchInv(r)
      /\ UNCHANGED <<manifests, written, clients, stream>>
  BY DEF Store, SharedInv, RequestInv
<1>2. At(r) \in Entries /\ request[r].loaded \in request[r].since[At(r)] \cap Revision
  BY <1>1 DEF SearchInv, At
<1>3. /\ RequestInv' /\ request'[r].pc \in {"stat", "found"}
      /\ \A q \in Requests \ {r} : request'[q] = request[q]
  BY <1>1, <1>2, FoundStep DEF Store
<1>4. CacheInv'
  BY <1>1, <1>2 DEF Store, SharedInv, CacheInv, SearchInv, At
<1>5. LooksInv'
  <2> SUFFICES ASSUME NEW p \in Requests, (request[p].kind = "search" /\ request[p].pc = "look")'
               PROVE  LookInv(p)'
    BY DEF LooksInv, LookInv
  <2>1. p # r /\ request'[p] = request[p] /\ LookInv(p) /\ SearchInv(p)
    BY <1>3 DEF SharedInv, LooksInv, RequestInv
  <2> DEFINE i == request[p].at
             s == request[p].stamp
  <2>2. request[p].at \in Entries
    BY <2>1 DEF SearchInv
  <2>3. Cached(i, s)' => cache'[i].targets \in request[p].since[i]
    <3>1. CASE i # At(r)
      <4>1. cache'[i] = cache[i]
        BY <2>2, <3>1 DEF Store, SharedInv, CacheInv
      <4> QED
        BY <2>1, <4>1 DEF LookInv, Cached
    <3>2. CASE i = At(r)
      <4>1. cache'[i] = [stamp |-> request[r].stamp, targets |-> request[r].loaded]
        BY <2>2, <3>2 DEF Store, SharedInv, CacheInv
      <4> QED
        BY <1>1, <2>1, <3>2, <4>1 DEF LookInv, Cached, At
    <3> QED
      BY <3>1, <3>2
  <2>4. ASSUME NEW q \in Requests, (request[q].kind = "search" /\ request[q].pc = "store")',
               request'[q].at = i, request'[q].stamp = s
        PROVE  request'[q].loaded \in request[p].since[i]
    BY <1>3, <2>1, <2>4 DEF LookInv
  <2> QED
    BY <2>1, <2>3, <2>4 DEF LookInv, Cached
<1> QED
  BY <1>1, <1>3, <1>4, <1>5, StreamsKept DEF SharedInv, ManifestInv
-----------------------------------------------------------------------------
\* Streams.

\* A stream that is brought on keeps its handler, unless no broadcast has it.
LEMMA OneStream ==
  ASSUME StreamInv, NEW s \in Shells,
         DOMAIN stream' = Shells, stream' = [t \in Shells |-> stream'[t]],
         \A t \in Shells \ {s} : stream'[t] = stream[t], stream'[s] \in StreamState,
         clients' \subseteq clients \cup {s}, s \in clients' => stream'[s].handler # "none"
  PROVE  StreamInv'
<1>1. stream' \in [Shells -> StreamState]
  BY DEF StreamInv
<1>2. ClientsAreHeld'
  BY DEF StreamInv, ClientsAreHeld, Held
<1> QED
  BY <1>1, <1>2 DEF StreamInv

LEMMA StreamBecomes ==
  ASSUME StreamInv, NEW s \in Shells, NEW next \in StreamState,
         stream' = [stream EXCEPT ![s] = next],
         clients' \subseteq clients \cup {s}, s \in clients' => next.handler # "none"
  PROVE  StreamInv'
<1>1. DOMAIN stream = Shells
  BY DEF StreamInv
<1>2. DOMAIN stream' = Shells /\ stream' = [t \in Shells |-> stream'[t]] /\ stream'[s] = next
      /\ \A t \in Shells \ {s} : stream'[t] = stream[t]
  BY <1>1
<1> QED
  BY <1>2, OneStream

\* A heartbeat that gets the client's mutex.
LEMMA PingingStream ==
  ASSUME StreamInv, NEW s \in Shells, UNCHANGED clients,
         stream' = [stream EXCEPT ![s].handler = "pinging", ![s].writer = "heartbeat"]
  PROVE  StreamInv'
<1>1. DOMAIN stream = Shells /\ stream[s] \in StreamState
  BY DEF StreamInv
<1>2. DOMAIN stream' = Shells /\ \A t \in Shells \ {s} : stream'[t] = stream[t]
  BY <1>1
<1>3. stream' = [t \in Shells |-> stream'[t]]
  BY <1>2
<1>4. stream'[s] = [[stream[s] EXCEPT !.handler = "pinging"] EXCEPT !.writer = "heartbeat"]
  BY <1>1
<1>5. stream'[s] \in StreamState /\ stream'[s].handler = "pinging"
  BY <1>1, <1>4 DEF StreamState, Handlers
<1> QED
  BY <1>2, <1>3, <1>5, OneStream

\* What a step of a stream alone leaves of the rest.
LEMMA StreamStep ==
  ASSUME SharedInv, UNCHANGED <<manifests, written, cache, request>>, StreamInv'
  PROVE  SharedInv'
<1>1. RequestInv' /\ LooksInv'
  BY SearchKept, LooksStay DEF SharedInv, RequestInv
<1> QED
  BY <1>1, ManifestsKept DEF SharedInv

\* The stream s after a frame was written or failed to be.
LEMMA WroteStream ==
  ASSUME StreamInv, NEW s \in Shells,
         NEW handler \in Handlers,
         stream' = Wrote(s, handler), clients' \subseteq clients, s \in clients' => handler # "none"
  PROVE  StreamInv'
<1> DEFINE old == stream[s]
           next == [handler |-> handler, writer |-> Nobody, sent |-> IF Fails(s) THEN old.sent ELSE old.sent + 1,
                    dead |-> handler # "none" /\ Fails(s), gone |-> old.gone]
<1>1. old \in StreamState
  BY DEF StreamInv
<1>2. DOMAIN stream = Shells
  BY DEF StreamInv
<1>3. DOMAIN stream' = Shells /\ \A t \in Shells \ {s} : stream'[t] = stream[t]
  BY <1>2 DEF Wrote
<1>4. stream'[s] = [[[[old EXCEPT !.writer = Nobody] EXCEPT !.handler = handler]
                      EXCEPT !.dead = handler # "none" /\ Fails(s)]
                     EXCEPT !.sent = IF Fails(s) THEN @ ELSE @ + 1]
  BY <1>2 DEF Wrote
<1>5. stream'[s] = next
  BY <1>1, <1>4 DEF StreamState
<1>6. Fails(s) \in BOOLEAN
  BY <1>1 DEF Fails, StreamState
<1>7. next \in StreamState
  BY <1>1, <1>6 DEF StreamState, Handlers
<1>8. stream' = [t \in Shells |-> stream'[t]]
  BY <1>3 DEF Wrote
<1> HIDE DEF next
<1> QED
  BY <1>3, <1>5, <1>7, <1>8, OneStream DEF next

LEMMA ShellStep ==
  ASSUME SharedInv, NEW s \in Shells,
         \/ OpenStream(s) \/ ShellReads(s) \/ ShellLeaves(s) \/ Heartbeat(s) \/ HeartbeatWaits(s)
         \/ HandleStream(s) \/ StreamEnds(s)
  PROVE  SharedInv'
<1>1. StreamInv /\ stream[s] \in StreamState /\ (s \in clients => stream[s].handler # "none")
  BY DEF SharedInv, StreamInv, ClientsAreHeld, Held
<1> SUFFICES StreamInv' /\ UNCHANGED <<manifests, written, cache, request>>
  BY StreamStep
<1>2. CASE OpenStream(s)
  <2> DEFINE opened == [NoStream EXCEPT !.handler = "blocked", !.gone = FALSE]
  <2>1. opened \in StreamState /\ opened.handler = "blocked"
    BY DEF NoStream, StreamState, Handlers
  <2>2. stream' = [stream EXCEPT ![s] = opened] /\ clients' = clients \cup {s}
        /\ UNCHANGED <<manifests, written, cache, request>>
    BY <1>2 DEF OpenStream
  <2> HIDE DEF opened
  <2> QED
    BY <1>1, <2>1, <2>2, StreamBecomes
<1>3. CASE ShellReads(s)
  <2> DEFINE next == [stream[s] EXCEPT !.sent = @ - 1]
  <2>1. next \in StreamState /\ next.handler = stream[s].handler
    BY <1>1, <1>3 DEF ShellReads, StreamState, Handlers
  <2>2. stream' = [stream EXCEPT ![s] = next] /\ UNCHANGED <<manifests, written, cache, clients, request>>
    BY <1>3 DEF ShellReads
  <2> HIDE DEF next
  <2> QED
    BY <1>1, <2>1, <2>2, StreamBecomes
<1>4. CASE ShellLeaves(s)
  <2> DEFINE next == [stream[s] EXCEPT !.gone = TRUE]
  <2>1. next \in StreamState /\ next.handler = stream[s].handler
    BY <1>1, <1>4 DEF ShellLeaves, StreamState, Handlers
  <2>2. stream' = [stream EXCEPT ![s] = next] /\ UNCHANGED <<manifests, written, cache, clients, request>>
    BY <1>4 DEF ShellLeaves
  <2> HIDE DEF next
  <2> QED
    BY <1>1, <2>1, <2>2, StreamBecomes
<1>5. CASE Heartbeat(s)
  BY <1>1, <1>5, PingingStream DEF Heartbeat
<1>6. CASE HeartbeatWaits(s)
  <2> DEFINE next == [stream[s] EXCEPT !.handler = "blocked"]
  <2>1. next \in StreamState /\ next.handler = "blocked"
    BY <1>1, <1>6 DEF HeartbeatWaits, StreamState, Handlers
  <2>2. stream' = [stream EXCEPT ![s] = next] /\ UNCHANGED <<manifests, written, cache, clients, request>>
    BY <1>6 DEF HeartbeatWaits
  <2> HIDE DEF next
  <2> QED
    BY <1>1, <2>1, <2>2, StreamBecomes
<1>7. CASE OwnFrame(s)
  BY <1>1, <1>7, PingingStream DEF OwnFrame
<1>8. CASE Pinged(s)
  BY <1>1, <1>8, WroteStream DEF Pinged, Handlers
<1>9. CASE StreamLeft(s)
  <2>1. Returned(s) \in StreamState /\ s \notin clients'
    BY <1>1, <1>9 DEF StreamLeft, Returned, NoStream, StreamState, Handlers
  <2>2. stream' = [stream EXCEPT ![s] = Returned(s)] /\ clients' \subseteq clients
        /\ UNCHANGED <<manifests, written, cache, request>>
    BY <1>9 DEF StreamLeft
  <2> QED
    BY <1>1, <2>1, <2>2, StreamBecomes
<1>10. CASE StreamEnds(s)
  <2> DEFINE next == [stream[s] EXCEPT !.handler = "leaving"]
  <2>1. next \in StreamState /\ next.handler = "leaving"
    BY <1>1, <1>10 DEF StreamEnds, StreamState, Handlers
  <2>2. stream' = [stream EXCEPT ![s] = next] /\ UNCHANGED <<manifests, written, cache, clients, request>>
    BY <1>10 DEF StreamEnds
  <2> HIDE DEF next
  <2> QED
    BY <1>1, <2>1, <2>2, StreamBecomes
<1> QED
  BY <1>2, <1>3, <1>4, <1>5, <1>6, <1>7, <1>8, <1>9, <1>10 DEF HandleStream

\* A broadcast writes to one stream after another.
LEMMA BroadcastStep ==
  ASSUME SharedInv, NEW r \in Requests, NEW s \in Shells, Push(r, s) \/ Pushed(r, s)
  PROVE  SharedInv'
<1>1. StreamInv /\ (s \in clients => stream[s].handler # "none")
      /\ stream[s] \in StreamState
  BY DEF SharedInv, StreamInv, ClientsAreHeld, Held
<1>2. DOMAIN request = Requests /\ SearchInv(r) /\ DOMAIN stream = Shells
  BY <1>1 DEF SharedInv, RequestInv, StreamInv
<1>3. CASE Push(r, s)
  <2>1. /\ request'[r].kind = "preview" /\ "kind" \in DOMAIN request'[r]
        /\ DOMAIN request' = Requests /\ \A q \in Requests \ {r} : request'[q] = request[q]
    BY <1>2, <1>3 DEF Push, Broadcasting, SearchInv
  <2>2. RequestInv'
    BY <1>3, <2>1, OtherKind, OneRequest DEF Push, SharedInv
  <2>3. StreamInv'
    <3>1. stream' = [stream EXCEPT ![s].writer = r] /\ UNCHANGED clients
      BY <1>3 DEF Push, Lock
    <3>2. stream'[s] \in StreamState /\ stream'[s].handler = stream[s].handler
      BY <1>1, <1>2, <3>1 DEF StreamState
    <3> QED
      BY <1>1, <1>2, <3>1, <3>2, OneStream
  <2>4. LooksInv'
    BY <1>3, <2>1, LooksKept DEF Push, SharedInv
  <2> QED
    BY <1>3, <2>2, <2>3, <2>4, ManifestsKept DEF Push, SharedInv
<1>4. CASE Pushed(r, s)
  <2>1. /\ request' = [request EXCEPT ![r].pc = "broadcast"]
        /\ UNCHANGED <<manifests, written, cache>>
    BY <1>4 DEF Pushed
  <2>2. /\ DOMAIN request' = Requests /\ \A q \in Requests \ {r} : request'[q] = request[q]
        /\ request'[r] = [request[r] EXCEPT !.pc = "broadcast"]
    BY <1>2, <2>1
  <2>3. SearchInv(r)'
    BY <1>2, <2>1, <2>2 DEF SearchInv
  <2>4. RequestInv'
    BY <2>1, <2>2, <2>3, OneRequest DEF SharedInv
  <2>5. StreamInv'
    BY <1>1, <1>4, WroteStream DEF Pushed, StreamState
  <2>6. LooksInv'
    <3>1. request'[r].kind = "search" => request'[r].pc \notin {"look", "store"}
      <4> SUFFICES ASSUME request'[r].kind = "search" PROVE request'[r].pc = "broadcast"
        OBVIOUS
      <4>1. request[r].kind = "search"
        BY <2>2
      <4>2. "pc" \in DOMAIN request[r]
        BY <1>2, <4>1 DEF SearchInv
      <4> QED
        BY <2>2, <4>2
    <3> QED
      BY <2>1, <2>2, <3>1, LooksKept DEF SharedInv
  <2> QED
    BY <2>1, <2>4, <2>5, <2>6, ManifestsKept DEF SharedInv
<1> QED
  BY <1>3, <1>4

-----------------------------------------------------------------------------

LEMMA SharedStep == SharedInv /\ [ServerNext]_serverVars => SharedInv'
<1> SUFFICES ASSUME SharedInv, [ServerNext]_serverVars PROVE SharedInv'
  OBVIOUS
<1>1. CASE UNCHANGED serverVars
  BY <1>1, SearchKept, LooksStay, ManifestsKept, StreamsKept DEF serverVars, SharedInv, RequestInv
<1>2. ASSUME NEW i \in Entries, BuildWrites(i) \/ Removed(i) PROVE SharedInv'
  BY <1>2, BecomesStep DEF BuildWrites, Removed
<1>3. ASSUME NEW r \in Requests, Search(r) \/ Preview(r) \/ Publish(r) \/ Handle(r) PROVE SharedInv'
  <2> DOMAIN request = Requests /\ SearchInv(r)
    BY DEF SharedInv, RequestInv
  <2>1. CASE Search(r)
    BY <2>1, SearchStep
  <2>2. CASE Preview(r)
    <3>1. request' = [request EXCEPT ![r] = [kind |-> "preview", pc |-> "broadcast", left |-> clients]]
      BY <2>2 DEF Preview, Ask
    <3>2. "kind" \in DOMAIN request'[r] /\ request'[r].kind = "preview"
      BY <3>1
    <3> QED
      BY <2>2, <3>1, <3>2, OtherRequestStep DEF Preview
  <2>3. CASE Publish(r)
    <3>1. request' = [request EXCEPT ![r] = [kind |-> "publish", pc |-> "waiting"]]
      BY <2>3 DEF Publish, Ask
    <3>2. "kind" \in DOMAIN request'[r] /\ request'[r].kind = "publish"
      BY <3>1
    <3> QED
      BY <2>3, <3>1, <3>2, OtherRequestStep DEF Publish
  <2>4. CASE StatManifest(r)
    BY <2>4, StatManifestStep
  <2>5. CASE LoadManifest(r)
    BY <2>5, LoadManifestStep
  <2>6. CASE Store(r)
    BY <2>6, StoreStep
  <2>10. CASE Look(r)
    BY <2>10, LookStep
  <2>7. CASE ManifestUnreadable(r) \/ SearchAnswered(r) \/ PreviewAnswered(r) \/ PublishEnds(r)
    <3>1. /\ request' = [request EXCEPT ![r] = FreeRequest]
          /\ UNCHANGED <<manifests, written, cache, stream, clients>>
      BY <2>7 DEF ManifestUnreadable, SearchAnswered, PreviewAnswered, PublishEnds, Answer
    <3>2. "kind" \in DOMAIN request'[r] /\ request'[r].kind = "none"
      BY <3>1 DEF FreeRequest
    <3> QED
      BY <3>1, <3>2, OtherRequestStep
  <2>8. ASSUME NEW s \in Shells, Push(r, s) \/ Pushed(r, s) PROVE SharedInv'
    BY <2>8, BroadcastStep
  <2>9. CASE PublishStarts(r)
    <3>1. /\ request'[r].kind = "publish" /\ "kind" \in DOMAIN request'[r]
          /\ DOMAIN request' = Requests /\ \A q \in Requests \ {r} : request'[q] = request[q]
      BY <2>9 DEF PublishStarts, SearchInv
    <3> QED
      BY <2>9, <3>1, OtherRequestStep DEF PublishStarts
  <2> QED
    BY <1>3, <2>1, <2>2, <2>3, <2>4, <2>5, <2>6, <2>7, <2>8, <2>9, <2>10 DEF Handle
<1>4. ASSUME NEW s \in Shells,
             \/ OpenStream(s) \/ ShellReads(s) \/ ShellLeaves(s) \/ Heartbeat(s) \/ HeartbeatWaits(s)
             \/ HandleStream(s) \/ StreamEnds(s)
      PROVE  SharedInv'
  BY <1>4, ShellStep
<1>5. CASE Interrupt \/ CloseListener \/ Shutdown
  BY <1>5, SearchKept, LooksStay, ManifestsKept, StreamsKept
     DEF Interrupt, CloseListener, Shutdown, SharedInv, RequestInv
<1> QED
  BY <1>1, <1>2, <1>3, <1>4, <1>5 DEF ServerNext, Entries

LEMMA SharedHolds == SharedInv => SharedStateHolds
BY DEF SharedInv, RequestInv, SearchInv, StreamInv, SharedStateHolds, SearchesAreCurrent

\* However requests overlap with builds that rewrite manifests, a completion
\* list holds what each manifest held since its key was pressed, and broadcasts
\* go to shells whose handler holds their connection (state.go, links.go).
THEOREM SharedState == ServerSpec => []SharedStateHolds
<1>1. ServerInit => SharedInv
  BY InitShared
<1>2. SharedInv /\ [ServerNext]_serverVars => SharedInv'
  BY SharedStep
<1>3. SharedInv => SharedStateHolds
  BY SharedHolds
<1> QED
  BY <1>1, <1>2, <1>3, PTL DEF ServerSpec
=============================================================================
