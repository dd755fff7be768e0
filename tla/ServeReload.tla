------------------------------ MODULE ServeReload ------------------------------
(***************************************************************************)
(* The live reload server of `selfdoc serve'.  A watcher compares the      *)
(* modification times of the output tree every half second and wakes the   *)
(* event stream of every page; a page that is told reloads itself.         *)
(*                                                                         *)
(* A page is served first and opens its stream afterwards.  The watcher    *)
(* walks the tree file by file while a build writes it.                    *)
(***************************************************************************)
EXTENDS Naturals

CONSTANTS Files,      \* the files of the output tree
          Tabs,       \* browser tabs
          MaxTouches,  \* how often the builds write each file
          MaxVisits,  \* how often the reader opens or closes a tab
          NoTime

ASSUME BoundsAssumption == MaxTouches \in Nat /\ MaxVisits \in Nat /\ NoTime \notin Files \cup Nat

VARIABLES mtime,     \* of each file; every write advances it
          previous,  \* the watcher's snapshot, once it has one
          walk,      \* the snapshot it is taking
          tab,       \* what each tab shows, and how far its stream is
          visits

vars == <<mtime, previous, walk, tab, visits>>

Versions == 0 .. MaxTouches

\* clients holds a one-place channel for each stream: "woken" is a full one.
Closed == [phase |-> "closed", file |-> NoTime, shown |-> NoTime]

Unread == [f \in Files |-> NoTime]

TypeOK ==
    /\ mtime \in [Files -> Versions]
    /\ previous \in [Files -> Versions] \cup {Unread}
    /\ walk \in [Files -> Versions \cup {NoTime}]
    /\ tab \in [Tabs -> [phase : {"served", "streaming", "woken", "told"},
                         file : Files, shown : Versions] \cup {Closed}]
    /\ visits \in 0 .. MaxVisits

Init ==
    /\ mtime = [f \in Files |-> 0]
    /\ previous = Unread
    /\ walk = Unread
    /\ tab = [t \in Tabs |-> Closed]
    /\ visits = 0

-----------------------------------------------------------------------------
(* The build and the reader.                                               *)

Write(f) ==
    /\ mtime[f] < MaxTouches
    /\ mtime' = [mtime EXCEPT ![f] = @ + 1]
    /\ UNCHANGED <<previous, walk, tab, visits>>

Served(f) == [phase |-> "served", file |-> f, shown |-> mtime[f]]

Visit(t, f) ==
    /\ visits < MaxVisits
    /\ visits' = visits + 1
    /\ tab' = [tab EXCEPT ![t] = Served(f)]
    /\ UNCHANGED <<mtime, previous, walk>>

Leave(t) ==
    /\ visits < MaxVisits
    /\ tab[t] # Closed
    /\ visits' = visits + 1
    /\ tab' = [tab EXCEPT ![t] = Closed]
    /\ UNCHANGED <<mtime, previous, walk>>

-----------------------------------------------------------------------------
(* The streams.                                                            *)

\* The injected script's EventSource: the stream joins the clients.
Connect(t) ==
    /\ tab[t].phase = "served"
    /\ tab' = [tab EXCEPT ![t].phase = "streaming"]
    /\ UNCHANGED <<mtime, previous, walk, visits>>

\* The stream takes what is in its channel and writes the event.
Tell(t) ==
    /\ tab[t].phase = "woken"
    /\ tab' = [tab EXCEPT ![t].phase = "told"]
    /\ UNCHANGED <<mtime, previous, walk, visits>>

\* location.reload(): the page is served anew, and its stream is another one.
Reload(t) ==
    /\ tab[t].phase = "told"
    /\ tab' = [tab EXCEPT ![t] = Served(tab[t].file)]
    /\ UNCHANGED <<mtime, previous, walk, visits>>

-----------------------------------------------------------------------------
(* The watcher.                                                            *)

Stat(f) ==
    /\ walk[f] = NoTime
    /\ walk' = [walk EXCEPT ![f] = mtime[f]]
    /\ UNCHANGED <<mtime, previous, tab, visits>>

Walked == \A f \in Files : walk[f] # NoTime

\* A full channel is left as it is: the send does not block.
Wake(t) ==
    IF tab[t].phase = "streaming" THEN [tab[t] EXCEPT !.phase = "woken"] ELSE tab[t]

CompareWithFirst ==
    /\ Walked
    /\ previous' = IF previous = Unread THEN walk ELSE previous
    /\ tab' = IF previous \in {Unread, walk} THEN tab ELSE [t \in Tabs |-> Wake(t)]
    /\ walk' = Unread
    /\ UNCHANGED <<mtime, visits>>

\* The first snapshot wakes nobody.
Compare ==
    /\ Walked
    /\ previous' = walk
    /\ tab' = IF previous \in {Unread, walk} THEN tab ELSE [t \in Tabs |-> Wake(t)]
    /\ walk' = Unread
    /\ UNCHANGED <<mtime, visits>>

-----------------------------------------------------------------------------

Next ==
    \/ \E f \in Files : Write(f) \/ Stat(f)
    \/ \E t \in Tabs, f \in Files : Visit(t, f)
    \/ \E t \in Tabs : Leave(t) \/ Connect(t) \/ Tell(t) \/ Reload(t)
    \/ Compare

\* The watcher's ticker, the server's streams and the pages' scripts go on.
Spec ==
    /\ Init /\ [][Next]_vars
    /\ WF_vars(Compare)
    /\ \A f \in Files : WF_vars(Stat(f))
    /\ \A t \in Tabs : WF_vars(Connect(t)) /\ WF_vars(Tell(t)) /\ WF_vars(Reload(t))

-----------------------------------------------------------------------------
(* Properties.                                                             *)

\* What a tab that has its stream does not show and the watcher has not seen is
\* shown in the end, even if it is written while the watcher walks, while other
\* wakings are pending, or together with other files (watch, serveEvents).
StreamsLearnOfWrites ==
    \A t \in Tabs, f \in Files, v \in Versions :
        (/\ tab[t].phase \in {"streaming", "woken"} /\ tab[t].file = f /\ tab[t].shown < v
         /\ previous # Unread /\ previous[f] < v /\ v <= mtime[f])
        ~> (tab[t] = Closed \/ tab[t].file # f \/ tab[t].shown >= v)

\* When the builds stop, the pages come to rest: nothing reloads for ever, and
\* every open page listens again (watch, injected script).
PagesSettle == <>[](\A t \in Tabs : tab[t] = Closed \/ tab[t].phase = "streaming")

\* A save reaches every page that listens, and then there is rest (the watcher
\* and the streams of cmdServe): the type invariant, and both halves.
SavesReachThePages == []TypeOK /\ StreamsLearnOfWrites /\ PagesSettle
=============================================================================
