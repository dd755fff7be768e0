---------------------------- MODULE EditorShellProofs ----------------------------
(***************************************************************************)
(* The editor's tabs and their server: proofs of the invariants of         *)
(* EditorShell, for any tabs, posts, texts, slugs and requests in flight.  *)
(***************************************************************************)
EXTENDS EditorShell, TLAPS

\* A request in flight is some tab's, of a post, with the text it carries.
CallShape(c) ==
    ~Free(c) =>
      /\ call[c].tab \in Tabs /\ call[c].post \in Posts
      /\ tab[call[c].tab].post # None
      /\ call[c].kind = "open" => call[c].step # "stored"
      /\ call[c].kind = "save" => call[c].step # "stored"
      /\ call[c].kind = "preview" => call[c].step # "answered"
      /\ call[c].kind = "analysis" => call[c].step \in {"sent", "failed"}
      /\ call[c].kind # "open" \/ call[c].step = "answered" => call[c].text \in Texts

\* A tab has a text only of a post that was selected.
TabShape(t) ==
    /\ tab[t].buffer # None => tab[t].post # None
    /\ tab[t].host = "editor" \/ tab[t].previewDue \/ tab[t].analysisDue => tab[t].buffer # None

ShapeInv == (\A c \in Calls : CallShape(c)) /\ (\A t \in Tabs : TabShape(t))

\* The findings are the buffer's, or those that will be are on their way.
FindingsInv(t) ==
    tab[t].host = "editor" =>
      \/ tab[t].analysisDue \/ InFlight(t, {"open"})
      \/ /\ tab[t].newest # None
         /\ call[tab[t].newest].post = tab[t].post /\ call[tab[t].newest].text = tab[t].buffer
      \/ /\ tab[t].newest = None
         /\ tab[t].findings = [post |-> tab[t].post, text |-> tab[t].buffer]

\* A pane that differs from the store is loading, or news of it is on its way.
PaneInv(t) ==
    tab[t].pane # None /\ ~tab[t].missed =>
      LET address == Address(tab[t].pane.text)
      IN \/ previews[address] = tab[t].pane
         \/ tab[t].loading # None
         \/ \E i \in 1..Len(tab[t].events) : tab[t].events[i].address = address
         \/ \E c \in Calls : call[c].step = "stored" /\ Address(call[c].text) = address

StoreInv == \A at \in Addresses : previews[at] # None => Address(previews[at].text) = at

Writing(c) == ~Free(c) /\ call[c].kind \in {"open", "save"}
Answered(c) == Writing(c) /\ call[c].step = "answered"

\* What patience is worth: a tab waits for one answer at most, which is of the
\* post that is still selected.
PatientInv ==
    ~hasty =>
      /\ \A p \in Posts : disk[p].post = p
      /\ \A c, d \in Calls : Writing(c) /\ Writing(d) /\ call[c].tab = call[d].tab => c = d
      /\ \A c \in Calls : Writing(c) =>
           /\ call[c].post = tab[call[c].tab].post
           /\ tab[call[c].tab].host = IF call[c].kind = "open" THEN "loading" ELSE "editor"
           /\ call[c].kind = "save" \/ call[c].step = "answered" => call[c].text.post = call[c].post
      /\ \A t \in Tabs : tab[t].host = "editor" => tab[t].buffer.post = tab[t].post

\* What was read or saved is on disk, and a tab without an answer to come
\* knows what is on disk.
SavedInv ==
    ~hasty /\ ~shared =>
      /\ \A c \in Calls : Answered(c) => disk[call[c].post] = call[c].text
      /\ \A t \in Tabs :
           /\ tab[t].host = "editor"
           /\ ~ \E c \in Calls : Answered(c) /\ call[c].tab = t
           => disk[tab[t].post] = tab[t].saved

ShellInv ==
    /\ TypeOK /\ ShapeInv /\ StoreInv /\ PatientInv /\ SavedInv
    /\ \A t \in Tabs : FindingsInv(t) /\ PaneInv(t)

-----------------------------------------------------------------------------
(* Types and shapes.  One lemma per action.                                *)

LEMMA OpenPostType ==
    ASSUME TypeOK, ShapeInv, NEW t \in Tabs, NEW p \in Posts, OpenPost(t, p)
    PROVE  TypeOK' /\ ShapeInv'
<1> USE TextsAssumption DEF history, Free, Idle
<1>1. disk' \in [Posts -> Texts] /\ previews' \in [Addresses -> Results \cup {None}]
      /\ hasty' \in BOOLEAN /\ shared' \in BOOLEAN
      /\ budget' \in [{"opens", "edits", "saves", "faults"} -> Nat]
  BY DEF TypeOK, Spend, OpenPost
<1>2. call' \in [Calls -> CallType]
  BY DEF TypeOK, CallType, Request, OpenPost
<1>3. tab' \in [Tabs -> TabType]
  <2> DEFINE next == [tab[t] EXCEPT !.post = p, !.host = "loading"]
  <2>1. tab[t] \in TabType /\ tab' = [tab EXCEPT ![t] = next]
    BY DEF TypeOK, OpenPost
  <2>2. next \in TabType
    BY <2>1 DEF TabType
  <2> HIDE DEF next
  <2> QED
    BY <2>1, <2>2 DEF TypeOK
<1>4. \A u \in Tabs : tab'[u].newest # None =>
           LET q == tab'[u].newest IN call'[q].step # "free" /\ call'[q].tab = u /\ call'[q].kind = "analysis"
  BY DEF TypeOK, OpenPost
<1>5. \A q \in Calls : CallShape(q)'
  BY DEF TypeOK, ShapeInv, CallShape, Request, OpenPost
<1>6. \A u \in Tabs : TabShape(u)'
  BY DEF ShapeInv, TabShape, OpenPost
<1> QED
  BY <1>1, <1>2, <1>3, <1>4, <1>5, <1>6 DEF TypeOK, ShapeInv

LEMMA TypeType ==
    ASSUME TypeOK, ShapeInv, NEW t \in Tabs, NEW text \in Texts, Type(t, text)
    PROVE  TypeOK' /\ ShapeInv'
<1> USE TextsAssumption DEF history, Free, Idle
<1>1. disk' \in [Posts -> Texts] /\ previews' \in [Addresses -> Results \cup {None}]
      /\ hasty' \in BOOLEAN /\ shared' \in BOOLEAN
      /\ budget' \in [{"opens", "edits", "saves", "faults"} -> Nat]
  BY DEF TypeOK, Spend, Type
<1>2. call' \in [Calls -> CallType]
  BY DEF TypeOK, Type
<1>3. tab' \in [Tabs -> TabType]
  <2> DEFINE next == [tab[t] EXCEPT !.buffer = text, !.previewDue = TRUE, !.analysisDue = TRUE]
  <2>1. tab[t] \in TabType /\ tab' = [tab EXCEPT ![t] = next]
    BY DEF TypeOK, Type
  <2>2. next \in TabType
    BY <2>1 DEF TabType
  <2> HIDE DEF next
  <2> QED
    BY <2>1, <2>2 DEF TypeOK
<1>4. \A u \in Tabs : tab'[u].newest # None =>
           LET q == tab'[u].newest IN call'[q].step # "free" /\ call'[q].tab = u /\ call'[q].kind = "analysis"
  BY DEF TypeOK, Type
<1>5. \A q \in Calls : CallShape(q)'
  BY DEF ShapeInv, CallShape, Type
<1>6. \A u \in Tabs : TabShape(u)'
  BY DEF ShapeInv, TabShape, Type
<1> QED
  BY <1>1, <1>2, <1>3, <1>4, <1>5, <1>6 DEF TypeOK, ShapeInv

LEMMA SaveType ==
    ASSUME TypeOK, ShapeInv, NEW t \in Tabs, Save(t)
    PROVE  TypeOK' /\ ShapeInv'
<1> USE TextsAssumption DEF history, Free, Idle
<1>1. disk' \in [Posts -> Texts] /\ previews' \in [Addresses -> Results \cup {None}]
      /\ hasty' \in BOOLEAN /\ shared' \in BOOLEAN
      /\ budget' \in [{"opens", "edits", "saves", "faults"} -> Nat]
  BY DEF TypeOK, Spend, Save
<1>2. call' \in [Calls -> CallType]
  BY DEF TypeOK, CallType, TabType, Request, Save
<1>3. tab' \in [Tabs -> TabType]
  BY DEF TypeOK, Save
<1>4. \A u \in Tabs : tab'[u].newest # None =>
           LET q == tab'[u].newest IN call'[q].step # "free" /\ call'[q].tab = u /\ call'[q].kind = "analysis"
  BY DEF TypeOK, Save
<1>5. \A q \in Calls : CallShape(q)'
  BY DEF TypeOK, ShapeInv, CallShape, TabType, Request, Save
<1>6. \A u \in Tabs : TabShape(u)'
  BY DEF ShapeInv, TabShape, Save
<1> QED
  BY <1>1, <1>2, <1>3, <1>4, <1>5, <1>6 DEF TypeOK, ShapeInv

LEMMA PreviewTimerType ==
    ASSUME TypeOK, ShapeInv, NEW t \in Tabs, PreviewTimer(t)
    PROVE  TypeOK' /\ ShapeInv'
<1> USE TextsAssumption DEF history, Free, Idle
<1>1. disk' \in [Posts -> Texts] /\ previews' \in [Addresses -> Results \cup {None}]
      /\ hasty' \in BOOLEAN /\ shared' \in BOOLEAN
      /\ budget' \in [{"opens", "edits", "saves", "faults"} -> Nat]
  BY DEF TypeOK, PreviewTimer
<1>2. call' \in [Calls -> CallType]
  BY DEF TypeOK, CallType, TabType, Request, PreviewTimer
<1>3. tab' \in [Tabs -> TabType]
  <2> DEFINE next == [tab[t] EXCEPT !.previewDue = FALSE]
  <2>1. tab[t] \in TabType /\ tab' = [tab EXCEPT ![t] = next]
    BY DEF TypeOK, PreviewTimer
  <2>2. next \in TabType
    BY <2>1 DEF TabType
  <2> HIDE DEF next
  <2> QED
    BY <2>1, <2>2 DEF TypeOK
<1>4. \A u \in Tabs : tab'[u].newest # None =>
           LET q == tab'[u].newest IN call'[q].step # "free" /\ call'[q].tab = u /\ call'[q].kind = "analysis"
  BY DEF TypeOK, PreviewTimer
<1>5. \A q \in Calls : CallShape(q)'
  BY DEF TypeOK, ShapeInv, CallShape, TabShape, TabType, Request, PreviewTimer
<1>6. \A u \in Tabs : TabShape(u)'
  BY DEF ShapeInv, TabShape, PreviewTimer
<1> QED
  BY <1>1, <1>2, <1>3, <1>4, <1>5, <1>6 DEF TypeOK, ShapeInv

LEMMA AnalysisTimerType ==
    ASSUME TypeOK, ShapeInv, NEW t \in Tabs, AnalysisTimer(t)
    PROVE  TypeOK' /\ ShapeInv'
<1> USE TextsAssumption DEF history, Free, Idle
<1>1. disk' \in [Posts -> Texts] /\ previews' \in [Addresses -> Results \cup {None}]
      /\ hasty' \in BOOLEAN /\ shared' \in BOOLEAN
      /\ budget' \in [{"opens", "edits", "saves", "faults"} -> Nat]
  BY DEF TypeOK, AnalysisTimer
<1>2. call' \in [Calls -> CallType]
  BY DEF TypeOK, CallType, TabType, Request, AnalysisTimer
<1>3. tab' \in [Tabs -> TabType]
  <2> PICK c \in Calls : tab' = [tab EXCEPT ![t] = [@ EXCEPT !.analysisDue = FALSE, !.newest = c]]
    BY DEF AnalysisTimer
  <2> DEFINE next == [tab[t] EXCEPT !.analysisDue = FALSE, !.newest = c]
  <2>1. tab[t] \in TabType /\ tab' = [tab EXCEPT ![t] = next]
    BY DEF TypeOK
  <2>2. next \in TabType
    BY <2>1 DEF TabType
  <2> HIDE DEF next
  <2> QED
    BY <2>1, <2>2 DEF TypeOK
<1>4. \A u \in Tabs : tab'[u].newest # None =>
           LET q == tab'[u].newest IN call'[q].step # "free" /\ call'[q].tab = u /\ call'[q].kind = "analysis"
  BY DEF TypeOK, Request, AnalysisTimer
<1>5. \A q \in Calls : CallShape(q)'
  BY DEF TypeOK, ShapeInv, CallShape, TabShape, TabType, Request, AnalysisTimer
<1>6. \A u \in Tabs : TabShape(u)'
  BY DEF ShapeInv, TabShape, AnalysisTimer
<1> QED
  BY <1>1, <1>2, <1>3, <1>4, <1>5, <1>6 DEF TypeOK, ShapeInv

LEMMA OnPreviewType ==
    ASSUME TypeOK, ShapeInv, NEW t \in Tabs, OnPreview(t)
    PROVE  TypeOK' /\ ShapeInv'
<1> USE TextsAssumption DEF history, Free, Idle
<1>1. disk' \in [Posts -> Texts] /\ previews' \in [Addresses -> Results \cup {None}]
      /\ hasty' \in BOOLEAN /\ shared' \in BOOLEAN
      /\ budget' \in [{"opens", "edits", "saves", "faults"} -> Nat]
  BY DEF TypeOK, OnPreview, Heed
<1>2. call' \in [Calls -> CallType]
  BY DEF TypeOK, OnPreview, Heed
<1>3. tab' \in [Tabs -> TabType]
  <2> DEFINE event == Head(tab[t].events)
             loading == IF event.post = tab[t].post THEN event.address ELSE tab[t].loading
             missed == tab[t].missed \/ (event.post # tab[t].post /\ Shows(t, event.address))
             next == [tab[t] EXCEPT !.events = Tail(@), !.loading = loading, !.missed = missed]
  <2>1. tab[t] \in TabType /\ tab[t].events \in Seq(Events) /\ tab[t].events # <<>>
    BY DEF TypeOK, OnPreview, TabType
  <2>2. event \in Events /\ Tail(tab[t].events) \in Seq(Events)
    BY <2>1
  <2>3. tab' = [tab EXCEPT ![t] = next]
    BY DEF OnPreview, Heed
  <2>4. loading \in Addresses \cup {None} /\ missed \in BOOLEAN
    BY <2>1, <2>2 DEF TabType, Events
  <2> HIDE DEF loading, missed, event
  <2>5. next \in TabType
    BY <2>1, <2>2, <2>4 DEF TabType
  <2> HIDE DEF next
  <2> QED
    BY <2>5, <2>3 DEF TypeOK
<1>4. \A u \in Tabs : tab'[u].newest # None =>
           LET q == tab'[u].newest IN call'[q].step # "free" /\ call'[q].tab = u /\ call'[q].kind = "analysis"
  BY DEF TypeOK, OnPreview, Heed
<1>5. \A q \in Calls : CallShape(q)'
  BY DEF ShapeInv, CallShape, OnPreview, Heed
<1>6. \A u \in Tabs : TabShape(u)'
  BY DEF ShapeInv, TabShape, OnPreview, Heed
<1> QED
  BY <1>1, <1>2, <1>3, <1>4, <1>5, <1>6 DEF TypeOK, ShapeInv

LEMMA LoadPaneType ==
    ASSUME TypeOK, ShapeInv, NEW t \in Tabs, LoadPane(t)
    PROVE  TypeOK' /\ ShapeInv'
<1> USE TextsAssumption DEF history, Free, Idle
<1>1. previews[tab[t].loading] \in Results \cup {None}
  BY DEF TypeOK, TabType, LoadPane
<1>2. disk' \in [Posts -> Texts] /\ previews' \in [Addresses -> Results \cup {None}]
      /\ hasty' \in BOOLEAN /\ shared' \in BOOLEAN
      /\ budget' \in [{"opens", "edits", "saves", "faults"} -> Nat]
  BY DEF TypeOK, LoadPane
<1>3. call' \in [Calls -> CallType]
  BY DEF TypeOK, LoadPane
<1>4. tab' \in [Tabs -> TabType]
  <2> DEFINE next == [tab[t] EXCEPT !.pane = previews[tab[t].loading], !.loading = None, !.missed = FALSE]
  <2>1. tab[t] \in TabType /\ tab' = [tab EXCEPT ![t] = next]
    BY DEF TypeOK, LoadPane
  <2>2. next \in TabType
    BY <2>1, <1>1 DEF TabType
  <2> HIDE DEF next
  <2> QED
    BY <2>1, <2>2 DEF TypeOK
<1>5. \A u \in Tabs : tab'[u].newest # None =>
           LET q == tab'[u].newest IN call'[q].step # "free" /\ call'[q].tab = u /\ call'[q].kind = "analysis"
  BY DEF TypeOK, LoadPane
<1>6. \A q \in Calls : CallShape(q)'
  BY DEF ShapeInv, CallShape, LoadPane
<1>7. \A u \in Tabs : TabShape(u)'
  BY DEF ShapeInv, TabShape, LoadPane
<1> QED
  BY <1>2, <1>3, <1>4, <1>5, <1>6, <1>7 DEF TypeOK, ShapeInv

LEMMA DropStreamType ==
    ASSUME TypeOK, ShapeInv, NEW t \in Tabs, DropStream(t)
    PROVE  TypeOK' /\ ShapeInv'
<1> USE TextsAssumption DEF history, Free, Idle
<1>1. disk' \in [Posts -> Texts] /\ previews' \in [Addresses -> Results \cup {None}]
      /\ hasty' \in BOOLEAN /\ shared' \in BOOLEAN
      /\ budget' \in [{"opens", "edits", "saves", "faults"} -> Nat]
  BY DEF TypeOK, Spend, DropStream
<1>2. call' \in [Calls -> CallType]
  BY DEF TypeOK, DropStream
<1>3. tab' \in [Tabs -> TabType]
  <2> DEFINE missed == tab[t].missed \/ \E i \in DOMAIN tab[t].events : Shows(t, tab[t].events[i].address)
             next == [tab[t] EXCEPT !.streaming = FALSE, !.events = <<>>, !.missed = missed]
  <2>1. tab[t] \in TabType
    BY DEF TypeOK
  <2>2. tab' = [tab EXCEPT ![t] = next]
    BY DEF DropStream
  <2>3. missed \in BOOLEAN
    BY <2>1 DEF TabType
  <2> HIDE DEF missed
  <2>4. next \in TabType
    <3>1. <<>> \in Seq(Events)
      OBVIOUS
    <3> QED
      BY <2>1, <2>3, <3>1 DEF TabType
  <2> HIDE DEF next
  <2> QED
    BY <2>4, <2>2 DEF TypeOK
<1>4. \A u \in Tabs : tab'[u].newest # None =>
           LET q == tab'[u].newest IN call'[q].step # "free" /\ call'[q].tab = u /\ call'[q].kind = "analysis"
  BY DEF TypeOK, DropStream
<1>5. \A q \in Calls : CallShape(q)'
  BY DEF ShapeInv, CallShape, DropStream
<1>6. \A u \in Tabs : TabShape(u)'
  BY DEF ShapeInv, TabShape, DropStream
<1> QED
  BY <1>1, <1>2, <1>3, <1>4, <1>5, <1>6 DEF TypeOK, ShapeInv

LEMMA ReconnectType ==
    ASSUME TypeOK, ShapeInv, NEW t \in Tabs, Reconnect(t)
    PROVE  TypeOK' /\ ShapeInv'
<1> USE TextsAssumption DEF history, Free, Idle
<1>1. disk' \in [Posts -> Texts] /\ previews' \in [Addresses -> Results \cup {None}]
      /\ hasty' \in BOOLEAN /\ shared' \in BOOLEAN
      /\ budget' \in [{"opens", "edits", "saves", "faults"} -> Nat]
  BY DEF TypeOK, Reconnect
<1>2. call' \in [Calls -> CallType]
  BY DEF TypeOK, Reconnect
<1>3. tab' \in [Tabs -> TabType]
  <2> DEFINE next == [tab[t] EXCEPT !.streaming = TRUE]
  <2>1. tab[t] \in TabType /\ tab' = [tab EXCEPT ![t] = next]
    BY DEF TypeOK, Reconnect
  <2>2. next \in TabType
    BY <2>1 DEF TabType
  <2> HIDE DEF next
  <2> QED
    BY <2>1, <2>2 DEF TypeOK
<1>4. \A u \in Tabs : tab'[u].newest # None =>
           LET q == tab'[u].newest IN call'[q].step # "free" /\ call'[q].tab = u /\ call'[q].kind = "analysis"
  BY DEF TypeOK, Reconnect
<1>5. \A q \in Calls : CallShape(q)'
  BY DEF ShapeInv, CallShape, Reconnect
<1>6. \A u \in Tabs : TabShape(u)'
  BY DEF ShapeInv, TabShape, Reconnect
<1> QED
  BY <1>1, <1>2, <1>3, <1>4, <1>5, <1>6 DEF TypeOK, ShapeInv

LEMMA ReadPostType ==
    ASSUME TypeOK, ShapeInv, NEW c \in Calls, ReadPost(c)
    PROVE  TypeOK' /\ ShapeInv'
<1> USE TextsAssumption DEF history, Free, Idle
<1>1. disk' \in [Posts -> Texts] /\ previews' \in [Addresses -> Results \cup {None}]
      /\ hasty' \in BOOLEAN /\ shared' \in BOOLEAN
      /\ budget' \in [{"opens", "edits", "saves", "faults"} -> Nat]
  BY DEF TypeOK, ReadPost
<1>2. call' \in [Calls -> CallType]
  <2> DEFINE next == [call[c] EXCEPT !.text = disk[call[c].post], !.step = "answered"]
  <2>1. call[c] \in CallType /\ call' = [call EXCEPT ![c] = next] /\ disk[call[c].post] \in Texts
    BY DEF TypeOK, ReadPost, ShapeInv, CallShape
  <2>2. next \in CallType
    BY <2>1 DEF CallType
  <2> HIDE DEF next
  <2> QED
    BY <2>1, <2>2 DEF TypeOK
<1>3. tab' \in [Tabs -> TabType]
  BY DEF TypeOK, ReadPost
<1>4. \A u \in Tabs : tab'[u].newest # None =>
           LET q == tab'[u].newest IN call'[q].step # "free" /\ call'[q].tab = u /\ call'[q].kind = "analysis"
  BY DEF TypeOK, ReadPost
<1>5. \A q \in Calls : CallShape(q)'
  BY DEF TypeOK, ShapeInv, CallShape, ReadPost
<1>6. \A u \in Tabs : TabShape(u)'
  BY DEF ShapeInv, TabShape, ReadPost
<1> QED
  BY <1>1, <1>2, <1>3, <1>4, <1>5, <1>6 DEF TypeOK, ShapeInv

LEMMA SavePostType ==
    ASSUME TypeOK, ShapeInv, NEW c \in Calls, SavePost(c)
    PROVE  TypeOK' /\ ShapeInv'
<1> USE TextsAssumption DEF history, Free, Idle
<1>1. disk' \in [Posts -> Texts] /\ previews' \in [Addresses -> Results \cup {None}]
      /\ hasty' \in BOOLEAN /\ shared' \in BOOLEAN
      /\ budget' \in [{"opens", "edits", "saves", "faults"} -> Nat]
  BY DEF TypeOK, ShapeInv, CallShape, SavePost
<1>2. call' \in [Calls -> CallType]
  BY DEF TypeOK, CallShape, TabShape, CallType, SavePost
<1>3. tab' \in [Tabs -> TabType]
  BY DEF TypeOK, SavePost
<1>4. \A u \in Tabs : tab'[u].newest # None =>
           LET q == tab'[u].newest IN call'[q].step # "free" /\ call'[q].tab = u /\ call'[q].kind = "analysis"
  BY DEF TypeOK, SavePost
<1>5. \A q \in Calls : CallShape(q)'
  BY DEF ShapeInv, CallShape, SavePost
<1>6. \A u \in Tabs : TabShape(u)'
  BY DEF ShapeInv, TabShape, SavePost
<1> QED
  BY <1>1, <1>2, <1>3, <1>4, <1>5, <1>6 DEF TypeOK, ShapeInv

LEMMA StorePreviewType ==
    ASSUME TypeOK, ShapeInv, NEW c \in Calls, StorePreview(c)
    PROVE  TypeOK' /\ ShapeInv'
<1> USE TextsAssumption DEF history, Free, Idle
<1>1. disk' \in [Posts -> Texts] /\ previews' \in [Addresses -> Results \cup {None}]
      /\ hasty' \in BOOLEAN /\ shared' \in BOOLEAN
      /\ budget' \in [{"opens", "edits", "saves", "faults"} -> Nat]
  BY DEF TypeOK, ShapeInv, CallShape, Results, StorePreview
<1>2. call' \in [Calls -> CallType]
  <2> DEFINE next == [call[c] EXCEPT !.step = "stored"]
  <2>1. call[c] \in CallType /\ call' = [call EXCEPT ![c] = next]
    BY DEF TypeOK, StorePreview
  <2>2. next \in CallType
    BY <2>1 DEF CallType
  <2> HIDE DEF next
  <2> QED
    BY <2>1, <2>2 DEF TypeOK
<1>3. tab' \in [Tabs -> TabType]
  BY DEF TypeOK, StorePreview
<1>4. \A u \in Tabs : tab'[u].newest # None =>
           LET q == tab'[u].newest IN call'[q].step # "free" /\ call'[q].tab = u /\ call'[q].kind = "analysis"
  BY DEF TypeOK, StorePreview
<1>5. \A q \in Calls : CallShape(q)'
  BY DEF ShapeInv, CallShape, StorePreview
<1>6. \A u \in Tabs : TabShape(u)'
  BY DEF ShapeInv, TabShape, StorePreview
<1> QED
  BY <1>1, <1>2, <1>3, <1>4, <1>5, <1>6 DEF TypeOK, ShapeInv

LEMMA RefusePreviewType ==
    ASSUME TypeOK, ShapeInv, NEW c \in Calls, RefusePreview(c)
    PROVE  TypeOK' /\ ShapeInv'
<1> USE TextsAssumption DEF history, Free, Idle
<1>1. disk' \in [Posts -> Texts] /\ previews' \in [Addresses -> Results \cup {None}]
      /\ hasty' \in BOOLEAN /\ shared' \in BOOLEAN
      /\ budget' \in [{"opens", "edits", "saves", "faults"} -> Nat]
  BY DEF TypeOK, RefusePreview
<1>2. call' \in [Calls -> CallType]
  <2> DEFINE next == [call[c] EXCEPT !.step = "failed"]
  <2>1. call[c] \in CallType /\ call' = [call EXCEPT ![c] = next]
    BY DEF TypeOK, RefusePreview
  <2>2. next \in CallType
    BY <2>1 DEF CallType
  <2> HIDE DEF next
  <2> QED
    BY <2>1, <2>2 DEF TypeOK
<1>3. tab' \in [Tabs -> TabType]
  BY DEF TypeOK, RefusePreview
<1>4. \A u \in Tabs : tab'[u].newest # None =>
           LET q == tab'[u].newest IN call'[q].step # "free" /\ call'[q].tab = u /\ call'[q].kind = "analysis"
  BY DEF TypeOK, RefusePreview
<1>5. \A q \in Calls : CallShape(q)'
  BY DEF ShapeInv, CallShape, RefusePreview
<1>6. \A u \in Tabs : TabShape(u)'
  BY DEF ShapeInv, TabShape, RefusePreview
<1> QED
  BY <1>1, <1>2, <1>3, <1>4, <1>5, <1>6 DEF TypeOK, ShapeInv

LEMMA BroadcastType ==
    ASSUME TypeOK, ShapeInv, NEW c \in Calls, Broadcast(c)
    PROVE  TypeOK' /\ ShapeInv'
<1> USE TextsAssumption DEF history, Free, Idle
<1>1. disk' \in [Posts -> Texts] /\ previews' \in [Addresses -> Results \cup {None}]
      /\ hasty' \in BOOLEAN /\ shared' \in BOOLEAN
      /\ budget' \in [{"opens", "edits", "saves", "faults"} -> Nat]
  BY DEF TypeOK, Broadcast
<1>2. call' \in [Calls -> CallType]
  BY DEF TypeOK, CallType, FreeCall, Broadcast
<1>3. tab' \in [Tabs -> TabType]
  <2> DEFINE event == [post |-> call[c].post, address |-> Address(call[c].text)]
             next(u) == IF tab[u].streaming THEN [tab[u] EXCEPT !.events = Append(@, event)]
                        ELSE [tab[u] EXCEPT !.missed = @ \/ Shows(u, event.address)]
  <2>1. event \in Events
    BY DEF ShapeInv, CallShape, Events, Addresses, Broadcast
  <2>2. ASSUME NEW u \in Tabs PROVE next(u) \in TabType
    <3>1. tab[u] \in TabType
      BY DEF TypeOK
    <3>2. CASE tab[u].streaming
      <4> HIDE DEF event
      <4>1. Append(tab[u].events, event) \in Seq(Events)
        BY <2>1, <3>1 DEF TabType
      <4> QED
        BY <3>1, <3>2, <4>1 DEF TabType
    <3>3. CASE ~tab[u].streaming
      <4> DEFINE missed == tab[u].missed \/ Shows(u, event.address)
      <4>1. missed \in BOOLEAN
        BY <3>1 DEF TabType
      <4> HIDE DEF missed
      <4>2. [tab[u] EXCEPT !.missed = missed] \in TabType
        BY <3>1, <4>1 DEF TabType
      <4> QED
        BY <3>3, <4>2 DEF missed
    <3> QED
      BY <3>2, <3>3
  <2>3. tab' = [u \in Tabs |-> next(u)]
    BY DEF Broadcast
  <2> HIDE DEF next
  <2> QED
    BY <2>2, <2>3
<1>4. \A u \in Tabs : tab'[u].newest # None =>
           LET q == tab'[u].newest IN call'[q].step # "free" /\ call'[q].tab = u /\ call'[q].kind = "analysis"
  BY DEF TypeOK, Broadcast
<1>5. \A q \in Calls : CallShape(q)'
  BY DEF ShapeInv, CallShape, FreeCall, Broadcast
<1>6. \A u \in Tabs : TabShape(u)'
  BY DEF ShapeInv, TabShape, Broadcast
<1> QED
  BY <1>1, <1>2, <1>3, <1>4, <1>5, <1>6 DEF TypeOK, ShapeInv

LEMMA MountEditorType ==
    ASSUME TypeOK, ShapeInv, NEW c \in Calls, MountEditor(c)
    PROVE  TypeOK' /\ ShapeInv'
<1> USE TextsAssumption DEF history, Free, Idle
<1> DEFINE t == call[c].tab
           text == call[c].text
           preview == Request(t, "preview", tab[t].post, text)
           analysis == Request(t, "analysis", tab[t].post, text)
<1>1. /\ t \in Tabs /\ tab[t] \in TabType /\ tab[t].post \in Posts /\ text \in Texts
      /\ call[c].step = "answered" /\ call[c].kind = "open"
  BY DEF TypeOK, ShapeInv, CallShape, TabType, MountEditor
<1>2. PICK d \in Calls :
      /\ call[d].step = "free"
      /\ call' = [call EXCEPT ![c] = preview, ![d] = analysis]
      /\ tab' = [tab EXCEPT ![t] = [@ EXCEPT !.buffer = text, !.saved = text,
                                              !.host = "editor", !.newest = d]]
  BY DEF MountEditor
<1> DEFINE next == [tab[t] EXCEPT !.buffer = text, !.saved = text, !.host = "editor", !.newest = d]
<1>3. UNCHANGED <<disk, previews, hasty, shared, budget>>
  BY DEF MountEditor
<1>4. /\ preview \in CallType /\ analysis \in CallType
      /\ preview.step = "sent" /\ preview.tab = t /\ preview.kind = "preview"
      /\ preview.post = tab[t].post /\ preview.text = text
      /\ analysis.step = "sent" /\ analysis.tab = t /\ analysis.kind = "analysis"
      /\ analysis.post = tab[t].post /\ analysis.text = text
  BY <1>1 DEF CallType, Request
<1>5. next \in TabType
  BY <1>1 DEF TabType
<1>6. tab' = [tab EXCEPT ![t] = next] /\ tab' \in [Tabs -> TabType]
  <2> HIDE DEF next
  <2> QED
    BY <1>2, <1>5 DEF TypeOK, next
<1> HIDE DEF preview, analysis
<1>7. call' \in [Calls -> CallType]
  BY <1>2, <1>4 DEF TypeOK
<1>8. /\ d # c /\ call'[c] = preview /\ call'[d] = analysis
      /\ \A q \in Calls \ {c, d} : call'[q] = call[q]
  BY <1>1, <1>2 DEF TypeOK
<1>9. /\ tab'[t].newest = d /\ tab'[t].post = tab[t].post /\ tab'[t].buffer = text
      /\ \A u \in Tabs \ {t} : tab'[u] = tab[u]
  BY <1>1, <1>6 DEF TypeOK, TabType
<1>10. TypeOK'
  <2>1. ASSUME NEW u \in Tabs, tab'[u].newest # None
        PROVE  LET q == tab'[u].newest
               IN call'[q].step # "free" /\ call'[q].tab = u /\ call'[q].kind = "analysis"
    <3>1. CASE u = t
      BY <1>4, <1>8, <1>9, <3>1
    <3>2. CASE u # t
      <4>1. tab'[u] = tab[u] /\ tab[u].newest \in Calls
        BY <1>9, <2>1, <3>2 DEF TypeOK, TabType
      <4> DEFINE q == tab[u].newest
      <4>2. call[q].step # "free" /\ call[q].tab = u /\ call[q].kind = "analysis"
        BY <2>1, <4>1 DEF TypeOK
      <4>3. q # c /\ q # d
        BY <1>1, <1>2, <4>2
      <4>4. call'[q] = call[q]
        BY <1>8, <4>1, <4>3
      <4> QED
        BY <4>1, <4>2, <4>4
    <3> QED
      BY <3>1, <3>2
  <2> QED
    BY <1>3, <1>7, <1>6, <2>1 DEF TypeOK
<1>11. \A q \in Calls : CallShape(q)'
  <2>1. t \in Tabs /\ tab'[t].post = tab[t].post /\ tab[t].post # None
    BY <1>1, <1>9
  <2>2. CallShape(c)' /\ CallShape(d)'
    BY <1>1, <1>4, <1>8, <2>1 DEF CallShape
  <2>3. ASSUME NEW q \in Calls \ {c, d} PROVE CallShape(q)'
    <3>1. call'[q] = call[q] /\ CallShape(q)
      BY <1>8 DEF ShapeInv
    <3>2. \A u \in Tabs : tab'[u].post = tab[u].post
      BY <1>9
    <3> QED
      BY <3>1, <3>2 DEF CallShape
  <2> QED
    BY <2>2, <2>3
<1>12. \A u \in Tabs : TabShape(u)'
  BY <1>1, <1>9 DEF ShapeInv, TabShape
<1> QED
  BY <1>10, <1>11, <1>12 DEF ShapeInv

LEMMA OpenFailedType ==
    ASSUME TypeOK, ShapeInv, NEW c \in Calls, OpenFailed(c)
    PROVE  TypeOK' /\ ShapeInv'
<1> USE TextsAssumption DEF history, Free, Idle
<1> DEFINE t == call[c].tab
           next == [tab[t] EXCEPT !.host = "error"]
<1>1. /\ t \in Tabs /\ DOMAIN tab = Tabs /\ tab' = [tab EXCEPT ![t] = next] /\ next \in TabType
      /\ call[c] \in CallType /\ tab[t] \in TabType
  <2>1. t \in Tabs /\ tab[t] \in TabType /\ call[c] \in CallType
    BY DEF TypeOK, ShapeInv, CallShape, OpenFailed
  <2>2. call[c].text \in Texts \cup {None} /\ call[c].post \in Posts /\ (call[c].kind = "analysis" => call[c].text \in Texts)
    BY <2>1 DEF ShapeInv, CallShape, CallType, OpenFailed
  <2>3. CASE call[c].kind # "analysis"
    BY <2>1, <2>2, <2>3 DEF TypeOK, TabType, Results, OpenFailed
  <2>4. CASE call[c].kind = "analysis"
    BY <2>1, <2>2, <2>4 DEF OpenFailed
  <2> QED
    BY <2>3, <2>4
<1>2. disk' \in [Posts -> Texts] /\ previews' \in [Addresses -> Results \cup {None}]
      /\ hasty' \in BOOLEAN /\ shared' \in BOOLEAN
      /\ budget' \in [{"opens", "edits", "saves", "faults"} -> Nat]
  BY DEF TypeOK, OpenFailed
<1>3. call' \in [Calls -> CallType]
  BY DEF TypeOK, CallType, FreeCall, OpenFailed
<1>4. tab' \in [Tabs -> TabType]
  BY <1>1 DEF TypeOK
<1>5. \A u \in Tabs : tab'[u].newest # None =>
           LET q == tab'[u].newest IN call'[q].step # "free" /\ call'[q].tab = u /\ call'[q].kind = "analysis"
  <2>1. \A u \in Tabs : tab'[u].newest = tab[u].newest
    BY <1>1 DEF TabType
  <2>2. call'[c].step = "free" /\ (\A q \in Calls \ {c} : call'[q] = call[q]) /\ call[c].kind # "analysis"
    BY DEF TypeOK, OpenFailed, FreeCall
  <2> QED
    BY <2>1, <2>2 DEF TypeOK, TabType
<1>6. \A q \in Calls : CallShape(q)'
  BY <1>1 DEF ShapeInv, CallShape, FreeCall, OpenFailed
<1>7. \A u \in Tabs : TabShape(u)'
  BY <1>1 DEF ShapeInv, TabShape
<1> QED
  BY <1>2, <1>3, <1>4, <1>5, <1>6, <1>7 DEF TypeOK, ShapeInv

LEMMA SavedType ==
    ASSUME TypeOK, ShapeInv, NEW c \in Calls, Saved(c)
    PROVE  TypeOK' /\ ShapeInv'
<1> USE TextsAssumption DEF history, Free, Idle
<1> DEFINE t == call[c].tab
           next == [tab[t] EXCEPT !.saved = call[c].text]
<1>1. /\ t \in Tabs /\ DOMAIN tab = Tabs /\ tab' = [tab EXCEPT ![t] = next] /\ next \in TabType
      /\ call[c] \in CallType /\ tab[t] \in TabType
  <2>1. t \in Tabs /\ tab[t] \in TabType /\ call[c] \in CallType
    BY DEF TypeOK, ShapeInv, CallShape, Saved
  <2>2. call[c].text \in Texts \cup {None} /\ call[c].post \in Posts /\ (call[c].kind = "analysis" => call[c].text \in Texts)
    BY <2>1 DEF ShapeInv, CallShape, Saved
  <2>3. CASE call[c].kind # "analysis"
    BY <2>1, <2>2, <2>3 DEF TypeOK, TabType, Results, Saved
  <2>4. CASE call[c].kind = "analysis"
    BY <2>1, <2>2, <2>4 DEF Saved
  <2> QED
    BY <2>3, <2>4
<1>2. disk' \in [Posts -> Texts] /\ previews' \in [Addresses -> Results \cup {None}]
      /\ hasty' \in BOOLEAN /\ shared' \in BOOLEAN
      /\ budget' \in [{"opens", "edits", "saves", "faults"} -> Nat]
  BY DEF TypeOK, Saved
<1>3. call' \in [Calls -> CallType]
  BY DEF TypeOK, CallType, FreeCall, Saved
<1>4. tab' \in [Tabs -> TabType]
  BY <1>1 DEF TypeOK
<1>5. \A u \in Tabs : tab'[u].newest # None =>
           LET q == tab'[u].newest IN call'[q].step # "free" /\ call'[q].tab = u /\ call'[q].kind = "analysis"
  <2>1. \A u \in Tabs : tab'[u].newest = tab[u].newest
    BY <1>1 DEF TabType
  <2>2. call'[c].step = "free" /\ (\A q \in Calls \ {c} : call'[q] = call[q]) /\ call[c].kind # "analysis"
    BY DEF TypeOK, Saved, FreeCall
  <2> QED
    BY <2>1, <2>2 DEF TypeOK, TabType
<1>6. \A q \in Calls : CallShape(q)'
  BY <1>1 DEF ShapeInv, CallShape, FreeCall, Saved
<1>7. \A u \in Tabs : TabShape(u)'
  BY <1>1 DEF ShapeInv, TabShape
<1> QED
  BY <1>2, <1>3, <1>4, <1>5, <1>6, <1>7 DEF TypeOK, ShapeInv

LEMMA RequestFailedType ==
    ASSUME TypeOK, ShapeInv, NEW c \in Calls, RequestFailed(c)
    PROVE  TypeOK' /\ ShapeInv'
<1> USE TextsAssumption DEF history, Free, Idle
<1>1. disk' \in [Posts -> Texts] /\ previews' \in [Addresses -> Results \cup {None}]
      /\ hasty' \in BOOLEAN /\ shared' \in BOOLEAN
      /\ budget' \in [{"opens", "edits", "saves", "faults"} -> Nat]
  BY DEF TypeOK, RequestFailed
<1>2. call' \in [Calls -> CallType]
  BY DEF TypeOK, CallType, FreeCall, RequestFailed
<1>3. tab' \in [Tabs -> TabType]
  BY DEF TypeOK, RequestFailed
<1>4. \A u \in Tabs : tab'[u].newest # None =>
           LET q == tab'[u].newest IN call'[q].step # "free" /\ call'[q].tab = u /\ call'[q].kind = "analysis"
  BY DEF TypeOK, RequestFailed
<1>5. \A q \in Calls : CallShape(q)'
  BY DEF ShapeInv, CallShape, FreeCall, RequestFailed
<1>6. \A u \in Tabs : TabShape(u)'
  BY DEF ShapeInv, TabShape, RequestFailed
<1> QED
  BY <1>1, <1>2, <1>3, <1>4, <1>5, <1>6 DEF TypeOK, ShapeInv

LEMMA AnswerAnalysisType ==
    ASSUME TypeOK, ShapeInv, NEW c \in Calls, AnswerAnalysis(c)
    PROVE  TypeOK' /\ ShapeInv'
<1> USE TextsAssumption DEF history, Free, Idle
<1> DEFINE t == call[c].tab
           newest == IF tab[t].newest = c THEN None ELSE tab[t].newest
           findings == IF tab[t].newest = c /\ call[c].post = tab[t].post
                       THEN [post |-> call[c].post, text |-> call[c].text] ELSE tab[t].findings
           next == [tab[t] EXCEPT !.newest = newest, !.findings = findings]
<1>1. /\ t \in Tabs /\ tab[t] \in TabType /\ call[c].kind = "analysis" /\ call[c].step # "free"
      /\ call[c].text \in Texts /\ call[c].post \in Posts
  BY DEF TypeOK, ShapeInv, CallShape, AnswerAnalysis
<1>2. /\ UNCHANGED <<disk, previews, hasty, shared, budget>>
      /\ call' = [call EXCEPT ![c] = FreeCall]
  BY DEF AnswerAnalysis
<1>3. tab' = [tab EXCEPT ![t] = next]
  BY DEF AnswerAnalysis
<1>4. newest \in Calls \cup {None} /\ findings \in Results \cup {None}
  BY <1>1 DEF TabType, Results
<1>5. next \in TabType /\ next.newest = newest /\ next.post = tab[t].post /\ next.buffer = tab[t].buffer
      /\ next.host = tab[t].host /\ next.previewDue = tab[t].previewDue /\ next.analysisDue = tab[t].analysisDue
  <2> HIDE DEF newest, findings
  <2> QED
    BY <1>1, <1>4 DEF TabType
<1> HIDE DEF next
<1>6. tab' \in [Tabs -> TabType] /\ tab'[t] = next /\ \A u \in Tabs \ {t} : tab'[u] = tab[u]
  BY <1>1, <1>3, <1>5 DEF TypeOK
<1>7. call' \in [Calls -> CallType] /\ call'[c].step = "free" /\ \A q \in Calls \ {c} : call'[q] = call[q]
  BY <1>2 DEF TypeOK, CallType, FreeCall
<1>8. \A u \in Tabs : tab'[u].newest # None => tab'[u].newest = tab[u].newest /\ tab[u].newest # c
  BY <1>1, <1>5, <1>6 DEF TypeOK
<1>9. TypeOK'
  BY <1>2, <1>6, <1>7, <1>8 DEF TypeOK, TabType
<1>10. \A q \in Calls : CallShape(q)'
  BY <1>5, <1>6, <1>7 DEF ShapeInv, CallShape
<1>11. \A u \in Tabs : TabShape(u)'
  BY <1>5, <1>6 DEF ShapeInv, TabShape
<1> QED
  BY <1>9, <1>10, <1>11 DEF ShapeInv

LEMMA RefuseType ==
    ASSUME TypeOK, ShapeInv, NEW c \in Calls, Refuse(c)
    PROVE  TypeOK' /\ ShapeInv'
<1> USE TextsAssumption DEF history, Free, Idle
<1>1. disk' \in [Posts -> Texts] /\ previews' \in [Addresses -> Results \cup {None}]
      /\ hasty' \in BOOLEAN /\ shared' \in BOOLEAN
      /\ budget' \in [{"opens", "edits", "saves", "faults"} -> Nat]
  BY DEF TypeOK, Spend, Refuse
<1>2. call' \in [Calls -> CallType]
  <2> DEFINE next == [call[c] EXCEPT !.step = "failed"]
  <2>1. call[c] \in CallType /\ call' = [call EXCEPT ![c] = next]
    BY DEF TypeOK, Refuse
  <2>2. next \in CallType
    BY <2>1 DEF CallType
  <2> HIDE DEF next
  <2> QED
    BY <2>1, <2>2 DEF TypeOK
<1>3. tab' \in [Tabs -> TabType]
  BY DEF TypeOK, Refuse
<1>4. \A u \in Tabs : tab'[u].newest # None =>
           LET q == tab'[u].newest IN call'[q].step # "free" /\ call'[q].tab = u /\ call'[q].kind = "analysis"
  BY DEF TypeOK, Refuse
<1>5. \A q \in Calls : CallShape(q)'
  BY DEF ShapeInv, CallShape, Refuse
<1>6. \A u \in Tabs : TabShape(u)'
  BY DEF ShapeInv, TabShape, Refuse
<1> QED
  BY <1>1, <1>2, <1>3, <1>4, <1>5, <1>6 DEF TypeOK, ShapeInv

LEMMA TypeStep ==
    ASSUME TypeOK, ShapeInv, Next
    PROVE  TypeOK' /\ ShapeInv'
<1>1. ASSUME NEW t \in Tabs, NEW p \in Posts, OpenPost(t, p)
      PROVE  TypeOK' /\ ShapeInv'
  BY <1>1, OpenPostType
<1>2. ASSUME NEW t \in Tabs, NEW text \in Texts, Type(t, text)
      PROVE  TypeOK' /\ ShapeInv'
  BY <1>2, TypeType
<1>3. ASSUME NEW t \in Tabs, Save(t)
      PROVE  TypeOK' /\ ShapeInv'
  BY <1>3, SaveType
<1>4. ASSUME NEW t \in Tabs, PreviewTimer(t)
      PROVE  TypeOK' /\ ShapeInv'
  BY <1>4, PreviewTimerType
<1>5. ASSUME NEW t \in Tabs, AnalysisTimer(t)
      PROVE  TypeOK' /\ ShapeInv'
  BY <1>5, AnalysisTimerType
<1>6. ASSUME NEW t \in Tabs, OnPreview(t)
      PROVE  TypeOK' /\ ShapeInv'
  BY <1>6, OnPreviewType
<1>7. ASSUME NEW t \in Tabs, LoadPane(t)
      PROVE  TypeOK' /\ ShapeInv'
  BY <1>7, LoadPaneType
<1>8. ASSUME NEW t \in Tabs, Reconnect(t)
      PROVE  TypeOK' /\ ShapeInv'
  BY <1>8, ReconnectType
<1>9. ASSUME NEW t \in Tabs, DropStream(t)
      PROVE  TypeOK' /\ ShapeInv'
  BY <1>9, DropStreamType
<1>10. ASSUME NEW c \in Calls, ReadPost(c)
      PROVE  TypeOK' /\ ShapeInv'
  BY <1>10, ReadPostType
<1>11. ASSUME NEW c \in Calls, SavePost(c)
      PROVE  TypeOK' /\ ShapeInv'
  BY <1>11, SavePostType
<1>12. ASSUME NEW c \in Calls, StorePreview(c)
      PROVE  TypeOK' /\ ShapeInv'
  BY <1>12, StorePreviewType
<1>13. ASSUME NEW c \in Calls, RefusePreview(c)
      PROVE  TypeOK' /\ ShapeInv'
  BY <1>13, RefusePreviewType
<1>14. ASSUME NEW c \in Calls, Broadcast(c)
      PROVE  TypeOK' /\ ShapeInv'
  BY <1>14, BroadcastType
<1>15. ASSUME NEW c \in Calls, MountEditor(c)
      PROVE  TypeOK' /\ ShapeInv'
  BY <1>15, MountEditorType
<1>16. ASSUME NEW c \in Calls, OpenFailed(c)
      PROVE  TypeOK' /\ ShapeInv'
  BY <1>16, OpenFailedType
<1>17. ASSUME NEW c \in Calls, Saved(c)
      PROVE  TypeOK' /\ ShapeInv'
  BY <1>17, SavedType
<1>18. ASSUME NEW c \in Calls, RequestFailed(c)
      PROVE  TypeOK' /\ ShapeInv'
  BY <1>18, RequestFailedType
<1>19. ASSUME NEW c \in Calls, AnswerAnalysis(c)
      PROVE  TypeOK' /\ ShapeInv'
  BY <1>19, AnswerAnalysisType
<1>20. ASSUME NEW c \in Calls, Refuse(c)
      PROVE  TypeOK' /\ ShapeInv'
  BY <1>20, RefuseType
<1> QED
  BY <1>1, <1>2, <1>3, <1>4, <1>5, <1>6, <1>7, <1>8, <1>9, <1>10, <1>11, <1>12, <1>13, <1>14, <1>15, <1>16, <1>17, <1>18, <1>19, <1>20 DEF Next, Author, TabStep, CallStep

-----------------------------------------------------------------------------
\* What the findings depend on.
LEMMA FindingsFrame ==
    ASSUME TypeOK, ShapeInv, NEW u \in Tabs, FindingsInv(u),
           tab'[u].host = tab[u].host, tab'[u].post = tab[u].post,
           tab'[u].buffer = tab[u].buffer, tab'[u].analysisDue = tab[u].analysisDue,
           tab'[u].newest = tab[u].newest, tab'[u].findings = tab[u].findings,
           \A q \in Calls :
             ~Free(q) /\ call[q].tab = u /\ call[q].kind \in {"open", "analysis"} =>
               call'[q].step # "free" /\ call'[q].tab = u /\ call'[q].kind = call[q].kind
               /\ (call[q].kind = "analysis" => call'[q].post = call[q].post /\ call'[q].text = call[q].text)
    PROVE  FindingsInv(u)'
<1>1. tab[u].newest # None => tab[u].newest \in Calls
  BY DEF TypeOK, TabType
<1> QED
  BY <1>1 DEF FindingsInv, InFlight, Free, TypeOK

LEMMA FindingsStep ==
    ASSUME TypeOK, ShapeInv, \A t \in Tabs : FindingsInv(t), Next
    PROVE  \A u \in Tabs : FindingsInv(u)'
<1> USE TextsAssumption DEF history, Free, Idle, InFlight
<1>1. ASSUME NEW t \in Tabs, NEW p \in Posts, OpenPost(t, p)
      PROVE  \A u \in Tabs : FindingsInv(u)'
  BY <1>1 DEF OpenPost, FindingsInv, TypeOK, CallShape
<1>2. ASSUME NEW t \in Tabs, NEW text \in Texts, Type(t, text)
      PROVE  \A u \in Tabs : FindingsInv(u)'
  BY <1>2 DEF Type, FindingsInv
<1>3. ASSUME NEW t \in Tabs, Save(t)
      PROVE  \A u \in Tabs : FindingsInv(u)'
  <2>1. PICK d \in Idle : call' = [call EXCEPT ![d] = Request(t, "save", tab[t].post, tab[t].buffer)]
    BY <1>3 DEF Save
  <2>2. \A q \in Calls \ {d} : call'[q] = call[q]
    BY <2>1 DEF TypeOK
  <2> QED
    BY <1>3, <2>1, <2>2, FindingsFrame DEF Save
<1>4. ASSUME NEW t \in Tabs, PreviewTimer(t)
      PROVE  \A u \in Tabs : FindingsInv(u)'
  BY <1>4 DEF PreviewTimer, FindingsInv, TypeOK
<1>5. ASSUME NEW t \in Tabs, AnalysisTimer(t)
      PROVE  \A u \in Tabs : FindingsInv(u)'
  <2> DEFINE text == tab[t].buffer
             asked == Request(t, "analysis", tab[t].post, text)
  <2>1. PICK d \in Idle :
          /\ call' = [call EXCEPT ![d] = asked]
          /\ tab' = [tab EXCEPT ![t] = [@ EXCEPT !.analysisDue = FALSE, !.newest = d]]
    BY <1>5 DEF AnalysisTimer
  <2>2. /\ d \in Calls /\ call'[d] = asked /\ \A q \in Calls \ {d} : call'[q] = call[q]
    BY <2>1 DEF TypeOK
  <2>3. /\ tab'[t].newest = d /\ tab'[t].post = tab[t].post /\ tab'[t].buffer = tab[t].buffer
        /\ \A u \in Tabs \ {t} : tab'[u] = tab[u]
    BY <2>1 DEF TypeOK, TabType
  <2>4. FindingsInv(t)'
    BY <2>2, <2>3 DEF FindingsInv, Request
  <2>5. ASSUME NEW u \in Tabs \ {t} PROVE FindingsInv(u)'
    BY <2>1, <2>2, <2>3, FindingsFrame
  <2> QED
    BY <2>4, <2>5
<1>6. ASSUME NEW t \in Tabs, OnPreview(t)
      PROVE  \A u \in Tabs : FindingsInv(u)'
  <2>1. /\ tab'[t].host = tab[t].host /\ tab'[t].post = tab[t].post
        /\ tab'[t].buffer = tab[t].buffer /\ tab'[t].analysisDue = tab[t].analysisDue
        /\ tab'[t].newest = tab[t].newest /\ tab'[t].findings = tab[t].findings
        /\ call' = call /\ \A u \in Tabs \ {t} : tab'[u] = tab[u]
    BY <1>6 DEF OnPreview, Heed
  <2> QED
    BY <2>1, FindingsFrame
<1>7. ASSUME NEW t \in Tabs, LoadPane(t)
      PROVE  \A u \in Tabs : FindingsInv(u)'
  BY <1>7 DEF LoadPane, FindingsInv, CallShape
<1>8. ASSUME NEW t \in Tabs, Reconnect(t)
      PROVE  \A u \in Tabs : FindingsInv(u)'
  BY <1>8 DEF Reconnect, FindingsInv, TabShape
<1>9. ASSUME NEW t \in Tabs, DropStream(t)
      PROVE  \A u \in Tabs : FindingsInv(u)'
  BY <1>9 DEF DropStream, FindingsInv, CallShape
<1>10. ASSUME NEW c \in Calls, ReadPost(c)
      PROVE  \A u \in Tabs : FindingsInv(u)'
  BY <1>10 DEF ReadPost, FindingsInv, TypeOK
<1>11. ASSUME NEW c \in Calls, SavePost(c)
      PROVE  \A u \in Tabs : FindingsInv(u)'
  BY <1>11 DEF SavePost, FindingsInv
<1>12. ASSUME NEW c \in Calls, StorePreview(c)
      PROVE  \A u \in Tabs : FindingsInv(u)'
  BY <1>12 DEF StorePreview, FindingsInv
<1>13. ASSUME NEW c \in Calls, RefusePreview(c)
      PROVE  \A u \in Tabs : FindingsInv(u)'
  BY <1>13 DEF RefusePreview, FindingsInv
<1>14. ASSUME NEW c \in Calls, Broadcast(c)
      PROVE  \A u \in Tabs : FindingsInv(u)'
  <2>1. ASSUME NEW u \in Tabs
        PROVE  /\ tab'[u].host = tab[u].host /\ tab'[u].post = tab[u].post
               /\ tab'[u].buffer = tab[u].buffer /\ tab'[u].analysisDue = tab[u].analysisDue
               /\ tab'[u].newest = tab[u].newest /\ tab'[u].findings = tab[u].findings
    BY <1>14 DEF Broadcast
  <2>2. call[c].kind = "preview" /\ \A q \in Calls \ {c} : call'[q] = call[q]
    BY <1>14 DEF Broadcast, TypeOK
  <2> QED
    BY <2>1, <2>2, FindingsFrame
<1>15. ASSUME NEW c \in Calls, MountEditor(c)
      PROVE  \A u \in Tabs : FindingsInv(u)'
  <2>1. PICK t \in Tabs : t = call[c].tab /\ call[c].kind = "open" /\ ~Free(c)
    BY <1>15 DEF MountEditor, ShapeInv, CallShape
  <2>2. PICK d \in Idle :
          /\ call' = [call EXCEPT ![c] = Request(t, "preview", tab[t].post, call[c].text),
                                  ![d] = Request(t, "analysis", tab[t].post, call[c].text)]
          /\ tab' = [tab EXCEPT ![t] = [@ EXCEPT !.buffer = call[c].text, !.saved = call[c].text,
                                                  !.host = "editor", !.newest = d]]
    BY <1>15, <2>1 DEF MountEditor
  <2>3. /\ d \in Calls /\ d # None
        /\ call'[d].post = tab[t].post /\ call'[d].text = call[c].text
        /\ \A q \in Calls \ {c, d} : call'[q] = call[q]
    BY <2>1, <2>2 DEF TypeOK, Request
  <2>4. /\ tab'[t].newest = d /\ tab'[t].post = tab[t].post /\ tab'[t].buffer = call[c].text
        /\ \A u \in Tabs \ {t} : tab'[u] = tab[u]
    BY <2>1, <2>2 DEF TypeOK, TabType
  <2>5. FindingsInv(t)'
    BY <2>3, <2>4 DEF FindingsInv
  <2>6. ASSUME NEW u \in Tabs \ {t} PROVE FindingsInv(u)'
    <3>1. \A q \in Calls : ~Free(q) /\ call[q].tab = u => call'[q] = call[q]
      BY <2>1, <2>2, <2>3
    <3> QED
      BY <2>4, <3>1, FindingsFrame
  <2> QED
    BY <2>5, <2>6
<1>16. ASSUME NEW c \in Calls, OpenFailed(c)
      PROVE  \A u \in Tabs : FindingsInv(u)'
  BY <1>16 DEF OpenFailed, FindingsInv, TypeOK, CallShape
<1>17. ASSUME NEW c \in Calls, Saved(c)
      PROVE  \A u \in Tabs : FindingsInv(u)'
  BY <1>17 DEF Saved, FindingsInv, TypeOK
<1>18. ASSUME NEW c \in Calls, RequestFailed(c)
      PROVE  \A u \in Tabs : FindingsInv(u)'
  BY <1>18 DEF RequestFailed, FindingsInv, TypeOK
<1>19. ASSUME NEW c \in Calls, AnswerAnalysis(c)
      PROVE  \A u \in Tabs : FindingsInv(u)'
  BY <1>19 DEF AnswerAnalysis, FindingsInv, TypeOK, ShapeInv, CallShape, TabShape, CallType, TabType, Request, FreeCall
<1>20. ASSUME NEW c \in Calls, Refuse(c)
      PROVE  \A u \in Tabs : FindingsInv(u)'
  BY <1>20 DEF Refuse, FindingsInv
<1> QED
  BY <1>1, <1>2, <1>3, <1>4, <1>5, <1>6, <1>7, <1>8, <1>9, <1>10, <1>11, <1>12, <1>13, <1>14, <1>15, <1>16, <1>17, <1>18, <1>19, <1>20 DEF Next, Author, TabStep, CallStep

-----------------------------------------------------------------------------
LEMMA StoreStep ==
    ASSUME TypeOK, ShapeInv, StoreInv, Next
    PROVE  StoreInv'
<1> USE TextsAssumption DEF history, Free, Idle, InFlight
<1>1. ASSUME NEW t \in Tabs, NEW p \in Posts, OpenPost(t, p)
      PROVE  StoreInv'
  BY <1>1 DEF OpenPost, StoreInv
<1>2. ASSUME NEW t \in Tabs, NEW text \in Texts, Type(t, text)
      PROVE  StoreInv'
  BY <1>2 DEF Type, StoreInv
<1>3. ASSUME NEW t \in Tabs, Save(t)
      PROVE  StoreInv'
  BY <1>3 DEF Save, StoreInv
<1>4. ASSUME NEW t \in Tabs, PreviewTimer(t)
      PROVE  StoreInv'
  BY <1>4 DEF PreviewTimer, StoreInv
<1>5. ASSUME NEW t \in Tabs, AnalysisTimer(t)
      PROVE  StoreInv'
  BY <1>5 DEF AnalysisTimer, StoreInv
<1>6. ASSUME NEW t \in Tabs, OnPreview(t)
      PROVE  StoreInv'
  BY <1>6 DEF OnPreview, StoreInv, Heed
<1>7. ASSUME NEW t \in Tabs, LoadPane(t)
      PROVE  StoreInv'
  BY <1>7 DEF LoadPane, StoreInv
<1>8. ASSUME NEW t \in Tabs, Reconnect(t)
      PROVE  StoreInv'
  BY <1>8 DEF Reconnect, StoreInv
<1>9. ASSUME NEW t \in Tabs, DropStream(t)
      PROVE  StoreInv'
  BY <1>9 DEF DropStream, StoreInv
<1>10. ASSUME NEW c \in Calls, ReadPost(c)
      PROVE  StoreInv'
  BY <1>10 DEF ReadPost, StoreInv
<1>11. ASSUME NEW c \in Calls, SavePost(c)
      PROVE  StoreInv'
  BY <1>11 DEF SavePost, StoreInv
<1>12. ASSUME NEW c \in Calls, StorePreview(c)
      PROVE  StoreInv'
  BY <1>12 DEF StorePreview, StoreInv
<1>13. ASSUME NEW c \in Calls, RefusePreview(c)
      PROVE  StoreInv'
  BY <1>13 DEF RefusePreview, StoreInv
<1>14. ASSUME NEW c \in Calls, Broadcast(c)
      PROVE  StoreInv'
  BY <1>14 DEF Broadcast, StoreInv
<1>15. ASSUME NEW c \in Calls, MountEditor(c)
      PROVE  StoreInv'
  BY <1>15 DEF MountEditor, StoreInv
<1>16. ASSUME NEW c \in Calls, OpenFailed(c)
      PROVE  StoreInv'
  BY <1>16 DEF OpenFailed, StoreInv
<1>17. ASSUME NEW c \in Calls, Saved(c)
      PROVE  StoreInv'
  BY <1>17 DEF Saved, StoreInv
<1>18. ASSUME NEW c \in Calls, RequestFailed(c)
      PROVE  StoreInv'
  BY <1>18 DEF RequestFailed, StoreInv
<1>19. ASSUME NEW c \in Calls, AnswerAnalysis(c)
      PROVE  StoreInv'
  BY <1>19 DEF AnswerAnalysis, StoreInv
<1>20. ASSUME NEW c \in Calls, Refuse(c)
      PROVE  StoreInv'
  BY <1>20 DEF Refuse, StoreInv
<1> QED
  BY <1>1, <1>2, <1>3, <1>4, <1>5, <1>6, <1>7, <1>8, <1>9, <1>10, <1>11, <1>12, <1>13, <1>14, <1>15, <1>16, <1>17, <1>18, <1>19, <1>20 DEF Next, Author, TabStep, CallStep

\* What a pane depends on.
LEMMA PaneFrame ==
    ASSUME NEW u \in Tabs, PaneInv(u), UNCHANGED previews,
           tab'[u].pane = tab[u].pane, tab'[u].loading = tab[u].loading,
           tab'[u].events = tab[u].events, tab[u].missed => tab'[u].missed,
           \A q \in Calls : call[q].step = "stored" =>
             call'[q].step = "stored" /\ call'[q].text = call[q].text
    PROVE  PaneInv(u)'
  BY DEF PaneInv

LEMMA PaneStep ==
    ASSUME TypeOK, ShapeInv, StoreInv, \A t \in Tabs : PaneInv(t), Next
    PROVE  \A u \in Tabs : PaneInv(u)'
<1> USE TextsAssumption DEF history, Free, Idle, InFlight
<1>1. ASSUME NEW t \in Tabs, NEW p \in Posts, OpenPost(t, p)
      PROVE  \A u \in Tabs : PaneInv(u)'
  <2>1. previews' = previews /\ \A u \in Tabs :
          /\ tab'[u].pane = tab[u].pane /\ tab'[u].loading = tab[u].loading
          /\ tab'[u].events = tab[u].events /\ tab'[u].missed = tab[u].missed
    BY <1>1 DEF OpenPost
  <2>2. \A q \in Calls : call[q].step = "stored" =>
          call'[q].step = "stored" /\ call'[q].text = call[q].text
    BY <1>1 DEF OpenPost
  <2> QED
    BY <2>1, <2>2, PaneFrame
<1>2. ASSUME NEW t \in Tabs, NEW text \in Texts, Type(t, text)
      PROVE  \A u \in Tabs : PaneInv(u)'
  <2>1. previews' = previews /\ \A u \in Tabs :
          /\ tab'[u].pane = tab[u].pane /\ tab'[u].loading = tab[u].loading
          /\ tab'[u].events = tab[u].events /\ tab'[u].missed = tab[u].missed
    BY <1>2 DEF Type
  <2>2. \A q \in Calls : call[q].step = "stored" =>
          call'[q].step = "stored" /\ call'[q].text = call[q].text
    BY <1>2 DEF Type
  <2> QED
    BY <2>1, <2>2, PaneFrame
<1>3. ASSUME NEW t \in Tabs, Save(t)
      PROVE  \A u \in Tabs : PaneInv(u)'
  <2>1. previews' = previews /\ \A u \in Tabs :
          /\ tab'[u].pane = tab[u].pane /\ tab'[u].loading = tab[u].loading
          /\ tab'[u].events = tab[u].events /\ tab'[u].missed = tab[u].missed
    BY <1>3 DEF Save
  <2>2. \A q \in Calls : call[q].step = "stored" =>
          call'[q].step = "stored" /\ call'[q].text = call[q].text
    BY <1>3 DEF Save
  <2> QED
    BY <2>1, <2>2, PaneFrame
<1>4. ASSUME NEW t \in Tabs, PreviewTimer(t)
      PROVE  \A u \in Tabs : PaneInv(u)'
  <2>1. previews' = previews /\ \A u \in Tabs :
          /\ tab'[u].pane = tab[u].pane /\ tab'[u].loading = tab[u].loading
          /\ tab'[u].events = tab[u].events /\ tab'[u].missed = tab[u].missed
    BY <1>4 DEF PreviewTimer
  <2>2. \A q \in Calls : call[q].step = "stored" =>
          call'[q].step = "stored" /\ call'[q].text = call[q].text
    BY <1>4 DEF PreviewTimer
  <2> QED
    BY <2>1, <2>2, PaneFrame
<1>5. ASSUME NEW t \in Tabs, AnalysisTimer(t)
      PROVE  \A u \in Tabs : PaneInv(u)'
  <2>1. previews' = previews /\ \A u \in Tabs :
          /\ tab'[u].pane = tab[u].pane /\ tab'[u].loading = tab[u].loading
          /\ tab'[u].events = tab[u].events /\ tab'[u].missed = tab[u].missed
    BY <1>5 DEF AnalysisTimer
  <2>2. \A q \in Calls : call[q].step = "stored" =>
          call'[q].step = "stored" /\ call'[q].text = call[q].text
    BY <1>5 DEF AnalysisTimer
  <2> QED
    BY <2>1, <2>2, PaneFrame
<1>6. ASSUME NEW t \in Tabs, OnPreview(t)
      PROVE  \A u \in Tabs : PaneInv(u)'
  <2> DEFINE event == Head(tab[t].events)
  <2>1. tab[t].events \in Seq(Events) /\ tab[t].events # <<>> /\ tab[t].missed \in BOOLEAN
    BY <1>6 DEF OnPreview, TypeOK, TabType
  <2>2. /\ tab'[t].pane = tab[t].pane /\ tab'[t].events = Tail(tab[t].events)
        /\ tab'[t].loading = IF event.post = tab[t].post THEN event.address ELSE tab[t].loading
        /\ tab'[t].missed = (tab[t].missed \/ (event.post # tab[t].post /\ Shows(t, event.address)))
    BY <1>6 DEF OnPreview, Heed, TypeOK
  <2>3. call' = call /\ previews' = previews /\ \A u \in Tabs \ {t} : tab'[u] = tab[u]
    BY <1>6 DEF OnPreview, Heed
  <2>4. event.address # None
    <3>1. event \in Events
      BY <2>1
    <3>2. event.address \in Addresses
      BY <3>1 DEF Events
    <3> QED
      BY <3>2 DEF Addresses
  <2>5. PaneInv(t)'
    <3> DEFINE told == tab[t].events
    <3>1. \A i \in 1..Len(told) : i # 1 => i - 1 \in 1..Len(Tail(told)) /\ Tail(told)[i - 1] = told[i]
      BY <2>1
    <3>2. told[1] = event
      BY <2>1
    <3>3. CASE event.post = tab[t].post
      BY <2>2, <2>4, <3>3 DEF PaneInv
    <3>4. CASE event.post # tab[t].post
      <4>1. SUFFICES ASSUME tab[t].pane # None, ~tab[t].missed, event.address # Address(tab[t].pane.text)
                     PROVE  PaneInv(t)'
        BY <2>2, <3>4 DEF PaneInv, Shows
      <4>2. tab'[t].loading = tab[t].loading /\ ~tab'[t].missed
        BY <2>2, <3>4, <4>1 DEF Shows
      <4>3. ASSUME NEW i \in 1..Len(told), told[i].address = Address(tab[t].pane.text)
            PROVE  \E j \in 1..Len(tab'[t].events) : tab'[t].events[j].address = Address(tab[t].pane.text)
        BY <2>2, <3>1, <3>2, <4>1, <4>3
      <4> QED
        BY <2>2, <2>3, <4>1, <4>2, <4>3 DEF PaneInv
    <3> QED
      BY <3>3, <3>4
  <2> QED
    BY <2>3, <2>5, PaneFrame
<1>7. ASSUME NEW t \in Tabs, LoadPane(t)
      PROVE  \A u \in Tabs : PaneInv(u)'
  <2> DEFINE at == tab[t].loading
  <2>1. at \in Addresses
    BY <1>7 DEF LoadPane, TypeOK, TabType
  <2>2. tab'[t].pane = previews[at] /\ previews' = previews
    BY <1>7 DEF LoadPane, TypeOK
  <2>3. previews[at] # None => Address(previews[at].text) = at
    BY <2>1 DEF StoreInv
  <2>4. PaneInv(t)'
    BY <2>2, <2>3 DEF PaneInv
  <2>5. call' = call /\ \A u \in Tabs \ {t} : tab'[u] = tab[u]
    BY <1>7 DEF LoadPane, TypeOK
  <2> QED
    BY <2>2, <2>4, <2>5, PaneFrame
<1>8. ASSUME NEW t \in Tabs, Reconnect(t)
      PROVE  \A u \in Tabs : PaneInv(u)'
  <2>1. previews' = previews /\ \A u \in Tabs :
          /\ tab'[u].pane = tab[u].pane /\ tab'[u].loading = tab[u].loading
          /\ tab'[u].events = tab[u].events /\ tab'[u].missed = tab[u].missed
    BY <1>8 DEF Reconnect
  <2>2. \A q \in Calls : call[q].step = "stored" =>
          call'[q].step = "stored" /\ call'[q].text = call[q].text
    BY <1>8 DEF Reconnect
  <2> QED
    BY <2>1, <2>2, PaneFrame
<1>9. ASSUME NEW t \in Tabs, DropStream(t)
      PROVE  \A u \in Tabs : PaneInv(u)'
  <2>1. /\ tab'[t].pane = tab[t].pane /\ tab'[t].loading = tab[t].loading
    BY <1>9 DEF DropStream
  <2>2. call' = call /\ previews' = previews /\ \A u \in Tabs \ {t} : tab'[u] = tab[u]
    BY <1>9 DEF DropStream, TypeOK
  <2> DEFINE lost == \E i \in DOMAIN tab[t].events : Shows(t, tab[t].events[i].address)
  <2>3. ~tab'[t].missed => ~tab[t].missed /\ ~lost
    <3>1. tab' = [tab EXCEPT ![t] = [tab[t] EXCEPT !.streaming = FALSE, !.events = <<>>,
                                                   !.missed = tab[t].missed \/ lost]]
      BY <1>9 DEF DropStream
    <3>2. lost \in BOOLEAN /\ tab[t].missed \in BOOLEAN /\ tab[t] \in TabType
      BY DEF TypeOK, TabType
    <3> HIDE DEF lost
    <3>3. tab'[t].missed = (tab[t].missed \/ lost)
      BY <3>1, <3>2 DEF TypeOK, TabType
    <3> QED
      BY <3>2, <3>3
  <2>4. DOMAIN tab[t].events = 1..Len(tab[t].events)
    BY DEF TypeOK, TabType
  <2>5. PaneInv(t)'
    BY <2>1, <2>2, <2>3, <2>4 DEF PaneInv, Shows
  <2> QED
    BY <2>1, <2>2, <2>3, <2>5, PaneFrame
<1>10. ASSUME NEW c \in Calls, ReadPost(c)
      PROVE  \A u \in Tabs : PaneInv(u)'
  <2>1. previews' = previews /\ \A u \in Tabs :
          /\ tab'[u].pane = tab[u].pane /\ tab'[u].loading = tab[u].loading
          /\ tab'[u].events = tab[u].events /\ tab'[u].missed = tab[u].missed
    BY <1>10 DEF ReadPost
  <2>2. \A q \in Calls : call[q].step = "stored" =>
          call'[q].step = "stored" /\ call'[q].text = call[q].text
    BY <1>10 DEF ReadPost
  <2> QED
    BY <2>1, <2>2, PaneFrame
<1>11. ASSUME NEW c \in Calls, SavePost(c)
      PROVE  \A u \in Tabs : PaneInv(u)'
  <2>1. previews' = previews /\ \A u \in Tabs :
          /\ tab'[u].pane = tab[u].pane /\ tab'[u].loading = tab[u].loading
          /\ tab'[u].events = tab[u].events /\ tab'[u].missed = tab[u].missed
    BY <1>11 DEF SavePost
  <2>2. \A q \in Calls : call[q].step = "stored" =>
          call'[q].step = "stored" /\ call'[q].text = call[q].text
    BY <1>11 DEF SavePost
  <2> QED
    BY <2>1, <2>2, PaneFrame
<1>12. ASSUME NEW c \in Calls, StorePreview(c)
      PROVE  \A u \in Tabs : PaneInv(u)'
  <2> DEFINE text == call[c].text
  <2>1. /\ previews' = [previews EXCEPT ![Address(text)] = [post |-> call[c].post, text |-> text]]
        /\ tab' = tab /\ call'[c].step = "stored" /\ call'[c].text = text
        /\ \A q \in Calls \ {c} : call'[q] = call[q]
    BY <1>12 DEF StorePreview, TypeOK
  <2>2. ASSUME NEW u \in Tabs, tab[u].pane # None, ~tab[u].missed,
               Address(tab[u].pane.text) # Address(text)
        PROVE  PaneInv(u)'
    <3>1. Address(tab[u].pane.text) \in Addresses
      BY <2>2 DEF TypeOK, TabType, Results, Addresses
    <3>2. previews'[Address(tab[u].pane.text)] = previews[Address(tab[u].pane.text)]
      BY <2>1, <2>2, <3>1 DEF TypeOK
    <3>3. call[c].step # "stored"
      BY <1>12 DEF StorePreview
    <3> QED
      BY <2>1, <2>2, <3>2, <3>3 DEF PaneInv
  <2>3. ASSUME NEW u \in Tabs, Address(tab[u].pane.text) = Address(text)
        PROVE  PaneInv(u)'
    BY <2>1, <2>3 DEF PaneInv
  <2> QED
    BY <2>1, <2>2, <2>3 DEF PaneInv
<1>13. ASSUME NEW c \in Calls, RefusePreview(c)
      PROVE  \A u \in Tabs : PaneInv(u)'
  <2>1. previews' = previews /\ \A u \in Tabs :
          /\ tab'[u].pane = tab[u].pane /\ tab'[u].loading = tab[u].loading
          /\ tab'[u].events = tab[u].events /\ tab'[u].missed = tab[u].missed
    BY <1>13 DEF RefusePreview
  <2>2. \A q \in Calls : call[q].step = "stored" =>
          call'[q].step = "stored" /\ call'[q].text = call[q].text
    BY <1>13 DEF RefusePreview
  <2> QED
    BY <2>1, <2>2, PaneFrame
<1>14. ASSUME NEW c \in Calls, Broadcast(c)
      PROVE  \A u \in Tabs : PaneInv(u)'
  <2> DEFINE address == Address(call[c].text)
             event == [post |-> call[c].post, address |-> address]
  <2>1. ASSUME NEW u \in Tabs
        PROVE  /\ tab'[u].pane = tab[u].pane /\ tab'[u].loading = tab[u].loading
               /\ tab[u].missed => tab'[u].missed
               /\ tab[u].streaming => tab'[u].events = Append(tab[u].events, event)
               /\ ~tab[u].streaming => /\ tab'[u].events = tab[u].events
                                       /\ Shows(u, address) => tab'[u].missed
    <3> DEFINE missed == tab[u].missed \/ Shows(u, address)
    <3>1. tab'[u] = IF tab[u].streaming THEN [tab[u] EXCEPT !.events = Append(tab[u].events, event)]
                                        ELSE [tab[u] EXCEPT !.missed = missed]
      BY <1>14 DEF Broadcast
    <3>2. tab[u] \in TabType /\ tab[u].missed \in BOOLEAN
      BY DEF TypeOK, TabType
    <3>3. missed = (tab[u].missed \/ Shows(u, address))
      OBVIOUS
    <3> HIDE DEF missed, event, address
    <3>4. CASE tab[u].streaming
      BY <3>1, <3>2, <3>4 DEF TabType
    <3>5. CASE ~tab[u].streaming
      <4>1. tab'[u].missed = missed /\ tab'[u].events = tab[u].events
            /\ tab'[u].pane = tab[u].pane /\ tab'[u].loading = tab[u].loading
        BY <3>1, <3>2, <3>5 DEF TabType
      <4> QED
        BY <3>3, <3>5, <4>1
    <3> QED
      BY <3>4, <3>5
  <2>2. previews' = previews /\ \A q \in Calls \ {c} : call'[q] = call[q]
    BY <1>14 DEF Broadcast, TypeOK
  <2>3. ASSUME NEW u \in Tabs, tab[u].streaming PROVE PaneInv(u)'
    <3> DEFINE told == tab[u].events
    <3>1. told \in Seq(Events) /\ tab'[u].events = Append(told, event)
      BY <2>1, <2>3 DEF TypeOK, TabType
    <3> HIDE DEF told, event
    <3>2. /\ Len(Append(told, event)) = Len(told) + 1 /\ Len(told) \in Nat
          /\ Append(told, event)[Len(told) + 1] = event
          /\ \A i \in 1..Len(told) : Append(told, event)[i] = told[i]
      BY <3>1
    <3>3. /\ \A i \in 1..Len(told) : i \in 1..Len(tab'[u].events) /\ tab'[u].events[i] = told[i]
          /\ Len(told) + 1 \in 1..Len(tab'[u].events) /\ tab'[u].events[Len(told) + 1] = event
      BY <3>1, <3>2
    <3>4. event.address = address
      BY DEF event
    <3>5. /\ tab'[u].pane = tab[u].pane /\ tab'[u].loading = tab[u].loading
          /\ tab[u].missed => tab'[u].missed
      BY <2>1
    <3> HIDE DEF address
    <3>6. CASE call[c].step = "stored" /\ tab[u].pane # None /\ address = Address(tab[u].pane.text)
      BY <2>2, <3>3, <3>4, <3>5, <3>6 DEF PaneInv
    <3>7. CASE ~(call[c].step = "stored" /\ tab[u].pane # None /\ address = Address(tab[u].pane.text))
      <4> DEFINE at == Address(tab[u].pane.text)
      <4>1. SUFFICES ASSUME tab[u].pane # None, ~tab[u].missed PROVE PaneInv(u)'
        BY <3>5 DEF PaneInv
      <4>2. (\E j \in 1..Len(told) : told[j].address = at)
              => \E j \in 1..Len(tab'[u].events) : tab'[u].events[j].address = at
        BY <3>3
      <4>3. (\E q \in Calls : call[q].step = "stored" /\ Address(call[q].text) = at)
              => \E q \in Calls : call'[q].step = "stored" /\ Address(call'[q].text) = at
        BY <2>2, <3>7, <4>1 DEF address
      <4> QED
        BY <2>2, <3>5, <4>1, <4>2, <4>3 DEF PaneInv, told
    <3> QED
      BY <3>6, <3>7
  <2>4. ASSUME NEW u \in Tabs, ~tab[u].streaming PROVE PaneInv(u)'
    BY <2>1, <2>2, <2>4 DEF PaneInv, Shows
  <2> QED
    BY <2>3, <2>4
<1>15. ASSUME NEW c \in Calls, MountEditor(c)
      PROVE  \A u \in Tabs : PaneInv(u)'
  <2>1. previews' = previews /\ \A u \in Tabs :
          /\ tab'[u].pane = tab[u].pane /\ tab'[u].loading = tab[u].loading
          /\ tab'[u].events = tab[u].events /\ tab'[u].missed = tab[u].missed
    BY <1>15 DEF MountEditor
  <2>2. \A q \in Calls : call[q].step = "stored" =>
          call'[q].step = "stored" /\ call'[q].text = call[q].text
    BY <1>15 DEF MountEditor, TypeOK
  <2> QED
    BY <2>1, <2>2, PaneFrame
<1>16. ASSUME NEW c \in Calls, OpenFailed(c)
      PROVE  \A u \in Tabs : PaneInv(u)'
  <2>1. previews' = previews /\ \A u \in Tabs :
          /\ tab'[u].pane = tab[u].pane /\ tab'[u].loading = tab[u].loading
          /\ tab'[u].events = tab[u].events /\ tab'[u].missed = tab[u].missed
    BY <1>16 DEF OpenFailed
  <2>2. \A q \in Calls : call[q].step = "stored" =>
          call'[q].step = "stored" /\ call'[q].text = call[q].text
    BY <1>16 DEF OpenFailed
  <2> QED
    BY <2>1, <2>2, PaneFrame
<1>17. ASSUME NEW c \in Calls, Saved(c)
      PROVE  \A u \in Tabs : PaneInv(u)'
  <2>1. previews' = previews /\ \A u \in Tabs :
          /\ tab'[u].pane = tab[u].pane /\ tab'[u].loading = tab[u].loading
          /\ tab'[u].events = tab[u].events /\ tab'[u].missed = tab[u].missed
    BY <1>17 DEF Saved
  <2>2. \A q \in Calls : call[q].step = "stored" =>
          call'[q].step = "stored" /\ call'[q].text = call[q].text
    BY <1>17 DEF Saved
  <2> QED
    BY <2>1, <2>2, PaneFrame
<1>18. ASSUME NEW c \in Calls, RequestFailed(c)
      PROVE  \A u \in Tabs : PaneInv(u)'
  <2>1. previews' = previews /\ \A u \in Tabs :
          /\ tab'[u].pane = tab[u].pane /\ tab'[u].loading = tab[u].loading
          /\ tab'[u].events = tab[u].events /\ tab'[u].missed = tab[u].missed
    BY <1>18 DEF RequestFailed
  <2>2. \A q \in Calls : call[q].step = "stored" =>
          call'[q].step = "stored" /\ call'[q].text = call[q].text
    BY <1>18 DEF RequestFailed
  <2> QED
    BY <2>1, <2>2, PaneFrame
<1>19. ASSUME NEW c \in Calls, AnswerAnalysis(c)
      PROVE  \A u \in Tabs : PaneInv(u)'
  <2>1. previews' = previews /\ \A u \in Tabs :
          /\ tab'[u].pane = tab[u].pane /\ tab'[u].loading = tab[u].loading
          /\ tab'[u].events = tab[u].events /\ tab'[u].missed = tab[u].missed
    BY <1>19 DEF AnswerAnalysis
  <2>2. \A q \in Calls : call[q].step = "stored" =>
          call'[q].step = "stored" /\ call'[q].text = call[q].text
    BY <1>19 DEF AnswerAnalysis
  <2> QED
    BY <2>1, <2>2, PaneFrame
<1>20. ASSUME NEW c \in Calls, Refuse(c)
      PROVE  \A u \in Tabs : PaneInv(u)'
  <2>1. previews' = previews /\ \A u \in Tabs :
          /\ tab'[u].pane = tab[u].pane /\ tab'[u].loading = tab[u].loading
          /\ tab'[u].events = tab[u].events /\ tab'[u].missed = tab[u].missed
    BY <1>20 DEF Refuse
  <2>2. \A q \in Calls : call[q].step = "stored" =>
          call'[q].step = "stored" /\ call'[q].text = call[q].text
    BY <1>20 DEF Refuse
  <2> QED
    BY <2>1, <2>2, PaneFrame
<1> QED
  BY <1>1, <1>2, <1>3, <1>4, <1>5, <1>6, <1>7, <1>8, <1>9, <1>10, <1>11, <1>12, <1>13, <1>14, <1>15, <1>16, <1>17, <1>18, <1>19, <1>20 DEF Next, Author, TabStep, CallStep

-----------------------------------------------------------------------------
LEMMA PatientStep ==
    ASSUME TypeOK, ShapeInv, PatientInv, Next
    PROVE  PatientInv'
<1> USE TextsAssumption DEF history, Free, Idle, InFlight
<1>1. ASSUME NEW t \in Tabs, NEW p \in Posts, OpenPost(t, p)
      PROVE  PatientInv'
  <2>1. ~hasty' => ~hasty /\ ~InFlight(t, {"open", "save"})
    BY <1>1 DEF OpenPost, TypeOK
  <2>2. PICK d \in Idle : call' = [call EXCEPT ![d] = Request(t, "open", p, None)]
    BY <1>1 DEF OpenPost
  <2>3. /\ d \in Calls /\ call'[d].tab = t /\ call'[d].kind = "open" /\ call'[d].step = "sent"
        /\ call'[d].post = p /\ \A q \in Calls \ {d} : call'[q] = call[q]
    BY <2>2 DEF TypeOK, Request
  <2>4. /\ tab'[t].post = p /\ tab'[t].host = "loading" /\ \A u \in Tabs \ {t} : tab'[u] = tab[u]
        /\ disk' = disk
    BY <1>1 DEF OpenPost, TypeOK
  <2>5. \A q \in Calls \ {d} : Writing(q) => call[q].tab \in Tabs
    BY DEF Writing, ShapeInv, CallShape
  <2> QED
    BY <2>1, <2>3, <2>4, <2>5 DEF PatientInv, Writing
<1>2. ASSUME NEW t \in Tabs, NEW text \in Texts, Type(t, text)
      PROVE  PatientInv'
  BY <1>2 DEF Type, PatientInv, Writing
<1>3. ASSUME NEW t \in Tabs, Save(t)
      PROVE  PatientInv'
  <2>1. ~hasty' => ~hasty /\ ~InFlight(t, {"open", "save"}) /\ tab[t].host = "editor"
    BY <1>3 DEF Save, TypeOK
  <2>2. PICK d \in Idle : call' = [call EXCEPT ![d] = Request(t, "save", tab[t].post, tab[t].buffer)]
    BY <1>3 DEF Save
  <2>3. /\ d \in Calls /\ call'[d].tab = t /\ call'[d].kind = "save"
        /\ call'[d].post = tab[t].post /\ call'[d].text = tab[t].buffer
        /\ \A q \in Calls \ {d} : call'[q] = call[q]
    BY <2>2 DEF TypeOK, Request
  <2>4. tab' = tab /\ disk' = disk
    BY <1>3 DEF Save
  <2> QED
    BY <2>1, <2>3, <2>4 DEF PatientInv, Writing
<1>4. ASSUME NEW t \in Tabs, PreviewTimer(t)
      PROVE  PatientInv'
  BY <1>4 DEF PreviewTimer, PatientInv, Writing, TypeOK, ShapeInv, Request
<1>5. ASSUME NEW t \in Tabs, AnalysisTimer(t)
      PROVE  PatientInv'
  BY <1>5 DEF AnalysisTimer, PatientInv, Writing, TypeOK, ShapeInv, Request
<1>6. ASSUME NEW t \in Tabs, OnPreview(t)
      PROVE  PatientInv'
  BY <1>6 DEF OnPreview, PatientInv, Writing, Heed
<1>7. ASSUME NEW t \in Tabs, LoadPane(t)
      PROVE  PatientInv'
  BY <1>7 DEF LoadPane, PatientInv, Writing
<1>8. ASSUME NEW t \in Tabs, Reconnect(t)
      PROVE  PatientInv'
  BY <1>8 DEF Reconnect, PatientInv, Writing
<1>9. ASSUME NEW t \in Tabs, DropStream(t)
      PROVE  PatientInv'
  BY <1>9 DEF DropStream, PatientInv, Writing
<1>10. ASSUME NEW c \in Calls, ReadPost(c)
      PROVE  PatientInv'
  BY <1>10 DEF ReadPost, PatientInv, Writing, ShapeInv, CallShape
<1>11. ASSUME NEW c \in Calls, SavePost(c)
      PROVE  PatientInv'
  BY <1>11 DEF SavePost, PatientInv, Writing
<1>12. ASSUME NEW c \in Calls, StorePreview(c)
      PROVE  PatientInv'
  BY <1>12 DEF StorePreview, PatientInv, Writing
<1>13. ASSUME NEW c \in Calls, RefusePreview(c)
      PROVE  PatientInv'
  BY <1>13 DEF RefusePreview, PatientInv, Writing
<1>14. ASSUME NEW c \in Calls, Broadcast(c)
      PROVE  PatientInv'
  BY <1>14 DEF Broadcast, PatientInv, Writing, TypeOK, ShapeInv, CallShape, FreeCall
<1>15. ASSUME NEW c \in Calls, MountEditor(c)
      PROVE  PatientInv'
  <2>1. PICK t \in Tabs : t = call[c].tab
    BY <1>15 DEF MountEditor, ShapeInv, CallShape
  <2>2. PICK d \in Idle :
          /\ call' = [call EXCEPT ![c] = Request(t, "preview", tab[t].post, call[c].text),
                                  ![d] = Request(t, "analysis", tab[t].post, call[c].text)]
          /\ tab' = [tab EXCEPT ![t] = [@ EXCEPT !.buffer = call[c].text, !.saved = call[c].text,
                                                  !.host = "editor", !.newest = d]]
    BY <1>15, <2>1 DEF MountEditor
  <2>3. c # d /\ Writing(c) /\ call[c].kind = "open" /\ call[c].step = "answered"
    BY <1>15, <2>2 DEF MountEditor, Writing
  <2>4. /\ d \in Calls /\ call'[d].kind = "analysis" /\ call'[c].kind = "preview"
        /\ \A q \in Calls \ {c, d} : call'[q] = call[q]
    BY <2>2, <2>3 DEF TypeOK, Request
  <2>5. /\ tab'[t].post = tab[t].post /\ tab'[t].buffer = call[c].text /\ tab'[t].host = "editor"
        /\ \A u \in Tabs \ {t} : tab'[u] = tab[u]
    BY <2>1, <2>2 DEF TypeOK, TabType
  <2>6. disk' = disk /\ hasty' = hasty
    BY <1>15 DEF MountEditor
  <2>7. ASSUME ~hasty
        PROVE  /\ \A q \in Calls : Writing(q) /\ call[q].tab = t => q = c
               /\ call[c].text.post = tab[t].post
    BY <2>1, <2>3, <2>7 DEF PatientInv
  <2>8. \A q \in Calls : Writing(q) => call[q].tab \in Tabs
    BY DEF Writing, ShapeInv, CallShape
  <2>9. \A q \in Calls : Writing(q)' => Writing(q) /\ call'[q] = call[q] /\ q # c
    BY <2>4 DEF Writing
  <2>10. ASSUME ~hasty, NEW q \in Calls, Writing(q)'
         PROVE  /\ Writing(q) /\ call'[q] = call[q] /\ call[q].tab \in Tabs \ {t}
                /\ tab'[call[q].tab] = tab[call[q].tab]
    BY <2>5, <2>7, <2>8, <2>9, <2>10
  <2> QED
    BY <2>5, <2>6, <2>7, <2>10 DEF PatientInv
<1>16. ASSUME NEW c \in Calls, OpenFailed(c)
      PROVE  PatientInv'
  BY <1>16 DEF OpenFailed, PatientInv, Writing, TypeOK, ShapeInv, FreeCall
<1>17. ASSUME NEW c \in Calls, Saved(c)
      PROVE  PatientInv'
  BY <1>17 DEF Saved, PatientInv, Writing, TypeOK, ShapeInv, FreeCall
<1>18. ASSUME NEW c \in Calls, RequestFailed(c)
      PROVE  PatientInv'
  BY <1>18 DEF RequestFailed, PatientInv, Writing, TypeOK, ShapeInv, FreeCall
<1>19. ASSUME NEW c \in Calls, AnswerAnalysis(c)
      PROVE  PatientInv'
  BY <1>19 DEF AnswerAnalysis, PatientInv, Writing, TypeOK, ShapeInv, FreeCall
<1>20. ASSUME NEW c \in Calls, Refuse(c)
      PROVE  PatientInv'
  BY <1>20 DEF Refuse, PatientInv, Writing
<1> QED
  BY <1>1, <1>2, <1>3, <1>4, <1>5, <1>6, <1>7, <1>8, <1>9, <1>10, <1>11, <1>12, <1>13, <1>14, <1>15, <1>16, <1>17, <1>18, <1>19, <1>20 DEF Next, Author, TabStep, CallStep

-----------------------------------------------------------------------------
\* What is on disk matters to answers of writes and to mounted editors.
LEMMA SavedFrame ==
    ASSUME SavedInv, UNCHANGED disk, ~hasty' => ~hasty, ~shared' => ~shared,
           \A q \in Calls : Answered(q)' =>
             Answered(q) /\ call'[q].post = call[q].post /\ call'[q].text = call[q].text,
           \A u \in Tabs : tab'[u].host = "editor" =>
             /\ tab[u].host = "editor" /\ tab'[u].post = tab[u].post /\ tab'[u].saved = tab[u].saved,
           \A q \in Calls : Answered(q) => Answered(q)' /\ call'[q].tab = call[q].tab
    PROVE  SavedInv'
  BY DEF SavedInv

LEMMA SavedStep ==
    ASSUME TypeOK, ShapeInv, PatientInv, SavedInv, Next
    PROVE  SavedInv'
<1> USE TextsAssumption DEF history, Free, Idle, InFlight
<1>1. ASSUME NEW t \in Tabs, NEW p \in Posts, OpenPost(t, p)
      PROVE  SavedInv'
  <2>1. disk' = disk /\ (~hasty' => ~hasty) /\ (~shared' => ~shared)
    BY <1>1 DEF OpenPost, TypeOK
  <2>2. \A u \in Tabs : tab'[u].host = "editor" =>
          /\ tab[u].host = "editor" /\ tab'[u].post = tab[u].post /\ tab'[u].saved = tab[u].saved
    BY <1>1 DEF OpenPost
  <2>3. \A q \in Calls : (Answered(q)' <=> Answered(q)) /\ (Answered(q) =>
          call'[q].post = call[q].post /\ call'[q].text = call[q].text /\ call'[q].tab = call[q].tab)
    BY <1>1 DEF OpenPost, Answered, Writing, Request
  <2> QED
    BY <2>1, <2>2, <2>3, SavedFrame
<1>2. ASSUME NEW t \in Tabs, NEW text \in Texts, Type(t, text)
      PROVE  SavedInv'
  <2>1. disk' = disk /\ (~hasty' => ~hasty) /\ (~shared' => ~shared)
    BY <1>2 DEF Type, TypeOK
  <2>2. \A u \in Tabs : tab'[u].host = "editor" =>
          /\ tab[u].host = "editor" /\ tab'[u].post = tab[u].post /\ tab'[u].saved = tab[u].saved
    BY <1>2 DEF Type
  <2>3. \A q \in Calls : (Answered(q)' <=> Answered(q)) /\ (Answered(q) =>
          call'[q].post = call[q].post /\ call'[q].text = call[q].text /\ call'[q].tab = call[q].tab)
    BY <1>2 DEF Type, Answered, Writing
  <2> QED
    BY <2>1, <2>2, <2>3, SavedFrame
<1>3. ASSUME NEW t \in Tabs, Save(t)
      PROVE  SavedInv'
  <2>1. disk' = disk /\ (~hasty' => ~hasty) /\ (~shared' => ~shared)
    BY <1>3 DEF Save, TypeOK
  <2>2. \A u \in Tabs : tab'[u].host = "editor" =>
          /\ tab[u].host = "editor" /\ tab'[u].post = tab[u].post /\ tab'[u].saved = tab[u].saved
    BY <1>3 DEF Save
  <2>3. \A q \in Calls : (Answered(q)' <=> Answered(q)) /\ (Answered(q) =>
          call'[q].post = call[q].post /\ call'[q].text = call[q].text /\ call'[q].tab = call[q].tab)
    BY <1>3 DEF Save, Answered, Writing, Request
  <2> QED
    BY <2>1, <2>2, <2>3, SavedFrame
<1>4. ASSUME NEW t \in Tabs, PreviewTimer(t)
      PROVE  SavedInv'
  <2>1. disk' = disk /\ (~hasty' => ~hasty) /\ (~shared' => ~shared)
    BY <1>4 DEF PreviewTimer, TypeOK
  <2>2. \A u \in Tabs : tab'[u].host = "editor" =>
          /\ tab[u].host = "editor" /\ tab'[u].post = tab[u].post /\ tab'[u].saved = tab[u].saved
    BY <1>4 DEF PreviewTimer
  <2>3. \A q \in Calls : (Answered(q)' <=> Answered(q)) /\ (Answered(q) =>
          call'[q].post = call[q].post /\ call'[q].text = call[q].text /\ call'[q].tab = call[q].tab)
    BY <1>4 DEF PreviewTimer, Answered, Writing, Request
  <2> QED
    BY <2>1, <2>2, <2>3, SavedFrame
<1>5. ASSUME NEW t \in Tabs, AnalysisTimer(t)
      PROVE  SavedInv'
  <2>1. disk' = disk /\ (~hasty' => ~hasty) /\ (~shared' => ~shared)
    BY <1>5 DEF AnalysisTimer, TypeOK
  <2>2. \A u \in Tabs : tab'[u].host = "editor" =>
          /\ tab[u].host = "editor" /\ tab'[u].post = tab[u].post /\ tab'[u].saved = tab[u].saved
    BY <1>5 DEF AnalysisTimer
  <2>3. \A q \in Calls : (Answered(q)' <=> Answered(q)) /\ (Answered(q) =>
          call'[q].post = call[q].post /\ call'[q].text = call[q].text /\ call'[q].tab = call[q].tab)
    BY <1>5 DEF AnalysisTimer, Answered, Writing, Request
  <2> QED
    BY <2>1, <2>2, <2>3, SavedFrame
<1>6. ASSUME NEW t \in Tabs, OnPreview(t)
      PROVE  SavedInv'
  <2>1. disk' = disk /\ (~hasty' => ~hasty) /\ (~shared' => ~shared)
    BY <1>6 DEF OnPreview, Heed
  <2>2. \A u \in Tabs : tab'[u].host = "editor" =>
          /\ tab[u].host = "editor" /\ tab'[u].post = tab[u].post /\ tab'[u].saved = tab[u].saved
    BY <1>6 DEF OnPreview, Heed
  <2>3. \A q \in Calls : (Answered(q)' <=> Answered(q)) /\ (Answered(q) =>
          call'[q].post = call[q].post /\ call'[q].text = call[q].text /\ call'[q].tab = call[q].tab)
    BY <1>6 DEF OnPreview, Heed, Answered, Writing
  <2> QED
    BY <2>1, <2>2, <2>3, SavedFrame
<1>7. ASSUME NEW t \in Tabs, LoadPane(t)
      PROVE  SavedInv'
  <2>1. disk' = disk /\ (~hasty' => ~hasty) /\ (~shared' => ~shared)
    BY <1>7 DEF LoadPane, TypeOK
  <2>2. \A u \in Tabs : tab'[u].host = "editor" =>
          /\ tab[u].host = "editor" /\ tab'[u].post = tab[u].post /\ tab'[u].saved = tab[u].saved
    BY <1>7 DEF LoadPane
  <2>3. \A q \in Calls : (Answered(q)' <=> Answered(q)) /\ (Answered(q) =>
          call'[q].post = call[q].post /\ call'[q].text = call[q].text /\ call'[q].tab = call[q].tab)
    BY <1>7 DEF LoadPane, Answered, Writing
  <2> QED
    BY <2>1, <2>2, <2>3, SavedFrame
<1>8. ASSUME NEW t \in Tabs, Reconnect(t)
      PROVE  SavedInv'
  <2>1. disk' = disk /\ (~hasty' => ~hasty) /\ (~shared' => ~shared)
    BY <1>8 DEF Reconnect, TypeOK
  <2>2. \A u \in Tabs : tab'[u].host = "editor" =>
          /\ tab[u].host = "editor" /\ tab'[u].post = tab[u].post /\ tab'[u].saved = tab[u].saved
    BY <1>8 DEF Reconnect
  <2>3. \A q \in Calls : (Answered(q)' <=> Answered(q)) /\ (Answered(q) =>
          call'[q].post = call[q].post /\ call'[q].text = call[q].text /\ call'[q].tab = call[q].tab)
    BY <1>8 DEF Reconnect, Answered, Writing
  <2> QED
    BY <2>1, <2>2, <2>3, SavedFrame
<1>9. ASSUME NEW t \in Tabs, DropStream(t)
      PROVE  SavedInv'
  <2>1. disk' = disk /\ (~hasty' => ~hasty) /\ (~shared' => ~shared)
    BY <1>9 DEF DropStream, TypeOK
  <2>2. \A u \in Tabs : tab'[u].host = "editor" =>
          /\ tab[u].host = "editor" /\ tab'[u].post = tab[u].post /\ tab'[u].saved = tab[u].saved
    BY <1>9 DEF DropStream
  <2>3. \A q \in Calls : (Answered(q)' <=> Answered(q)) /\ (Answered(q) =>
          call'[q].post = call[q].post /\ call'[q].text = call[q].text /\ call'[q].tab = call[q].tab)
    BY <1>9 DEF DropStream, Answered, Writing
  <2> QED
    BY <2>1, <2>2, <2>3, SavedFrame
<1>10. ASSUME NEW c \in Calls, ReadPost(c)
      PROVE  SavedInv'
  <2>1. /\ tab' = tab /\ disk' = disk /\ hasty' = hasty /\ shared' = shared
        /\ call'[c].post = call[c].post /\ call'[c].text = disk[call[c].post]
        /\ ~Answered(c) /\ \A q \in Calls \ {c} : call'[q] = call[q]
    BY <1>10 DEF ReadPost, TypeOK, Answered
  <2>2. \A q \in Calls \ {c} : Answered(q)' <=> Answered(q)
    BY <2>1 DEF Answered, Writing
  <2> QED
    BY <2>1, <2>2 DEF SavedInv
<1>11. ASSUME NEW c \in Calls, SavePost(c)
      PROVE  SavedInv'
  <2> DEFINE p == call[c].post
  <2>1. PICK t \in Tabs : t = call[c].tab
    BY <1>11 DEF SavePost, ShapeInv, CallShape
  <2>2. /\ tab' = tab /\ hasty' = hasty /\ disk' = [disk EXCEPT ![p] = call[c].text]
        /\ shared' = (shared \/ \E u \in Tabs \ {t} : tab[u].post = p)
    BY <1>11, <2>1 DEF SavePost
  <2>3. /\ Answered(c)' /\ call'[c].post = p /\ call'[c].text = call[c].text /\ call'[c].tab = t
        /\ p \in Posts /\ Writing(c) /\ ~Answered(c)
        /\ \A q \in Calls \ {c} : call'[q] = call[q]
    BY <1>11, <2>1 DEF SavePost, TypeOK, Answered, Writing, ShapeInv, CallShape
  <2>4. \A q \in Calls \ {c} : Answered(q)' <=> Answered(q)
    BY <2>3 DEF Answered, Writing
  <2>5. ASSUME ~hasty, ~shared' PROVE ~shared /\ \A u \in Tabs \ {t} : tab[u].post # p
    BY <2>2, <2>5 DEF TypeOK
  <2>6. disk'[p] = call[c].text /\ \A r \in Posts \ {p} : disk'[r] = disk[r]
    BY <2>2, <2>3 DEF TypeOK
  <2>7. ASSUME ~hasty, ~shared', NEW q \in Calls \ {c}, Answered(q)
        PROVE  call[q].post \in Posts \ {p}
    BY <2>1, <2>3, <2>5, <2>7 DEF PatientInv, Answered, ShapeInv, CallShape
  <2>8. ASSUME NEW u \in Tabs \ {t}, tab[u].host = "editor" PROVE tab[u].post \in Posts
    BY <2>8 DEF TypeOK, TabType, ShapeInv, TabShape
  <2>9. ASSUME ~hasty, ~shared', NEW q \in Calls, Answered(q)'
        PROVE  disk'[call'[q].post] = call'[q].text
    BY <2>3, <2>4, <2>5, <2>6, <2>7, <2>9 DEF SavedInv
  <2>10. ASSUME ~hasty, ~shared', NEW u \in Tabs, tab[u].host = "editor",
                ~ \E q \in Calls : Answered(q)' /\ call'[q].tab = u
         PROVE  disk'[tab[u].post] = tab[u].saved
    <3>1. u # t
      BY <2>3, <2>10
    <3>2. ~ \E q \in Calls : Answered(q) /\ call[q].tab = u
      BY <2>3, <2>4, <2>10
    <3> QED
      BY <2>5, <2>6, <2>8, <2>10, <3>1, <3>2 DEF SavedInv
  <2> QED
    BY <2>2, <2>9, <2>10 DEF SavedInv
<1>12. ASSUME NEW c \in Calls, StorePreview(c)
      PROVE  SavedInv'
  <2>1. disk' = disk /\ (~hasty' => ~hasty) /\ (~shared' => ~shared)
    BY <1>12 DEF StorePreview, TypeOK
  <2>2. \A u \in Tabs : tab'[u].host = "editor" =>
          /\ tab[u].host = "editor" /\ tab'[u].post = tab[u].post /\ tab'[u].saved = tab[u].saved
    BY <1>12 DEF StorePreview
  <2>3. \A q \in Calls : (Answered(q)' <=> Answered(q)) /\ (Answered(q) =>
          call'[q].post = call[q].post /\ call'[q].text = call[q].text /\ call'[q].tab = call[q].tab)
    BY <1>12 DEF StorePreview, Answered, Writing
  <2> QED
    BY <2>1, <2>2, <2>3, SavedFrame
<1>13. ASSUME NEW c \in Calls, RefusePreview(c)
      PROVE  SavedInv'
  <2>1. disk' = disk /\ (~hasty' => ~hasty) /\ (~shared' => ~shared)
    BY <1>13 DEF RefusePreview, TypeOK
  <2>2. \A u \in Tabs : tab'[u].host = "editor" =>
          /\ tab[u].host = "editor" /\ tab'[u].post = tab[u].post /\ tab'[u].saved = tab[u].saved
    BY <1>13 DEF RefusePreview
  <2>3. \A q \in Calls : (Answered(q)' <=> Answered(q)) /\ (Answered(q) =>
          call'[q].post = call[q].post /\ call'[q].text = call[q].text /\ call'[q].tab = call[q].tab)
    BY <1>13 DEF RefusePreview, Answered, Writing
  <2> QED
    BY <2>1, <2>2, <2>3, SavedFrame
<1>14. ASSUME NEW c \in Calls, Broadcast(c)
      PROVE  SavedInv'
  <2>1. disk' = disk /\ (~hasty' => ~hasty) /\ (~shared' => ~shared)
    BY <1>14 DEF Broadcast, TypeOK
  <2>2. \A u \in Tabs : tab'[u].host = "editor" =>
          /\ tab[u].host = "editor" /\ tab'[u].post = tab[u].post /\ tab'[u].saved = tab[u].saved
    BY <1>14 DEF Broadcast
  <2>3. \A q \in Calls : (Answered(q)' <=> Answered(q)) /\ (Answered(q) =>
          call'[q].post = call[q].post /\ call'[q].text = call[q].text /\ call'[q].tab = call[q].tab)
    BY <1>14 DEF Broadcast, Answered, Writing, FreeCall
  <2> QED
    BY <2>1, <2>2, <2>3, SavedFrame
<1>15. ASSUME NEW c \in Calls, MountEditor(c)
      PROVE  SavedInv'
  <2>1. PICK t \in Tabs : t = call[c].tab
    BY <1>15 DEF MountEditor, ShapeInv, CallShape
  <2>2. Answered(c) /\ Writing(c) /\ call[c].kind = "open"
    BY <1>15 DEF MountEditor, Answered, Writing
  <2> PICK d \in Idle :
          /\ call' = [call EXCEPT ![c] = Request(t, "preview", tab[t].post, call[c].text),
                                  ![d] = Request(t, "analysis", tab[t].post, call[c].text)]
          /\ tab' = [tab EXCEPT ![t] = [@ EXCEPT !.buffer = call[c].text, !.saved = call[c].text,
                                                  !.host = "editor", !.newest = d]]
    BY <1>15, <2>1 DEF MountEditor
  <2>3. \A q \in Calls : (Answered(q)' <=> Answered(q) /\ q # c) /\ (Answered(q)' => call'[q] = call[q])
    BY <2>2 DEF TypeOK, Request, Answered, Writing
  <2>4. /\ tab'[t].post = tab[t].post /\ tab'[t].saved = call[c].text
        /\ \A u \in Tabs \ {t} : tab'[u] = tab[u]
    BY <2>1 DEF TypeOK, TabType
  <2>5. disk' = disk /\ hasty' = hasty /\ shared' = shared
    BY <1>15 DEF MountEditor
  <2>6. ASSUME ~hasty, ~shared
        PROVE  disk[tab[t].post] = call[c].text /\ \A q \in Calls \ {c} : Answered(q) => call[q].tab # t
    BY <2>1, <2>2, <2>6 DEF PatientInv, SavedInv, Answered
  <2>7. ASSUME ~hasty, ~shared, NEW u \in Tabs, tab'[u].host = "editor",
               ~ \E q \in Calls : Answered(q)' /\ call'[q].tab = u
        PROVE  disk[tab'[u].post] = tab'[u].saved
    <3>1. CASE u = t
      BY <2>4, <2>6, <2>7, <3>1
    <3>2. CASE u # t
      <4>1. ~ \E q \in Calls : Answered(q) /\ call[q].tab = u
        BY <2>1, <2>2, <2>3, <2>7, <3>2
      <4> QED
        BY <2>4, <2>7, <3>2, <4>1 DEF SavedInv
    <3> QED
      BY <3>1, <3>2
  <2> QED
    BY <2>3, <2>5, <2>7 DEF SavedInv
<1>16. ASSUME NEW c \in Calls, OpenFailed(c)
      PROVE  SavedInv'
  <2>1. disk' = disk /\ (~hasty' => ~hasty) /\ (~shared' => ~shared)
    BY <1>16 DEF OpenFailed, TypeOK
  <2>2. \A u \in Tabs : tab'[u].host = "editor" =>
          /\ tab[u].host = "editor" /\ tab'[u].post = tab[u].post /\ tab'[u].saved = tab[u].saved
    BY <1>16 DEF OpenFailed
  <2>3. \A q \in Calls : (Answered(q)' <=> Answered(q)) /\ (Answered(q) =>
          call'[q].post = call[q].post /\ call'[q].text = call[q].text /\ call'[q].tab = call[q].tab)
    BY <1>16 DEF OpenFailed, Answered, Writing, FreeCall
  <2> QED
    BY <2>1, <2>2, <2>3, SavedFrame
<1>17. ASSUME NEW c \in Calls, Saved(c)
      PROVE  SavedInv'
  <2>1. PICK t \in Tabs : t = call[c].tab
    BY <1>17 DEF Saved, ShapeInv, CallShape
  <2>2. Answered(c) /\ Writing(c) /\ call[c].kind = "save"
    BY <1>17 DEF Saved, Answered, Writing
  <2>3. \A q \in Calls : (Answered(q)' <=> Answered(q) /\ q # c) /\ (Answered(q)' => call'[q] = call[q])
    BY <1>17, <2>2 DEF Saved, TypeOK, FreeCall, Answered, Writing
  <2>4. /\ tab'[t].post = tab[t].post /\ tab'[t].saved = call[c].text
        /\ \A u \in Tabs \ {t} : tab'[u] = tab[u]
    BY <1>17, <2>1 DEF Saved, TypeOK
  <2>5. disk' = disk /\ hasty' = hasty /\ shared' = shared
    BY <1>17 DEF Saved
  <2>6. ASSUME ~hasty, ~shared
        PROVE  disk[tab[t].post] = call[c].text /\ \A q \in Calls \ {c} : Answered(q) => call[q].tab # t
    BY <2>1, <2>2, <2>6 DEF PatientInv, SavedInv, Answered
  <2>7. ASSUME ~hasty, ~shared, NEW u \in Tabs, tab'[u].host = "editor",
               ~ \E q \in Calls : Answered(q)' /\ call'[q].tab = u
        PROVE  disk[tab'[u].post] = tab'[u].saved
    <3>1. CASE u = t
      BY <2>4, <2>6, <2>7, <3>1
    <3>2. CASE u # t
      <4>1. ~ \E q \in Calls : Answered(q) /\ call[q].tab = u
        BY <2>1, <2>2, <2>3, <2>7, <3>2
      <4> QED
        BY <2>4, <2>7, <3>2, <4>1 DEF SavedInv
    <3> QED
      BY <3>1, <3>2
  <2> QED
    BY <2>3, <2>5, <2>7 DEF SavedInv
<1>18. ASSUME NEW c \in Calls, RequestFailed(c)
      PROVE  SavedInv'
  <2>1. disk' = disk /\ (~hasty' => ~hasty) /\ (~shared' => ~shared)
    BY <1>18 DEF RequestFailed, TypeOK
  <2>2. \A u \in Tabs : tab'[u].host = "editor" =>
          /\ tab[u].host = "editor" /\ tab'[u].post = tab[u].post /\ tab'[u].saved = tab[u].saved
    BY <1>18 DEF RequestFailed
  <2>3. \A q \in Calls : (Answered(q)' <=> Answered(q)) /\ (Answered(q) =>
          call'[q].post = call[q].post /\ call'[q].text = call[q].text /\ call'[q].tab = call[q].tab)
    BY <1>18 DEF RequestFailed, Answered, Writing, FreeCall
  <2> QED
    BY <2>1, <2>2, <2>3, SavedFrame
<1>19. ASSUME NEW c \in Calls, AnswerAnalysis(c)
      PROVE  SavedInv'
  <2>1. disk' = disk /\ (~hasty' => ~hasty) /\ (~shared' => ~shared)
    BY <1>19 DEF AnswerAnalysis, TypeOK
  <2>2. \A u \in Tabs : tab'[u].host = "editor" =>
          /\ tab[u].host = "editor" /\ tab'[u].post = tab[u].post /\ tab'[u].saved = tab[u].saved
    BY <1>19 DEF AnswerAnalysis
  <2>3. \A q \in Calls : (Answered(q)' <=> Answered(q)) /\ (Answered(q) =>
          call'[q].post = call[q].post /\ call'[q].text = call[q].text /\ call'[q].tab = call[q].tab)
    BY <1>19 DEF AnswerAnalysis, Answered, Writing, FreeCall
  <2> QED
    BY <2>1, <2>2, <2>3, SavedFrame
<1>20. ASSUME NEW c \in Calls, Refuse(c)
      PROVE  SavedInv'
  <2>1. disk' = disk /\ (~hasty' => ~hasty) /\ (~shared' => ~shared)
    BY <1>20 DEF Refuse, TypeOK
  <2>2. \A u \in Tabs : tab'[u].host = "editor" =>
          /\ tab[u].host = "editor" /\ tab'[u].post = tab[u].post /\ tab'[u].saved = tab[u].saved
    BY <1>20 DEF Refuse
  <2>3. \A q \in Calls : (Answered(q)' <=> Answered(q)) /\ (Answered(q) =>
          call'[q].post = call[q].post /\ call'[q].text = call[q].text /\ call'[q].tab = call[q].tab)
    BY <1>20 DEF Refuse, Answered, Writing
  <2> QED
    BY <2>1, <2>2, <2>3, SavedFrame
<1> QED
  BY <1>1, <1>2, <1>3, <1>4, <1>5, <1>6, <1>7, <1>8, <1>9, <1>10, <1>11, <1>12, <1>13, <1>14, <1>15, <1>16, <1>17, <1>18, <1>19, <1>20 DEF Next, Author, TabStep, CallStep

-----------------------------------------------------------------------------
LEMMA InitInv == Init => ShellInv
<1> SUFFICES ASSUME Init PROVE ShellInv
  OBVIOUS
<1> USE TextsAssumption DEF Init, history
<1>1. FreshTab \in TabType /\ FreeCall \in CallType
  BY DEF FreshTab, FreeCall, TabType, CallType
<1>2. /\ \A t \in Tabs : tab[t] = FreshTab
      /\ \A c \in Calls : call[c].step = "free"
  BY DEF FreeCall
<1>3. TypeOK
  <2>1. budget \in [{"opens", "edits", "saves", "faults"} -> Nat]
    OBVIOUS
  <2>2. tab \in [Tabs -> TabType] /\ call \in [Calls -> CallType]
    BY <1>1
  <2> QED
    BY <1>2, <2>1, <2>2 DEF TypeOK, FreshTab
<1>4. ShapeInv /\ StoreInv
  BY <1>2 DEF ShapeInv, CallShape, TabShape, Free, FreshTab, StoreInv
<1>5. PatientInv /\ SavedInv
  BY <1>2 DEF PatientInv, SavedInv, Answered, Writing, Free, FreshTab
<1>6. \A t \in Tabs : FindingsInv(t) /\ PaneInv(t)
  BY <1>2 DEF FindingsInv, PaneInv, FreshTab
<1> QED
  BY <1>3, <1>4, <1>5, <1>6 DEF ShellInv

\* A step that changes nothing keeps every part of the invariant.
LEMMA StutterInv == ShellInv /\ UNCHANGED vars => ShellInv'
<1> SUFFICES ASSUME ShellInv, UNCHANGED vars PROVE ShellInv'
  OBVIOUS
<1> USE DEF vars, history
<1>1. TypeOK' /\ ShapeInv' /\ StoreInv'
  BY DEF ShellInv, TypeOK, ShapeInv, CallShape, TabShape, StoreInv, Free
<1>2. PatientInv' /\ SavedInv'
  BY DEF ShellInv, PatientInv, SavedInv, Answered, Writing, Free
<1>3. \A t \in Tabs : FindingsInv(t)' /\ PaneInv(t)'
  BY DEF ShellInv, FindingsInv, PaneInv, InFlight, Free
<1> QED
  BY <1>1, <1>2, <1>3 DEF ShellInv

LEMMA ShellStep == ShellInv /\ [Next]_vars => ShellInv'
<1>1. ASSUME ShellInv, Next PROVE ShellInv'
  BY <1>1, TypeStep, FindingsStep, StoreStep, PaneStep, PatientStep, SavedStep DEF ShellInv
<1> QED
  BY <1>1, StutterInv

LEMMA ShellInvariant == Spec => []ShellInv
  BY InitInv, ShellStep, PTL DEF Spec

\* In whatever order opens, timers and answers come, the findings next to an
\* editor that waits for nothing are those of its text (analyze in app.js, which
\* numbers its requests), for any number of tabs, posts and requests.
THEOREM FindingsOfTheBuffer == Spec => []FindingsAreOfTheBuffer
<1>1. ASSUME ShellInv PROVE FindingsAreOfTheBuffer
  <2> SUFFICES ASSUME NEW t \in Tabs, tab[t].host = "editor", ~tab[t].analysisDue,
                      ~InFlight(t, {"open", "analysis"})
               PROVE  tab[t].findings = [post |-> tab[t].post, text |-> tab[t].buffer]
    BY DEF FindingsAreOfTheBuffer
  <2>1. ~InFlight(t, {"open"})
    BY DEF InFlight
  <2>2. tab[t].newest = None
    BY <1>1 DEF ShellInv, TypeOK, TabType, InFlight
  <2> QED
    BY <1>1, <2>1, <2>2 DEF ShellInv, FindingsInv
<1> QED
  BY <1>1, ShellInvariant, PTL

\* An author who waits for the page before opening or saving overwrites a post
\* only with a text of its own (openPost and save in app.js).
THEOREM PatientSaves == Spec => []PatientSavesStayHome
<1>1. ShellInv => PatientSavesStayHome
  BY DEF ShellInv, PatientInv, PatientSavesStayHome
<1> QED
  BY <1>1, ShellInvariant, PTL

\* And "saved" is said of the text on disk, unless another tab has the post.
THEOREM SavedIsOnDisk == Spec => []SavedMeansOnDisk
<1>1. ASSUME ShellInv PROVE SavedMeansOnDisk
  <2> SUFFICES ASSUME ~hasty, ~shared, NEW t \in Tabs, tab[t].host = "editor",
                      tab[t].buffer = tab[t].saved, ~InFlight(t, {"save"})
               PROVE  disk[tab[t].post] = tab[t].buffer
    BY DEF SavedMeansOnDisk
  <2>1. ASSUME NEW c \in Calls, Answered(c) PROVE call[c].tab # t
    BY <1>1, <2>1 DEF ShellInv, PatientInv, Answered, Writing, InFlight
  <2> QED
    BY <1>1, <2>1 DEF ShellInv, SavedInv
<1> QED
  BY <1>1, ShellInvariant, PTL

\* A pane that has been told shows the newest preview of its address, though the
\* server stores a preview before it tells anyone (editorServer.preview,
\* onPreview in app.js).
THEOREM PaneOfTheStore == Spec => []PaneIsOfTheStore
<1>1. ASSUME ShellInv PROVE PaneIsOfTheStore
  <2>1. ASSUME NEW t \in Tabs, PaneIsQuiet(t), tab[t].pane # None, ~tab[t].missed
        PROVE  previews[Address(tab[t].pane.text)] = tab[t].pane
    BY <1>1, <2>1 DEF ShellInv, PaneInv, PaneIsQuiet
  <2> QED
    BY <1>1, <2>1 DEF ShellInv, PaneIsOfTheStore, PaneShowsWhatIsStored
<1> QED
  BY <1>1, ShellInvariant, PTL
=============================================================================
