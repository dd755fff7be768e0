------------------------------ MODULE EditorShell ------------------------------
(***************************************************************************)
(* The blog editor: browser tabs that hold an unsaved buffer each, and the *)
(* server that reads and writes posts, renders previews and analyses.      *)
(*                                                                         *)
(* Requests run concurrently, in the browser and in the server, so they    *)
(* are handled and answered in any order.  A preview is not shown from its *)
(* answer: the server stores it, broadcasts an event, and the tab loads    *)
(* what is stored.                                                         *)
(***************************************************************************)
EXTENDS Naturals, Sequences

CONSTANTS Tabs,         \* tabs that show the repository's view
          Posts,        \* paths of the repository's posts
          Revisions,    \* versions a post's text goes through
          Broken,       \* texts that do not parse
          Address(_),   \* where a text is published, by the slug it declares
          Calls,        \* requests that can be in flight at once
          InitialDisk,  \* what is saved in the beginning
          MaxOpens, MaxEdits, MaxSaves, MaxFaults,
          None

\* A text, with the post it was written for.
Texts == [post : Posts, rev : Revisions]

\* What the renderer or the analysis makes of a text at a path.
Results == [post : Posts, text : Texts]

ASSUME TextsAssumption ==
    /\ Broken \subseteq Texts
    /\ None \notin Posts \cup Texts \cup Results \cup Calls
    /\ None \notin {Address(x) : x \in Texts}
    /\ InitialDisk \in [Posts -> Texts]
    /\ \A p \in Posts : InitialDisk[p].post = p
    /\ {MaxOpens, MaxEdits, MaxSaves, MaxFaults} \subseteq Nat

VARIABLES disk,       \* the saved text of each post
          previews,   \* the server's rendered previews, by address
          call,       \* the requests in flight
          tab,        \* what each tab holds
          hasty,      \* history: someone acted on a tab before it had answered
          shared,     \* history: a post was saved that another tab had selected
          budget

history == <<hasty, shared>>
vars == <<disk, previews, call, tab, history, budget>>

Addresses == {Address(x) : x \in Texts}

FreeCall == [step |-> "free", tab |-> None, kind |-> "open", post |-> None, text |-> None]

\* currentPath, editor.get(), savedText, what the editor's place shows, the two
\* debounce timers, the call of the newest analysis request (analysisSeq), the
\* findings, the events received, the address the iframe is loading, what it
\* shows, and whether the event stream is connected.  missed is a history: since
\* the pane was loaded, news of its page was ignored or lost.
FreshTab ==
    [post |-> None, buffer |-> None, saved |-> None, host |-> "empty",
     previewDue |-> FALSE, analysisDue |-> FALSE, newest |-> None,
     findings |-> None, events |-> <<>>, loading |-> None, pane |-> None,
     missed |-> FALSE, streaming |-> TRUE]

Init ==
    /\ disk = InitialDisk
    /\ previews = [a \in Addresses |-> None]
    /\ call = [c \in Calls |-> FreeCall]
    /\ tab = [t \in Tabs |-> FreshTab]
    /\ hasty = FALSE /\ shared = FALSE
    /\ budget = [opens |-> MaxOpens, edits |-> MaxEdits, saves |-> MaxSaves, faults |-> MaxFaults]

Spend(kind) == budget[kind] > 0 /\ budget' = [budget EXCEPT ![kind] = @ - 1]

Free(c) == call[c].step = "free"
Idle == {c \in Calls : Free(c)}
InFlight(t, kinds) == \E c \in Calls : ~Free(c) /\ call[c].tab = t /\ call[c].kind \in kinds

Request(t, kind, post, text) ==
    [step |-> "sent", tab |-> t, kind |-> kind, post |-> post, text |-> text]

Shows(t, address) == tab[t].pane # None /\ Address(tab[t].pane.text) = address

-----------------------------------------------------------------------------
(* The author.                                                             *)

\* The list selects the post at once; its text arrives later.
OpenPost(t, p) ==
    /\ Spend("opens")
    /\ hasty' = (hasty \/ InFlight(t, {"open", "save"}))
    /\ tab' = [tab EXCEPT ![t] = [@ EXCEPT !.post = p, !.host = "loading"]]
    /\ \E c \in Idle : call' = [call EXCEPT ![c] = Request(t, "open", p, None)]
    /\ UNCHANGED <<disk, previews, shared>>

\* Only a mounted editor can be typed into.
Type(t, text) ==
    /\ Spend("edits")
    /\ tab[t].host = "editor"
    /\ text # tab[t].buffer /\ text.post = tab[t].buffer.post
    /\ tab' = [tab EXCEPT ![t] = [@ EXCEPT !.buffer = text, !.previewDue = TRUE, !.analysisDue = TRUE]]
    /\ UNCHANGED <<disk, previews, call, history>>

\* Ctrl-S, which asks neither whether the buffer is dirty nor whether the
\* editor that holds it is still mounted.
Save(t) ==
    /\ Spend("saves")
    /\ tab[t].buffer # None /\ tab[t].post # None
    /\ hasty' = (hasty \/ tab[t].host # "editor" \/ InFlight(t, {"open", "save"}))
    /\ \E c \in Idle : call' = [call EXCEPT ![c] = Request(t, "save", tab[t].post, tab[t].buffer)]
    /\ UNCHANGED <<disk, previews, tab, shared>>

-----------------------------------------------------------------------------
(* The tab's timers and requests.                                          *)

PreviewTimer(t) ==
    /\ tab[t].previewDue
    /\ tab' = [tab EXCEPT ![t] = [@ EXCEPT !.previewDue = FALSE]]
    /\ \E c \in Idle : call' = [call EXCEPT ![c] = Request(t, "preview", tab[t].post, tab[t].buffer)]
    /\ UNCHANGED <<disk, previews, history, budget>>

AnalysisTimer(t) ==
    /\ tab[t].analysisDue
    /\ \E c \in Idle :
        /\ call' = [call EXCEPT ![c] = Request(t, "analysis", tab[t].post, tab[t].buffer)]
        /\ tab' = [tab EXCEPT ![t] = [@ EXCEPT !.analysisDue = FALSE, !.newest = c]]
    /\ UNCHANGED <<disk, previews, history, budget>>

\* Mutant: the first editor stays mounted.
MountOnce(c) ==
    /\ call[c].kind = "open" /\ call[c].step = "answered"
    /\ \E d \in Idle : LET t == call[c].tab
           text == IF tab[t].buffer = None THEN call[c].text ELSE tab[t].buffer
       IN /\ call' = [call EXCEPT ![c] = Request(t, "preview", tab[t].post, text),
                                  ![d] = Request(t, "analysis", tab[t].post, text)]
          /\ tab' = [tab EXCEPT ![t] = [@ EXCEPT !.buffer = text, !.saved = call[c].text,
                                !.host = "editor", !.newest = d]]
    /\ UNCHANGED <<disk, previews, history, budget>>

\* A post's text arrives: it replaces the editor and is previewed and analysed,
\* under the path that is selected by now.
MountEditor(c) ==
    /\ call[c].kind = "open" /\ call[c].step = "answered"
    /\ \E d \in Idle : LET t == call[c].tab
           text == call[c].text
       IN /\ call' = [call EXCEPT ![c] = Request(t, "preview", tab[t].post, text),
                                  ![d] = Request(t, "analysis", tab[t].post, text)]
          /\ tab' = [tab EXCEPT ![t] = [@ EXCEPT !.buffer = text, !.saved = text,
                                !.host = "editor", !.newest = d]]
    /\ UNCHANGED <<disk, previews, history, budget>>

\* The error is shown in the editor's place, and the editor is kept.
OpenFailed(c) ==
    /\ call[c].kind = "open" /\ call[c].step = "failed"
    /\ tab' = [tab EXCEPT ![call[c].tab] = [@ EXCEPT !.host = "error"]]
    /\ call' = [call EXCEPT ![c] = FreeCall]
    /\ UNCHANGED <<disk, previews, history, budget>>

\* Mutant: what is in the editor by now counts as saved.
SavedByNow(c) ==
    /\ call[c].kind = "save" /\ call[c].step = "answered"
    /\ tab' = [tab EXCEPT ![call[c].tab] = [@ EXCEPT !.saved = tab[call[c].tab].buffer]]
    /\ call' = [call EXCEPT ![c] = FreeCall]
    /\ UNCHANGED <<disk, previews, history, budget>>

Saved(c) ==
    /\ call[c].kind = "save" /\ call[c].step = "answered"
    /\ tab' = [tab EXCEPT ![call[c].tab] = [@ EXCEPT !.saved = call[c].text]]
    /\ call' = [call EXCEPT ![c] = FreeCall]
    /\ UNCHANGED <<disk, previews, history, budget>>

\* A failed save or preview only changes the status line.
RequestFailed(c) ==
    /\ call[c].kind \in {"save", "preview"} /\ call[c].step = "failed"
    /\ call' = [call EXCEPT ![c] = FreeCall]
    /\ UNCHANGED <<disk, previews, tab, history, budget>>

\* Mutant: every answer is shown.
ShowEveryAnalysis(c) ==
    /\ call[c].kind = "analysis" /\ call[c].step \in {"sent", "failed"}
    /\ tab' = [tab EXCEPT ![call[c].tab] = [tab[call[c].tab] EXCEPT !.newest = IF @ = c THEN None ELSE @,
                          !.findings = [post |-> call[c].post, text |-> call[c].text]]]
    /\ call' = [call EXCEPT ![c] = FreeCall]
    /\ UNCHANGED <<disk, previews, history, budget>>

\* The answer to an analysis, or its failure, is shown if no newer one was
\* asked for and the post is still selected.
AnswerAnalysis(c) ==
    /\ call[c].kind = "analysis" /\ call[c].step \in {"sent", "failed"}
    /\ LET t == call[c].tab
           newest == tab[t].newest = c
       IN tab' = [tab EXCEPT ![t] = [tab[t] EXCEPT !.newest = IF newest THEN None ELSE @,
                             !.findings = IF newest /\ call[c].post = tab[t].post
                                             THEN [post |-> call[c].post, text |-> call[c].text]
                                             ELSE @]]
    /\ call' = [call EXCEPT ![c] = FreeCall]
    /\ UNCHANGED <<disk, previews, history, budget>>

-----------------------------------------------------------------------------
(* The server.                                                             *)

ReadPost(c) ==
    /\ call[c].kind = "open" /\ call[c].step = "sent"
    /\ call' = [call EXCEPT ![c] = [@ EXCEPT !.text = disk[call[c].post], !.step = "answered"]]
    /\ UNCHANGED <<disk, previews, tab, history, budget>>

SavePost(c) ==
    /\ call[c].kind = "save" /\ call[c].step = "sent"
    /\ disk' = [disk EXCEPT ![call[c].post] = call[c].text]
    /\ shared' = (shared \/ \E u \in Tabs \ {call[c].tab} : tab[u].post = call[c].post)
    /\ call' = [call EXCEPT ![c] = [@ EXCEPT !.step = "answered"]]
    /\ UNCHANGED <<previews, tab, hasty, budget>>

\* A preview is rendered among the posts on disk, which have to parse and to
\* have a slug each.
Discoverable ==
    /\ \A p \in Posts : disk[p] \notin Broken
    /\ \A p, q \in Posts : Address(disk[p]) = Address(disk[q]) => p = q

Renders(text) == Discoverable /\ text \notin Broken

StorePreview(c) ==
    /\ call[c].kind = "preview" /\ call[c].step = "sent"
    /\ Renders(call[c].text)
    /\ previews' = [previews EXCEPT ![Address(call[c].text)] =
                        [post |-> call[c].post, text |-> call[c].text]]
    /\ call' = [call EXCEPT ![c] = [@ EXCEPT !.step = "stored"]]
    /\ UNCHANGED <<disk, tab, history, budget>>

RefusePreview(c) ==
    /\ call[c].kind = "preview" /\ call[c].step = "sent"
    /\ ~Renders(call[c].text)
    /\ call' = [call EXCEPT ![c] = [@ EXCEPT !.step = "failed"]]
    /\ UNCHANGED <<disk, previews, tab, history, budget>>

\* The event goes to every connected tab; the answer carries nothing else.
Broadcast(c) ==
    /\ call[c].kind = "preview" /\ call[c].step = "stored"
    /\ tab' = [t \in Tabs |->
                 IF tab[t].streaming
                 THEN [tab[t] EXCEPT !.events =
                         Append(@, [post |-> call[c].post, address |-> Address(call[c].text)])]
                 ELSE [tab[t] EXCEPT !.missed = @ \/ Shows(t, Address(call[c].text))]]
    /\ call' = [call EXCEPT ![c] = FreeCall]
    /\ UNCHANGED <<disk, previews, history, budget>>

\* Any request may be refused: the post is gone, the project does not load.
Refuse(c) ==
    /\ Spend("faults")
    /\ call[c].step = "sent"
    /\ call' = [call EXCEPT ![c] = [@ EXCEPT !.step = "failed"]]
    /\ UNCHANGED <<disk, previews, tab, history>>

-----------------------------------------------------------------------------
(* The event stream and the pane.                                          *)

\* The first event of a tab, which loads its address or passes by.
Heed(t, event, heeded) ==
    /\ tab' = [tab EXCEPT ![t] = [tab[t] EXCEPT !.events = Tail(@),
                          !.loading = IF heeded THEN event.address ELSE @,
                          !.missed = @ \/ (event.post # tab[t].post /\ Shows(t, event.address))]]
    /\ UNCHANGED <<disk, previews, call, history, budget>>

\* Mutant: a page that is shown is not loaded again.
OnNewAddress(t) ==
    /\ tab[t].events # <<>>
    /\ LET event == Head(tab[t].events)
       IN Heed(t, event, event.post = tab[t].post /\ ~Shows(t, event.address))

\* The time in the address makes it a new one, so it is always loaded.
OnPreview(t) ==
    /\ tab[t].events # <<>>
    /\ LET event == Head(tab[t].events) IN Heed(t, event, event.post = tab[t].post)

\* An address that is loading is abandoned when another one is.
LoadPane(t) ==
    /\ tab[t].loading # None
    /\ tab' = [tab EXCEPT ![t] = [@ EXCEPT !.pane = previews[tab[t].loading], !.loading = None,
                          !.missed = FALSE]]
    /\ UNCHANGED <<disk, previews, call, history, budget>>

\* What was sent and not received is lost; reconnecting replays nothing.
DropStream(t) ==
    /\ Spend("faults")
    /\ tab[t].streaming
    /\ tab' = [tab EXCEPT ![t] = [tab[t] EXCEPT !.streaming = FALSE, !.events = <<>>,
                          !.missed = @ \/ \E i \in DOMAIN tab[t].events :
                                               Shows(t, tab[t].events[i].address)]]
    /\ UNCHANGED <<disk, previews, call, history>>

Reconnect(t) ==
    /\ ~tab[t].streaming
    /\ tab' = [tab EXCEPT ![t] = [@ EXCEPT !.streaming = TRUE]]
    /\ UNCHANGED <<disk, previews, call, history, budget>>

-----------------------------------------------------------------------------

TabStep(t) == PreviewTimer(t) \/ AnalysisTimer(t) \/ OnPreview(t) \/ LoadPane(t) \/ Reconnect(t)

CallStep(c) ==
    \/ ReadPost(c) \/ SavePost(c) \/ StorePreview(c) \/ RefusePreview(c) \/ Broadcast(c)
    \/ MountEditor(c) \/ OpenFailed(c) \/ Saved(c) \/ RequestFailed(c) \/ AnswerAnalysis(c)

Author(t) ==
    \/ \E p \in Posts : OpenPost(t, p)
    \/ \E text \in Texts : Type(t, text)
    \/ Save(t)

Next ==
    \/ \E t \in Tabs : Author(t) \/ TabStep(t) \/ DropStream(t)
    \/ \E c \in Calls : CallStep(c) \/ Refuse(c)

Spec == Init /\ [][Next]_vars

-----------------------------------------------------------------------------
(* Properties.                                                             *)

Events == [post : Posts, address : Addresses]

TabType ==
    [post : Posts \cup {None}, buffer : Texts \cup {None}, saved : Texts \cup {None},
     host : {"empty", "loading", "editor", "error"}, previewDue : BOOLEAN,
     analysisDue : BOOLEAN, newest : Calls \cup {None}, findings : Results \cup {None},
     events : Seq(Events), loading : Addresses \cup {None}, pane : Results \cup {None},
     missed : BOOLEAN, streaming : BOOLEAN]

CallType ==
    [step : {"free", "sent", "stored", "answered", "failed"}, tab : Tabs \cup {None},
     kind : {"open", "preview", "analysis", "save"}, post : Posts \cup {None},
     text : Texts \cup {None}]

\* Types, and that the sequence number of a tab names an analysis it awaits
\* (analysisSeq in app.js).
TypeOK ==
    /\ disk \in [Posts -> Texts]
    /\ previews \in [Addresses -> Results \cup {None}]
    /\ call \in [Calls -> CallType]
    /\ tab \in [Tabs -> TabType]
    /\ hasty \in BOOLEAN /\ shared \in BOOLEAN
    /\ budget \in [{"opens", "edits", "saves", "faults"} -> Nat]
    /\ \A t \in Tabs : tab[t].newest # None =>
          LET c == tab[t].newest
          IN ~Free(c) /\ call[c].tab = t /\ call[c].kind = "analysis"

\* Whatever order opens, timers and answers come in, once a tab has nothing to
\* wait for, the findings next to its editor are those of the text in it under
\* the selected path ("A stale answer must not overwrite a newer one").
FindingsAreOfTheBuffer ==
    \A t \in Tabs :
        /\ tab[t].host = "editor" /\ ~tab[t].analysisDue
        /\ ~InFlight(t, {"open", "analysis"})
        => tab[t].findings = [post |-> tab[t].post, text |-> tab[t].buffer]

\* As long as the author waits for the page before opening or saving, even
\* when requests fail, a post is only ever overwritten with a text of its own
\* (openPost, save).
PatientSavesStayHome == ~hasty => \A p \in Posts : disk[p].post = p

\* Then also, when the tab says "saved" and no save is under way, the text in
\* the editor is on disk, unless a post was saved that another tab had selected
\* (markDirty, save).
SavedMeansOnDisk ==
    ~hasty /\ ~shared => \A t \in Tabs :
        /\ tab[t].host = "editor" /\ tab[t].buffer = tab[t].saved
        /\ ~InFlight(t, {"save"})
        => disk[tab[t].post] = tab[t].buffer

\* Nothing the server stored is still to be told or loaded.
PaneIsQuiet(t) ==
    /\ tab[t].events = <<>> /\ tab[t].loading = None
    /\ \A c \in Calls : call[c].step # "stored"

\* Once it has been told, a pane shows the newest preview the server stored at
\* its address, though it was told of it apart from the answer and tabs preview
\* at once (StorePreview before Broadcast, onPreview): unless it took the news
\* for another post's, or its stream was down.
PaneShowsWhatIsStored ==
    \A t \in Tabs :
        PaneIsQuiet(t) /\ tab[t].pane # None /\ ~tab[t].missed
        => previews[Address(tab[t].pane.text)] = tab[t].pane

\* Refuted.  No save puts a text where it does not belong: the only writes are
\* "the ones the author asks for by pressing save" (internal/cli/editor.go),
\* of the post that is open.
SavesStayHome == \A p \in Posts : disk[p].post = p

\* The state of a tab and its server are well formed, and what the pane shows
\* is what the server stored last.
PaneIsOfTheStore == TypeOK /\ PaneShowsWhatIsStored
=============================================================================
