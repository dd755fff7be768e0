------------------------------- MODULE MCServers -------------------------------
(* The two servers a person keeps open, `selfdoc serve' and the editor, with    *)
(* either two requests and no stream, or a stream and a request beside it (the *)
(* link targets, and the streams, are each bounded without the other).  A      *)
(* behaviour is of one of them.                                                *)
EXTENDS ServeReload, EditorServer

VARIABLE part

MCRepos == <<"p">>

NoServe == mtime = [f \in Files |-> 0] /\ previous = Unread /\ walk = Unread
           /\ tab = [t \in Tabs |-> Closed] /\ visits = 0
MCInit ==
  /\ part \in {"reload", "search", "stream"}
  /\ ServerInit
  /\ IF part = "reload" THEN Init ELSE NoServe

RequestKinds ==
  IF part = "search" THEN {"none", "search", "publish"} ELSE {"none", "preview", "publish"}

MCNext ==
  \/ part = "reload" /\ Next /\ UNCHANGED <<serverVars, part>>
  \/ /\ part \in {"search", "stream"} /\ ServerNext
     /\ UNCHANGED <<vars, part>>
     /\ \A r \in Requests : request'[r].kind \in RequestKinds
     /\ part = "search" => stream' = stream
     /\ part = "stream" => manifests' = manifests

(* The fairness of either specification, of the part a behaviour is of.        *)
Serving(A) == part = "reload" /\ A /\ UNCHANGED serverVars
Editing(A) == part \in {"search", "stream"} /\ A /\ UNCHANGED vars
fairVars == <<vars, serverVars>>
MCFair ==
  /\ WF_fairVars(Serving(Compare) \/ Editing(CloseListener \/ Shutdown))
  /\ \A f \in Files : WF_fairVars(Serving(Stat(f)))
  /\ \A t \in Tabs : /\ WF_fairVars(Serving(Connect(t)))
                     /\ WF_fairVars(Serving(Tell(t))) /\ WF_fairVars(Serving(Reload(t)))
  /\ \A r \in Requests : SF_fairVars(Editing(Handle(r)))
  /\ \A s \in Shells : /\ SF_fairVars(Editing(HandleStream(s)))
                       /\ SF_fairVars(Editing(StreamEnds(s)))
                       /\ WF_fairVars(Editing(ShellReads(s)))

MCSpec ==
  /\ MCInit /\ [][MCNext]_<<vars, serverVars, part>>
  /\ MCFair
===============================================================================
