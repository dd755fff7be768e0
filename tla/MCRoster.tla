------------------------------- MODULE MCRoster --------------------------------
(* The assembly as operators run it, in one run of three parts, which share no *)
(* state: the roster edited while projects deploy, the directory a preview is  *)
(* assembled into, and the answers of outbound links that deploys hand on.     *)
EXTENDS MCAssembly, AssemblyPreview, OutboundLinks

VARIABLE part

(* AssemblyPreview: either of two projects may be at the root; a page and a    *)
(* post come and go, and the post moves from one project to the other.         *)
MCBuilds ==
  [s \in Slugs |->
     CASE s = hub -> {B({index, guide}, {}), B({index}, {news})}
       [] s = lib -> {B({index}, {news}), B({index, guide}, {})}
       [] s = libx -> {B({index}, {})}]

(* Either is at the root, alone or with both others; hub also with lib.          *)
MCLines ==
  {<<hub, <<>> >>, <<hub, <<lib>> >>, <<hub, <<libx, lib>> >>,
   <<lib, <<>> >>, <<lib, <<hub, libx>> >>}

(* OutboundLinks: one page or two, trusted for a day or two; a page named twice.*)
Declared(days, pages) == [days |-> days, pages |-> pages]
MCDeclarations ==
  {NoFile, Declared(1, <<"p">>), Declared(2, <<"p", "q">>), Declared(1, <<"p", "p">>)}

NoPreview ==
  /\ folder = Vacant /\ checkout = [s \in Slugs |-> B({}, {})] /\ command = Idle
  /\ strays = {} /\ previews = 0 /\ sourceEdits = 0 /\ kills = 0
NoOutbound ==
  /\ day = 0 /\ answers = {} /\ moved = FALSE /\ deploy = NoDeploy /\ events = 0
  /\ branch = [toml |-> NoFile, links |-> Never, cache |-> Never]
  /\ told = [u \in Urls |-> {}] /\ settled = Never

MCInit ==
  /\ Init
  /\ \/ part = "roster" /\ NoPreview /\ NoOutbound
     \/ part = "preview" /\ PreviewInit /\ NoOutbound
     \/ part = "outbound" /\ NoPreview /\ OutInit

MCNext ==
  /\ \/ part = "roster" /\ Next /\ UNCHANGED <<previewVars, outVars>>
     \/ part = "preview" /\ PreviewNext /\ UNCHANGED <<vars, outVars>>
     \/ part = "outbound" /\ OutNext /\ UNCHANGED <<vars, previewVars>>
  /\ UNCHANGED part

MCSpec == MCInit /\ [][MCNext]_<<vars, previewVars, outVars, part>>
===============================================================================
