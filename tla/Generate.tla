------------------------------- MODULE Generate -------------------------------
(* The commands that derive documentation pages from code and judge whether   *)
(* descriptions still fit it: gen, build, check and baseline accept, run one  *)
(* at a time by the author of a project who edits code and pages in between.  *)
(* gen writes page by page and records what it seeded only at the end, and it *)
(* may die anywhere in between.                                               *)
EXTENDS Naturals, FiniteSets, Functions

(* The hash store of a project (internal/staleness): what it records of every *)
(* page, when a page counts as stale or drifted, and how every writer of the  *)
(* store advances it; and the rule (internal/ownership) that tells a machine  *)
(* description from a person's.                                               *)
(*                                                                            *)
(* A hash is modelled by the text it is the hash of, and Unknown is the empty *)
(* string of the code.  A store is a function from the pages it knows to      *)
(* their entries.                                                             *)

CONSTANTS
  Modules,      \* names of the pages that document one module each
  Commands,     \* names of the pages that document one CLI command each
  Indexes,      \* {gen-index.md}, or {} to leave it out
  Essays,       \* names of handwritten pages
  Unknown,      \* the hash that was never recorded, the description a page lacks
  Sentences,    \* first sentences of documentation comments and of help texts
  Handwriting   \* descriptions a person writes

Generated == Modules \cup Commands \cup Indexes
Pages     == Generated \cup Essays

Template  == "template"      \* the module template, instantiated for the page
IndexText == "index phrase"  \* any text of the index format

Texts == Sentences \cup Handwriting \cup {Template, IndexText}

-------------------------------------------------------------------------------
(* Entries.                                                                   *)

Entry(c, d, so, sc, se) ==
  [content |-> c, description |-> d, source |-> so, schema |-> sc, seed |-> se]

Blank == Entry(Unknown, Unknown, Unknown, Unknown, Unknown)

(* What a store carries after gen seeded a page it had no entry for.          *)
SeedOf(stored, p) == IF p \in DOMAIN stored THEN stored[p].seed ELSE Unknown

(* The entry each page would get.  Only the passes that are given directives  *)
(* and schemas measure the last two; a page without a description is not      *)
(* tracked.                                                                   *)
ComputeCurrentHashes(docs, measuring) ==
  [p \in {q \in DOMAIN docs : docs[q].description # Unknown} |->
     Entry(docs[p].content, docs[p].description,
           IF measuring THEN docs[p].source ELSE Unknown,
           IF measuring THEN docs[p].schema ELSE Unknown, Unknown)]

-------------------------------------------------------------------------------
(* Findings.  Each compares one measurement with the stored one, and each is  *)
(* cleared by a description that is no longer the stored one.                 *)

CheckStaleness(p, now, stored) ==
  /\ p \in DOMAIN stored
  /\ now.content # stored[p].content
  /\ now.description = stored[p].description

CheckDrift(p, now, stored) ==
  /\ p \in DOMAIN stored
  /\ now.source # Unknown
  /\ stored[p].source \notin {Unknown, now.source}
  /\ now.description = stored[p].description

CheckSchemaDrift(p, now, stored) ==
  /\ p \in DOMAIN stored
  /\ now.schema # Unknown
  /\ stored[p].schema \notin {Unknown, now.schema}
  /\ now.description = stored[p].description

(* The pages one pass reports.  The pages in exempt carry machine text, which *)
(* nobody can fix by hand, and are never reported.                            *)
Reported(docs, measuring, exempt, stored) ==
  LET now == ComputeCurrentHashes(docs, measuring)
  IN {p \in DOMAIN now :
        \/ CheckStaleness(p, now[p], stored)
        \/ CheckDrift(p, now[p], stored)
        \/ CheckSchemaDrift(p, now[p], stored)} \ exempt

-------------------------------------------------------------------------------
(* Advancing the store.                                                       *)

Merge(existing, fresh) ==
  [f \in DOMAIN existing |-> IF fresh[f] = Unknown THEN existing[f] ELSE fresh[f]]

(* A new description is paired with the sources this pass measured, and with  *)
(* none where it measured none.                                               *)
Advanced(stored, p, fresh) ==
  IF p \notin DOMAIN stored
  THEN Merge(Blank, fresh)
  ELSE LET merged == Merge(stored[p], fresh)
       IN IF fresh.description = stored[p].description
          THEN merged
          ELSE [merged EXCEPT !.source = fresh.source, !.schema = fresh.schema]

(* Mutant: reported pages advance as well.                                    *)
AdvanceEverything(docs, measuring, exempt, stored) ==
  LET now == ComputeCurrentHashes(docs, measuring)
  IN [p \in DOMAIN stored \cup DOMAIN now |->
        IF p \in DOMAIN now THEN Advanced(stored, p, now[p]) ELSE stored[p]]

(* A reported page keeps its whole entry; every other one advances.           *)
UpdateHashes(docs, measuring, exempt, stored) ==
  LET now  == ComputeCurrentHashes(docs, measuring)
      held == Reported(docs, measuring, exempt, stored)
  IN [p \in DOMAIN stored \cup DOMAIN now |->
        IF p \in held \/ p \notin DOMAIN now THEN stored[p] ELSE Advanced(stored, p, now[p])]

-------------------------------------------------------------------------------
(* Ownership of a description.                                                *)

(* IsMachineOwned for a generated page: the recorded seed, or a text the page *)
(* kind can be recognized by.  help is the help text the CLI schema has now,  *)
(* Unknown for a command it does not have.                                    *)
IsMachineOwned(p, text, seed, help) ==
  \/ text = seed
  \/ p \in Modules  /\ text = Template
  \/ p \in Indexes  /\ text = IndexText
  \/ p \in Commands /\ text = help

(* readExistingCLIDescription, which gen asks about a command's page: it      *)
(* recomputes from the help text and is not given the seed.                   *)
IsDefaultCLIDescription(text, help) == text = help

-------------------------------------------------------------------------------
CONSTANTS
  Refs,       \* [Essays -> SUBSET Modules]: the modules a page's directives name
  Bodies,     \* contents an author gives a handwritten page
  GenDies,    \* whether a gen may end before it is done
  MaxEdits    \* bound on the author's edits and the gens that die, together

Gone   == "gone"    \* the module or command does not exist
Silent == "silent"  \* it exists and documents nothing

(* A page has one name, and is about one module or command or is an essay.    *)
ASSUME PagesAreDistinct ==
  /\ Modules \cap (Commands \cup Indexes) = {} /\ Commands \cap Indexes = {}
  /\ Essays \cap Generated = {}
  /\ Refs \in [Essays -> SUBSET Modules]

(* Handwriting is what no machine text says, and the hash of a text is no     *)
(* empty string.                                                              *)
ASSUME TextsAreDistinct ==
  /\ Sentences # {} /\ Handwriting # {} /\ Bodies # {}
  /\ Handwriting \cap (Sentences \cup {Template, IndexText}) = {}
  /\ {Silent, Gone} \cap Sentences = {}
  /\ Unknown \notin Texts /\ Unknown \notin Bodies
  /\ \A modules \in SUBSET Modules : Unknown # modules
  /\ \A text \in Modules \cup Sentences \cup {Silent, Gone} : Unknown # {text}

ASSUME EditsAssumption == MaxEdits \in Nat

VARIABLES
  code,      \* what the code says of each module and command
  claimed,   \* modules whose page name a handwritten page holds
  file,      \* the pages on disk
  store,     \* the hash store on disk
  gen,       \* the gen that is running
  author,    \* history: who wrote each page's present description
  reviewed,  \* history: what the present description was last judged against
  settled,   \* history: nobody edited anything since a gen ended well
  edits

vars == <<code, claimed, file, store, gen, author, reviewed, settled, edits>>

Idle == [phase |-> "idle", todo |-> {}, deleted |-> {}]

-------------------------------------------------------------------------------
(* What the code derives.                                                     *)

Exists(p) == code[p] # Gone

(* The pages one gen writes: every module no handwritten page answers for.    *)
ModulePages  == {m \in Modules : Exists(m) /\ m \notin claimed}
CommandPages == {c \in Commands : Exists(c)}

(* The machine text of a page's description.                                  *)
SeedText(p) ==
  IF p \in Indexes THEN IndexText
  ELSE IF code[p] = Silent THEN Template ELSE code[p]

(* The body gen writes: a module's page only names the module, the index      *)
(* lists the modules' pages, and a command's page spells out its help.        *)
BodyOf(p) ==
  IF p \in Indexes THEN ModulePages
  ELSE IF p \in Commands THEN {code[p]} ELSE {p}

HelpOf(p) == IF p \in Commands /\ Exists(p) THEN code[p] ELSE Unknown

(* Module documentation behind a page's directives; unknown when no module    *)
(* has any.                                                                   *)
SourceOf(p) ==
  LET mods == {m \in (IF p \in Essays THEN Refs[p] ELSE {p} \cap Modules) :
                 code[m] \notin {Gone, Silent}}
  IN IF mods = {} THEN Unknown ELSE [m \in mods |-> code[m]]

SchemaOf(p) == HelpOf(p)

(* Pages as the passes over the store see them.                               *)
Docs == [p \in DOMAIN file |->
           [content |-> file[p].content, description |-> file[p].description,
            source |-> SourceOf(p), schema |-> SchemaOf(p)]]

(* The pages whose description is machine text, by the store as it is.        *)
machineOwnedKeys ==
  {p \in DOMAIN file : /\ file[p].generated
                       /\ IsMachineOwned(p, file[p].description, SeedOf(store, p), HelpOf(p))}

(* What selfdoc check reports.                                                *)
Findings == Reported(Docs, TRUE, machineOwnedKeys, store)

-------------------------------------------------------------------------------
(* gen.                                                                       *)

(* Whether gen keeps the description it finds on a page.                      *)
Keeps(p) ==
  /\ p \in DOMAIN file
  /\ IF p \in Commands
     THEN ~IsDefaultCLIDescription(file[p].description, HelpOf(p))
     ELSE ~IsMachineOwned(p, file[p].description, SeedOf(store, p), Unknown)

(* A generated page: a description kept or seeded, and a marker that says so. *)
PageContent(p) ==
  [generated |-> TRUE, seeded |-> ~Keeps(p), content |-> BodyOf(p),
   description |-> IF Keeps(p) THEN file[p].description ELSE SeedText(p)]

StartGen ==
  /\ gen.phase = "idle"
  /\ gen' = [phase |-> "pages", deleted |-> {},
             todo |-> ModulePages \cup Indexes \cup CommandPages]
  /\ UNCHANGED <<code, claimed, file, store, author, reviewed, settled, edits>>

(* Module pages come first, then the index, then the commands' pages.         *)
IsNext(p) ==
  /\ p \in gen.todo
  /\ p \notin Modules => gen.todo \cap Modules = {}
  /\ p \in Commands => gen.todo \cap Indexes = {}

WritePage(p) ==
  /\ IsNext(p)
  /\ file' = [q \in DOMAIN file \cup {p} |-> IF q = p THEN PageContent(p) ELSE file[q]]
  /\ gen' = [gen EXCEPT !.todo = @ \ {p}]
  /\ author' = IF Keeps(p) THEN author ELSE [author EXCEPT ![p] = "machine"]
  /\ UNCHANGED <<code, claimed, store, reviewed, settled, edits>>

(* Only files that carry the generated marker are swept.                      *)
removeStaleGenerated ==
  /\ gen.phase = "pages"
  /\ gen.todo = {}
  /\ LET stale == {p \in DOMAIN file \ (ModulePages \cup Indexes \cup CommandPages) :
                     file[p].generated}
     IN /\ file' = Restrict(file, DOMAIN file \ stale)
        /\ gen' = [gen EXCEPT !.phase = "save", !.deleted = stale]
  /\ UNCHANGED <<code, claimed, store, author, reviewed, settled, edits>>

(* The store after gen's own pass: entries of swept pages are dropped, a      *)
(* seeded page's description becomes its seed, and a page somebody described  *)
(* loses the seed it had.                                                     *)
recordSeedHashes(written) ==
  LET kept   == DOMAIN store \ gen.deleted
      seeded == {p \in written : file[p].seeded}
      entry(p) == IF p \in kept THEN store[p] ELSE Blank
  IN [p \in kept \cup seeded |->
        IF p \in seeded THEN [entry(p) EXCEPT !.seed = file[p].description]
        ELSE IF p \in written THEN [entry(p) EXCEPT !.seed = Unknown]
        ELSE entry(p)]

SaveSeeds ==
  /\ gen.phase = "save"
  /\ store' = recordSeedHashes(ModulePages \cup Indexes \cup CommandPages)
  /\ gen' = [gen EXCEPT !.phase = "baselines"]
  /\ UNCHANGED <<code, claimed, file, author, reviewed, settled, edits>>

(* The last writes of a gen: every page's baseline, measured as check         *)
(* measures it.                                                               *)
RecordBaselines ==
  /\ gen.phase = "baselines"
  /\ store' = UpdateHashes(Docs, TRUE, machineOwnedKeys, store)
  /\ gen' = Idle
  /\ settled' = TRUE
  /\ UNCHANGED <<code, claimed, file, author, reviewed, edits>>

(* A page that cannot be rendered, a root file that may not be overwritten, a *)
(* directive that does not resolve, or a crash.                               *)
DieInGen ==
  /\ GenDies
  /\ gen.phase # "idle"
  /\ edits < MaxEdits
  /\ gen' = Idle
  /\ edits' = edits + 1 /\ settled' = FALSE
  /\ UNCHANGED <<code, claimed, file, store, author, reviewed>>

-------------------------------------------------------------------------------
(* The other commands.                                                        *)

(* A build measures neither sources nor schemas and exempts nobody.           *)
Build ==
  /\ gen.phase = "idle"
  /\ store' = UpdateHashes(Docs, FALSE, {}, store)
  /\ settled' = FALSE
  /\ UNCHANGED <<code, claimed, file, gen, author, reviewed, edits>>

Measured(p) == <<file[p].content, SourceOf(p), SchemaOf(p)>>

(* Only pages that are reported can be accepted, all of them or none.         *)
AcceptBaselines(pages) ==
  /\ gen.phase = "idle"
  /\ pages # {}
  /\ pages \subseteq Findings
  /\ LET now == ComputeCurrentHashes(Docs, TRUE)
     IN store' = [p \in DOMAIN store |->
                    IF p \in pages THEN Merge(store[p], now[p]) ELSE store[p]]
  /\ reviewed' = [p \in Pages |-> IF p \in pages THEN Measured(p) ELSE reviewed[p]]
  /\ settled' = FALSE
  /\ UNCHANGED <<code, claimed, file, gen, author, edits>>

-------------------------------------------------------------------------------
(* The author, between two commands.                                          *)

(* A judgement holds until what it judged is changed: the page, or the code   *)
(* it documents, which for the index is which modules have a page.            *)
Unjudged == <<>>
Outdated(pages) == [p \in Pages |-> IF p \in pages THEN Unjudged ELSE reviewed[p]]
Documenting(p) ==
  {p} \cup {e \in Essays : p \in Refs[e]} \cup IF ModulePages' # ModulePages THEN Indexes ELSE {}

MayEdit == gen.phase = "idle" /\ edits < MaxEdits

EditCode(p, text) ==
  /\ MayEdit
  /\ code[p] # text
  /\ code' = [code EXCEPT ![p] = text]
  /\ UNCHANGED claimed /\ reviewed' = Outdated(Documenting(p))
  /\ edits' = edits + 1 /\ settled' = FALSE
  /\ UNCHANGED <<file, store, gen, author>>

(* A new description says something the store has not recorded: a text that   *)
(* returns to what it was cannot be told from one that never changed.         *)
Describe(p, text) ==
  /\ MayEdit
  /\ p \in DOMAIN file
  /\ text # file[p].description
  /\ p \in DOMAIN store => text # store[p].description
  /\ file' = [file EXCEPT ![p].description = text]
  /\ author' = [author EXCEPT ![p] = "person"]
  /\ reviewed' = [reviewed EXCEPT ![p] = Measured(p)]
  /\ edits' = edits + 1 /\ settled' = FALSE
  /\ UNCHANGED <<code, claimed, store, gen>>

EditBody(p, body) ==
  /\ MayEdit
  /\ p \in Essays
  /\ body # file[p].content
  /\ file' = [file EXCEPT ![p].content = body]
  /\ reviewed' = Outdated({p})
  /\ edits' = edits + 1 /\ settled' = FALSE
  /\ UNCHANGED <<code, claimed, store, gen, author>>

(* A handwritten page takes a module's name, and gen sweeps its own.          *)
Claim(m) ==
  /\ MayEdit
  /\ m \notin claimed
  /\ claimed' = claimed \cup {m} /\ UNCHANGED code
  /\ reviewed' = Outdated(IF ModulePages' # ModulePages THEN Indexes ELSE {})
  /\ edits' = edits + 1 /\ settled' = FALSE
  /\ UNCHANGED <<file, store, gen, author>>

Init ==
  /\ code = [p \in Modules \cup Commands |-> CHOOSE s \in Sentences : TRUE]
  /\ claimed = {}
  /\ file = [p \in Essays |->
               [generated |-> FALSE, seeded |-> FALSE, content |-> CHOOSE b \in Bodies : TRUE,
                description |-> CHOOSE t \in Handwriting : TRUE]]
  /\ store = <<>>
  /\ gen = Idle
  /\ author = [p \in Pages |-> IF p \in Essays THEN "person" ELSE "machine"]
  /\ reviewed = [p \in Pages |-> Unjudged]
  /\ settled = FALSE
  /\ edits = 0

Next ==
  \/ StartGen \/ removeStaleGenerated \/ SaveSeeds \/ RecordBaselines \/ DieInGen
  \/ \E p \in Generated : WritePage(p)
  \/ Build
  \/ \E pages \in SUBSET Pages : AcceptBaselines(pages)
  \/ \E m \in Modules : \E t \in Sentences \cup {Silent, Gone} : EditCode(m, t)
  \/ \E c \in Commands : \E t \in Sentences \cup {Gone} : EditCode(c, t)
  \/ \E p \in Pages : \E t \in Handwriting : Describe(p, t)
  \/ \E p \in Essays : \E b \in Bodies : EditBody(p, b)
  \/ \E m \in Modules : Claim(m)

Spec == Init /\ [][Next]_vars

-------------------------------------------------------------------------------
(* Properties.                                                                *)

TypeOK ==
  /\ code \in [Modules \cup Commands -> Sentences \cup {Silent, Gone}]
  /\ claimed \subseteq Modules
  /\ DOMAIN file \subseteq Pages
  /\ \A p \in DOMAIN file : file[p].description \in Texts
  /\ DOMAIN store \subseteq Pages
  /\ \A p \in DOMAIN store : /\ store[p].description \in Texts \cup {Unknown}
                             /\ store[p].seed \in Texts \cup {Unknown}
  /\ gen.phase \in {"idle", "pages", "save", "baselines"}
  /\ gen.todo \subseteq Generated
  /\ gen.deleted \subseteq Generated

(* A description a person wrote stays on the page, whatever gen runs, dies or *)
(* runs again, until a person writes another or the page itself goes (gen.go: *)
(* a handwritten description is preserved verbatim).                          *)
HandwritingSurvives ==
  [][\A p \in Pages :
       author[p] = "person" /\ p \in DOMAIN file /\ p \in DOMAIN file' /\ gen.phase # "idle"
         => file'[p].description = file[p].description]_vars

(* What check reports of a description a person wrote stays reported through  *)
(* every command, failed ones included, until a person acts on it: edits the  *)
(* page or the code, or accepts the page; only a gen that writes the recorded *)
(* body back, because the code is what it was, ends it too                    *)
(* (TestStaleFreezeIsSticky).                                                 *)
FindingsStick ==
  [][\A p \in {q \in Findings : author[q] = "person"} :
       \/ p \in Findings'
       \/ p \notin DOMAIN file'
       \/ edits' # edits
       \/ reviewed'[p] # reviewed[p]
       \/ file'[p].content = store[p].content /\ file[p].content # store[p].content]_vars

(* A description that was written or accepted, with neither the page nor what *)
(* it documents changed since, is never reported, whichever commands ran in   *)
(* between (the comment in UpdateHashes: a rewrite must not be paired with *)
(* sources it was never reviewed against).                                    *)
ReviewedIsQuiet ==
  \A p \in DOMAIN file : reviewed[p] = Measured(p) => p \notin Findings

(* Once a gen has ended well, running it again changes neither a page nor the *)
(* store, so a second run has nothing to commit.                              *)
GenIsIdempotent == [][settled /\ settled' => UNCHANGED <<file, store>>]_vars

(* What a person wrote, and what a person has to look at, outlives every      *)
(* command, and the commands themselves come to rest (the ledger of gen and   *)
(* check: hashes, seeds and frozen descriptions).                             *)
PersonsDecide ==
  []TypeOK /\ []ReviewedIsQuiet /\ HandwritingSurvives /\ FindingsStick /\ GenIsIdempotent
===============================================================================
