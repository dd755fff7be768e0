-------------------------------- MODULE CliPages -------------------------------
(* The reference pages of a project whose command line is declared through     *)
(* strictcli (internal/strictclisupport), and the check that they are complete *)
(* (internal/check checkCLIPages).  The same declaration is walked by three    *)
(* recursions: the rows of a table, the tokens a page must mention, and the    *)
(* help texts that are measured.                                               *)
EXTENDS Naturals, Sequences, SequencesExt, FiniteSets, TLC

CONSTANTS
  Schemas,  \* [commands, groups]: commands [name, help, effect, flags], groups
            \* [name, help, commands, groups]; a name is a sequence of parts
  NoPage

(* A flag is a value, or a selector whose choices are flags of their own       *)
(* ("member") or values of it ("token"): [kind, name, choices], a choice being *)
(* [name, flags].                                                              *)

VARIABLES
  schema,  \* what the program's dumped schema declares
  pages,   \* file name -> page
  fresh,   \* the pages were generated from this schema
  found    \* what the last check reported

cliVars == <<schema, pages, fresh, found>>

Index == <<"index">>
ValueName == <<"value">>

-------------------------------------------------------------------------------
(* A member-spelled choice's payload is its first scoped entry, if that is     *)
(* called value: it belongs to the member.                                     *)
HasPayload(selector, choice) ==
  selector.kind = "member" /\ choice.flags # <<>> /\ choice.flags[1].name = ValueName
Scoped(selector, choice) ==
  IF HasPayload(selector, choice) THEN Tail(choice.flags) ELSE choice.flags

RECURSIVE flagRows(_, _, _), choiceRows(_, _, _, _)
RECURSIVE IterFlagTokens(_), choiceTokens(_, _), IterFlagHelp(_), choiceHelps(_, _)

Row(name, typed, depth, scope) == [name |-> name, typed |-> typed, depth |-> depth, scope |-> scope]

(* A selector's own row, and under each choice's row what exists only with it. *)
choiceRows(selector, choices, depth, scope) ==
  IF choices = <<>> THEN <<>>
  ELSE <<Row(Head(choices).name, selector.kind = "member", depth + 1, scope)>>
         \o flagRows(Scoped(selector, Head(choices)), depth + 2, <<Head(choices).name>>)
         \o choiceRows(selector, Tail(choices), depth, scope)

flagRows(flags, depth, scope) ==
  IF flags = <<>> THEN <<>>
  ELSE <<Row(Head(flags).name, Head(flags).kind # "member", depth, scope)>>
         \o choiceRows(Head(flags), Head(flags).choices, depth, scope)
         \o flagRows(Tail(flags), depth, scope)

(* Every token an invocation can type.                                         *)
choiceTokens(selector, choices) ==
  IF choices = <<>> THEN <<>>
  ELSE (IF selector.kind = "member" THEN <<Head(choices).name>> ELSE <<>>)
         \o IterFlagTokens(Scoped(selector, Head(choices))) \o choiceTokens(selector, Tail(choices))

IterFlagTokens(flags) ==
  IF flags = <<>> THEN <<>>
  ELSE (IF Head(flags).kind = "member" THEN <<>> ELSE <<Head(flags).name>>)
         \o choiceTokens(Head(flags), Head(flags).choices) \o IterFlagTokens(Tail(flags))

(* Every declaration a reader sees, a member's payload under the member.       *)
choiceHelps(selector, choices) ==
  IF choices = <<>> THEN <<>>
  ELSE <<Head(choices).name>>
         \o (IF HasPayload(selector, Head(choices)) THEN <<Head(choices).name \o ValueName>> ELSE <<>>)
         \o IterFlagHelp(Scoped(selector, Head(choices))) \o choiceHelps(selector, Tail(choices))
IterFlagHelp(flags) ==
  IF flags = <<>> THEN <<>>
  ELSE <<Head(flags).name>> \o choiceHelps(Head(flags), Head(flags).choices) \o IterFlagHelp(Tail(flags))

-------------------------------------------------------------------------------
(* A group and every group nested in it, depth first, each with its path: one  *)
(* section per subcommand, headed by its full path.                            *)
RECURSIVE walkGroups(_, _)
walkGroup(group, path) ==
  [i \in 1 .. Len(group.commands) |->
    [path |-> Append(path, group.commands[i].name), command |-> group.commands[i]]]
    \o walkGroups(group.groups, path)
walkGroups(groups, path) ==
  IF groups = <<>> THEN <<>>
  ELSE walkGroup(Head(groups), Append(path, Head(groups).name)) \o walkGroups(Tail(groups), path)
SectionsOf(group) == walkGroup(group, <<group.name>>)

RECURSIVE flagsOf(_)
flagsOf(sections) ==
  IF sections = <<>> THEN <<>> ELSE Head(sections).command.flags \o flagsOf(Tail(sections))

(* What the check takes a page's flags to be.                                  *)
FlagsOfPage(name) ==
  IF \E c \in Range(schema.commands) : c.name = name
  THEN (CHOOSE c \in Range(schema.commands) : c.name = name).flags
  ELSE IF \E g \in Range(schema.groups) : g.name = name
  THEN flagsOf(SectionsOf(CHOOSE g \in Range(schema.groups) : g.name = name))
  ELSE <<>>

ExpectedCLIPageFilenames ==
  {Index} \cup {c.name : c \in Range(schema.commands)} \cup {g.name : g \in Range(schema.groups)}

-------------------------------------------------------------------------------
(* Descriptions: the first sentence of the help, a template when that is       *)
(* short, or what a person wrote.                                              *)
Default(kind, help) == [by |-> "machine", kind |-> kind, help |-> IF kind = "index" THEN 0 ELSE help]
Hand == [by |-> "hand", kind |-> "any", help |-> 0]

(* Mutant: a description a person wrote is recomputed like any other.          *)
readNoDescription(name, kind, help) == NoPage
readExistingCLIDescription(name, kind, help) ==
  LET existing == IF name \in DOMAIN pages THEN pages[name].description ELSE Default(kind, help)
  IN IF existing = Default(kind, help) THEN NoPage ELSE existing

Described(name, kind, help) ==
  LET existing == readExistingCLIDescription(name, kind, help)
  IN IF existing = NoPage THEN Default(kind, help) ELSE existing

Page(kind, name, help, flags) ==
  [kind |-> kind, description |-> Described(name, kind, help),
   shows |-> {row.name : row \in Range(flagRows(flags, 0, <<>>))}]

IndexPage == Page("index", Index, 0, <<>>)
CommandPage(c) == Page("command", c.name, c.help, c.flags)
GroupPage(g) == Page("group", g.name, g.help, flagsOf(SectionsOf(g)))

(* GenerateCLIPages writes the index, then the commands, then the groups: what *)
(* is written later to the same file is what stays.                            *)
Generated ==
  LET groups == [n \in {g.name : g \in Range(schema.groups)} |->
                   GroupPage(CHOOSE g \in Range(schema.groups) : g.name = n)]
      commands == [n \in {c.name : c \in Range(schema.commands)} |->
                   CommandPage(CHOOSE c \in Range(schema.commands) : c.name = n)]
  IN groups @@ commands @@ (Index :> IndexPage)

Gen ==
  /\ pages' = Generated @@ pages
  /\ fresh' = TRUE /\ found' = NoPage
  /\ UNCHANGED schema

(* The program gains or loses a flag, and its schema is dumped again.          *)
Dump ==
  /\ \E declared \in Schemas \ {schema} : schema' = declared
  /\ fresh' = FALSE /\ found' = NoPage
  /\ UNCHANGED pages

Describe(name) ==
  /\ pages' = [pages EXCEPT ![name].description = Hand]
  /\ found' = NoPage
  /\ UNCHANGED <<schema, fresh>>

(* strings.Contains: a token is on a page that shows one it begins.            *)
Mentions(page, token) == \E shown \in page.shows : IsPrefix(token, shown)

checkCLIPages ==
  {[lint |-> "missing", file |-> n, token |-> <<>>] : n \in ExpectedCLIPageFilenames \ DOMAIN pages}
  \cup UNION {{[lint |-> "undocumented", file |-> n, token |-> t] :
                t \in {t \in Range(IterFlagTokens(FlagsOfPage(n))) : ~Mentions(pages[n], t)}} :
              n \in (ExpectedCLIPageFilenames \ {Index}) \cap DOMAIN pages}

Check ==
  /\ found' = checkCLIPages
  /\ UNCHANGED <<schema, pages, fresh>>

CliInit ==
  /\ schema \in Schemas /\ pages = [n \in {} |-> NoPage]
  /\ fresh = FALSE /\ found = NoPage
CliNext ==
  \/ Gen
  \/ Dump
  \/ \E name \in DOMAIN pages : Describe(name)
  \/ Check

-------------------------------------------------------------------------------
AllFlags == {c.flags : c \in Range(schema.commands)}
              \cup {s.command.flags : s \in UNION {Range(SectionsOf(g)) : g \in Range(schema.groups)}}

(* The pages a run writes pass the check that follows it: every page it        *)
(* expects is there, and every token of every command, however deep its group  *)
(* is nested, is on the page (GenerateCLIPages and checkCLIPages).             *)
FreshPagesPass == fresh => checkCLIPages = {}

(* The check asks a page for exactly the tokens a user can type, which are the *)
(* rows the table shows as typed (IterFlagTokens: "comparing against flag      *)
(* names would demand that a page document a token no user can write").        *)
TokensAreTheTypedRows ==
  \A flags \in AllFlags :
    IterFlagTokens(flags) =
      LET typed == SelectSeq(flagRows(flags, 0, <<>>), LAMBDA row : row.typed)
      IN [i \in 1 .. Len(typed) |-> typed[i].name]

(* A row that names the condition it lives under stands under that choice's    *)
(* own row: the nearest one above it that is less indented (flagRows: "a row   *)
(* read on its own still states the condition it lives under").                *)
ScopesEnclose ==
  \A flags \in AllFlags :
    LET rows == flagRows(flags, 0, <<>>)
        Above(i) == {k \in 1 .. (i - 1) : rows[k].depth < rows[i].depth}
        Encloser(i) == CHOOSE k \in Above(i) : \A m \in Above(i) : m <= k
    IN \A i \in 1 .. Len(rows) :
         IF rows[i].depth = 0 THEN rows[i].scope = <<>>
         ELSE \/ rows[i].scope = <<rows[Encloser(i)].name>>
              \* a choice is shown with the condition of its selector
              \/ rows[i].scope = rows[Encloser(i)].scope

(* Every row's declaration has its help measured, once, and so does every      *)
(* payload, which has no row (IterFlagHelp).                                   *)
EveryHelpIsMeasured ==
  \A flags \in AllFlags :
    LET names == [i \in 1 .. Len(flagRows(flags, 0, <<>>)) |-> flagRows(flags, 0, <<>>)[i].name]
    IN SelectSeq(IterFlagHelp(flags), LAMBDA n : ~(Len(n) > 1 /\ Last(n) = "value")) = names

(* What a person wrote about a page is what it says after every run            *)
(* (readExistingCLIDescription).                                               *)
HandDescriptionsStay ==
  [][\A name \in DOMAIN pages : pages[name].description = Hand => pages'[name].description = Hand]_cliVars

(* The pages of a command line say what it takes, row by row, pass the check  *)
(* that follows, and leave what a person wrote on them.                       *)
CliPagesAreTheProgram ==
  /\ [](FreshPagesPass /\ TokensAreTheTypedRows /\ ScopesEnclose /\ EveryHelpIsMeasured)
  /\ HandDescriptionsStay
===============================================================================
