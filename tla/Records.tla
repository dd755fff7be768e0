-------------------------------- MODULE Records -------------------------------
(* What selfdoc records in files and reads back: the TOML block at the head of *)
(* a page, and a project's manifest.                                           *)
EXTENDS Naturals, Sequences, FiniteSets, SequencesExt

(* The TOML block at the head of a page or post (internal/util): where it      *)
(* ends, what reading it refuses, and how it is written back.  A document is a *)
(* sequence of lines, each a record of what the line is: a fence, blank, a     *)
(* comment, prose, a key with its value, or the first or last line of a value  *)
(* in triple quotes.  The block TOML and its schema are the generated          *)
(* validator's.                                                                *)

CONSTANTS MatterLines,     \* the lines an author types
          Starts,    \* what an author starts from: a document, its kind, its lines counted
          Schema,    \* the class of the value of each declared key
          NoKey,     \* no key: nothing is open, nothing is named
          MaxMatterLines   \* bound: lines typed

VARIABLES doc, kind, typed
matterVars == <<doc, kind, typed>>

Line(is, key, value) == [is |-> is, key |-> key, value |-> value]
NoValue == [class |-> "none", text |-> <<>>]
Plain(is) == Line(is, NoKey, NoValue)
Field(key, value) == Line("field", key, value)
Blank == Plain("blank")

------------------------------------------------------------------------------
(* SplitFrontmatter.  A fence is recognised whatever space surrounds it.       *)
IsFence(line) == line.is \in {"fence", "indented fence"}
ReservedKeys == {"format_version", "document_kind"}

Closings == {n \in 2 .. Len(doc) : IsFence(doc[n])}
Closing == CHOOSE n \in Closings : \A m \in Closings : n <= m
Opens == doc # <<>> /\ IsFence(doc[1])
Raw == SubSeq(doc, 2, Closing - 1)

(* The blank lines the body loses: a text keeps its last line, if empty.       *)
Leading(rest) ==
  LET inked == {n \in DOMAIN rest : n = Len(rest) \/ rest[n] # Blank}
  IN IF rest = <<>> THEN 0 ELSE (CHOOSE n \in inked : \A m \in inked : n <= m) - 1
Rest == SubSeq(doc, Closing + 1, Len(doc))
Body == IF Opens THEN SubSeq(Rest, Leading(Rest) + 1, Len(Rest)) ELSE doc

Consumed == IF Opens THEN Closing + Leading(Rest) ELSE 0

------------------------------------------------------------------------------
(* Reading a block as TOML.  A line with triple quotes opens a string or closes *)
(* the one it is in; what is in a string declares nothing.                     *)
Quotes(line) == line.is \in {"open", "close"}
Inside(lines, n) == Cardinality({m \in 1 .. n - 1 : Quotes(lines[m])}) % 2 = 1
Declaring(lines) ==
  {n \in DOMAIN lines : lines[n].is \in {"field", "open"} /\ ~Inside(lines, n)}

ClosedAt(lines, n) ==
  CHOOSE m \in n + 1 .. Len(lines) :
    Quotes(lines[m]) /\ \A k \in n + 1 .. m - 1 : ~Quotes(lines[k])
ValueAt(lines, n) ==
  IF lines[n].is = "field" THEN lines[n].value
  ELSE [class |-> "string", text |-> SubSeq(lines, n + 1, ClosedAt(lines, n))]

Trailer == << Field("format_version", [class |-> "integer", text |-> <<>>]),
              Field("document_kind", [class |-> "string", text |-> <<kind>>]) >>

Parses(lines) ==
  /\ ~Inside(lines, Len(lines) + 1)
  /\ \A n \in DOMAIN lines :
       ~Inside(lines, n) => lines[n].is \in {"field", "open", "blank", "comment"}
  /\ \A n, m \in Declaring(lines) : lines[n].key = lines[m].key => n = m

Entries(lines) ==
  LET places == SelectSeq([n \in DOMAIN lines |-> n], LAMBDA n : n \in Declaring(lines))
  IN [k \in DOMAIN places |->
       [key |-> lines[places[k]].key, value |-> ValueAt(lines, places[k])]]
KeysOf(lines) == {lines[n].key : n \in Declaring(lines)}

RequiredOnAPost == {"title", "date", "directives"}

(* Where a diagnostic sits and whether its message says which key is meant.    *)
At(path, says, key) == [path |-> path, says |-> says, key |-> key]
Missing(lines) ==
  {At("$", TRUE, key) : key \in {k \in RequiredOnAPost \ KeysOf(lines) : kind = "post"}}
Undeclared(lines) ==
  {At("$", TRUE, key) : key \in KeysOf(lines) \ (DOMAIN Schema \cup ReservedKeys)}
Mistyped(lines) ==
  {At("$.", FALSE, lines[n].key) :
     n \in {m \in Declaring(lines) :
              /\ lines[m].key \in DOMAIN Schema
              /\ ValueAt(lines, m).class # Schema[lines[m].key]}}
ValidateBytes(lines) ==
  IF Parses(lines) THEN Missing(lines) \cup Undeclared(lines) \cup Mistyped(lines)
  ELSE {At("$", FALSE, NoKey)}

------------------------------------------------------------------------------
(* ReadFrontmatter.  A reserved key is looked for in the text of the lines.    *)
declaredKey(lines, key) == \E n \in DOMAIN lines : lines[n].key = key

fieldOf(diagnostic) ==
  IF diagnostic.path = "$." \/ diagnostic.says THEN diagnostic.key ELSE NoKey
liftDiagnostics(diagnostics) == {fieldOf(d) : d \in diagnostics}

RefusedWith(why, named) ==
  [refused |-> why, names |-> named \ {NoKey}, fields |-> <<>>]

(* A value has a read side and a written one, which differ for a date: it is   *)
(* read as the string of its text and written as a date.                       *)
AsClass(value, class) == [value EXCEPT !.class = class]
writtenAsRead(value) ==  \* mutant: a date is written as the string it is read as
  LET read == IF value.class = "date" THEN AsClass(value, "string") ELSE value
  IN [read |-> read, written |-> read]
bindValue(value) ==
  [read    |-> IF value.class = "date" THEN AsClass(value, "string") ELSE value,
   written |-> IF value.class = "date" THEN AsClass(value, "FrontmatterDate") ELSE value]

Bound(entries) ==
  LET kept == SelectSeq(entries, LAMBDA e : e.key \notin ReservedKeys)
  IN [k \in DOMAIN kept |-> [key |-> kept[k].key] @@ bindValue(kept[k].value)]

Block == IF Opens THEN Raw ELSE <<>>
Augmented == Block \o Trailer

ReadFrontmatter ==
  IF doc # <<>> /\ doc[1].is = "retired" THEN RefusedWith("retired", {})
  ELSE IF Opens /\ Closings = {} THEN RefusedWith("unclosed", {})
  ELSE IF \E key \in ReservedKeys : declaredKey(Block, key) THEN RefusedWith("reserved", {})
  ELSE IF ValidateBytes(Augmented) # {}
       THEN RefusedWith("invalid", liftDiagnostics(ValidateBytes(Augmented)))
  ELSE [refused |-> "", names |-> {}, fields |-> Bound(Entries(Augmented))]

------------------------------------------------------------------------------
(* RenderFrontmatter: each field on one line, in order.  A date is the one     *)
(* value that is written bare.                                                 *)
renderFrontmatterValue(value) ==
  IF value.class = "FrontmatterDate" THEN AsClass(value, "date") ELSE value
RenderFrontmatter(fields) ==
  <<Plain("fence")>>
    \o [n \in DOMAIN fields |-> Field(fields[n].key, renderFrontmatterValue(fields[n].written))]
    \o <<Plain("fence")>>

(* The author gives a refused post the keys its refusal names.                 *)
TypedKey(key) == Field(key, [class |-> Schema[key], text |-> <<>>])
WithKeys(keys) == <<doc[1]>> \o SetToSeq({TypedKey(key) : key \in keys}) \o Tail(doc)

------------------------------------------------------------------------------
MatterInit ==
  \E start \in Starts :
       doc = start.doc /\ kind = start.kind /\ typed = start.typed

TypeLine(line) ==
  /\ typed < MaxMatterLines
  /\ doc # <<>> => IsFence(doc[1])    \* what opens no block is body throughout
  /\ doc' = Append(doc, line)
  /\ typed' = typed + 1
  /\ UNCHANGED kind

(* A block that was read is written back in front of its body, the way post    *)
(* generate, gen and the build's own pages are written.                        *)
Rewrite ==
  /\ Opens /\ ReadFrontmatter.refused = ""
  /\ typed < MaxMatterLines
  /\ doc' = RenderFrontmatter(ReadFrontmatter.fields) \o <<Blank>> \o Body
  /\ typed' = MaxMatterLines
  /\ UNCHANGED kind

(* The author of a post adds the keys that its refusal names.                  *)
AddMissing ==
  /\ Opens /\ ReadFrontmatter.refused = "invalid"
  /\ typed < MaxMatterLines
  /\ doc' = WithKeys(ReadFrontmatter.names \cap DOMAIN Schema)
  /\ typed' = MaxMatterLines
  /\ UNCHANGED kind

MatterNext == (\E line \in MatterLines : TypeLine(line)) \/ Rewrite \/ AddMissing

------------------------------------------------------------------------------
(* A line of the body is the line of the file that Consumed places it at:      *)
(* Block.Consumed is there so that "a caller can map a body line number back   *)
(* to its line in the source" (root file templates report at such lines).      *)
BodyLinesArePlaced ==
  ReadFrontmatter.refused = "" =>
    \A n \in DOMAIN Body : Consumed + n \in DOMAIN doc /\ doc[Consumed + n] = Body[n]

(* A block that declares a key of the reader's is refused for that, however it *)
(* is spelled in the block: reading it never fails over a key declared twice   *)
(* that the author wrote once (the textual scan agrees with the parse).        *)
ReservedKeysAreNamed ==
  (doc # <<>> /\ Opens /\ Closings # {}) =>
    (KeysOf(Raw) \cap ReservedKeys # {}
       => ReadFrontmatter.refused = "reserved")

(* What is read and written back reads the same: every field in its place with *)
(* its class (a date stays a date), and the body below it.                     *)
RewritesReadTheSame ==
  [][Rewrite => /\ ReadFrontmatter'.refused = ""
                /\ ReadFrontmatter'.fields = ReadFrontmatter.fields
                /\ (Body = <<>> \/ Body' = Body)]_matterVars

(* A post that only lacks keys is read once it has the keys its refusal named. *)
MissingKeysAreNamed ==
  [][(AddMissing /\ ValidateBytes(Augmented) = Missing(Augmented))
       => ReadFrontmatter'.refused = ""]_matterVars

(* A block is read, refused and rewritten as its author meant it.             *)
BlocksAreReadAsWritten ==
  /\ []BodyLinesArePlaced /\ []ReservedKeysAreNamed
  /\ RewritesReadTheSame /\ MissingKeysAreNamed

-------------------------------------------------------------------------------
(* The manifest (internal/manifest): a project's record of its pages and its   *)
(* vocabulary, generated, committed, converted and read by the selfdoc of this *)
(* schema, in a repository that an older and a later selfdoc also generate in. *)

CONSTANTS PageSets,   \* what the pages of the project may be
          WordSets,   \* what its terms file may accept, the empty set among them
          NoManifestFile, Broken,  \* no document or field, and what is not a JSON object
          MaxTurns    \* bound on the edits, generations and commits

VARIABLES pages, words,  \* the project: its docs and its terms file
          disk, manifestHead,    \* the manifest in the tree and the committed one
          quiet,         \* whether nothing happened since this selfdoc generated
          turns
manifestVars == <<pages, words, disk, manifestHead, quiet, turns>>

------------------------------------------------------------------------------
(* A document declares its schema, or nothing, and carries fields; "of" is    *)
(* the vocabulary of the project when it was written.                         *)
SchemaVersion == 2
PreviousSchemaVersion == 1
IntOf == [absent |-> PreviousSchemaVersion, zero |-> 0, one |-> 1, two |-> 2,
          half |-> 2, three |-> 3]
declaredVersion(found) == IntOf[found.schema]
Numbered(found) == found.schema \in DOMAIN IntOf  \* else it is no number

document(at) == [schema |-> "two", pages |-> pages, vocabulary |-> words,
                 later |-> FALSE, lastGen |-> at, of |-> words]

(* Compat, the one door of every reader, and the field readers behind it,     *)
(* which take what they know and read nothing where there is none.            *)
pagesOf(value) == IF value = NoManifestFile THEN {} ELSE value
vocabularyOf(value) == IF value = NoManifestFile THEN {} ELSE value
fromData(found) == [pages |-> pagesOf(found.pages), vocabulary |-> vocabularyOf(found.vocabulary)]
Compat(found) ==
  CASE ~Numbered(found) -> [kind |-> "unreadable"]
    [] Numbered(found) /\ declaredVersion(found) > SchemaVersion -> [kind |-> "unsupported"]
    [] Numbered(found) /\ declaredVersion(found) < SchemaVersion -> [kind |-> "outdated"]
    [] Numbered(found) /\ declaredVersion(found) = SchemaVersion -> [kind |-> "read", record |-> fromData(found)]

(* Load, and LoadFromGit of the committed copy: absence is an answer.         *)
Load(file) ==
  CASE file = NoManifestFile -> [kind |-> "none"]
    [] file = Broken -> [kind |-> "unreadable"]
    [] file \notin {NoManifestFile, Broken} -> Compat(file)
Reads(file) == Load(file).kind = "read"

(* ConvertWith: the fields this reader knows, with the project's vocabulary.  *)
Convert(found) ==
  [schema |-> "two", pages |-> fromData(found).pages, vocabulary |-> words,
   later |-> FALSE, lastGen |-> found.lastGen, of |-> words]

------------------------------------------------------------------------------
(* Generate.  The file is left as it is when all but the time is the same.    *)
unchangedExceptTimestamp(file) ==
  /\ file \notin {NoManifestFile, Broken}
  /\ file.schema = "two" /\ ~file.later
  /\ file.pages = pages /\ file.vocabulary = words

Move == turns < MaxTurns /\ turns' = turns + 1
Generate ==
  /\ Move /\ quiet' = TRUE
  /\ disk' = IF unchangedExceptTimestamp(disk) THEN disk ELSE document(turns)
  /\ UNCHANGED <<pages, words, manifestHead>>

(* Another selfdoc generates: one that records no vocabulary, or one of a     *)
(* later schema, or of this one with a field more.                            *)
GenerateElsewhere ==
  /\ Move /\ quiet' = FALSE
  /\ \/ disk' = [document(turns) EXCEPT !.schema = "one", !.vocabulary = NoManifestFile]
     \/ disk' = [document(turns) EXCEPT !.schema = "three", !.later = TRUE]
     \/ disk' = [document(turns) EXCEPT !.later = TRUE]
  /\ UNCHANGED <<pages, words, manifestHead>>

(* Someone edits the project, or takes the schema's line out of an older      *)
(* document or writes another number there, or leaves a conflict in it.       *)
EditProject ==
  /\ Move /\ quiet' = FALSE
  /\ pages' \in PageSets /\ words' \in WordSets
  /\ UNCHANGED <<disk, manifestHead>>
EditManifest ==
  /\ Move /\ quiet' = FALSE
  /\ \/ disk' = Broken
     \/ disk \notin {NoManifestFile, Broken} /\ disk.schema = "one"
        /\ disk' \in {[disk EXCEPT !.schema = other] : other \in {"absent", "zero", "words"}}
     \/ disk \notin {NoManifestFile, Broken} /\ disk.schema = "two" /\ disk' = [disk EXCEPT !.schema = "half"]
  /\ UNCHANGED <<pages, words, manifestHead>>
CommitManifest ==
  /\ Move /\ disk # NoManifestFile /\ manifestHead' = disk
  /\ UNCHANGED <<pages, words, disk, quiet>>

------------------------------------------------------------------------------
(* The manifests' part of layout migrate, of a repository already at this     *)
(* layout: an older one is converted and committed, one of this schema is     *)
(* committed if the committed one declares another; others are refused.       *)
Declares(file) == file \notin {NoManifestFile, Broken} /\ Numbered(file)
Converts == Declares(disk) /\ declaredVersion(disk) = PreviousSchemaVersion
CommitsAsItIs ==
  /\ Declares(disk) /\ declaredVersion(disk) = SchemaVersion
  /\ Declares(manifestHead) /\ declaredVersion(manifestHead) # SchemaVersion
Migrate ==
  /\ Move /\ quiet' = FALSE
  /\ Declares(disk) /\ declaredVersion(disk) \in {PreviousSchemaVersion, SchemaVersion}
  /\ disk' = IF Converts THEN Convert(disk) ELSE disk
  /\ manifestHead' = IF Converts \/ CommitsAsItIs THEN disk' ELSE manifestHead
  /\ UNCHANGED <<pages, words>>

ManifestInit ==
  /\ pages \in PageSets /\ words \in WordSets
  /\ disk = NoManifestFile /\ manifestHead = NoManifestFile /\ quiet = FALSE /\ turns = 0
ManifestNext ==
  Generate \/ GenerateElsewhere \/ EditProject \/ EditManifest \/ CommitManifest \/ Migrate

------------------------------------------------------------------------------
(* A manifest that is read records the vocabulary the project had when it was *)
(* written: never "nothing accepted" because an older selfdoc did not say     *)
(* (the package comment of internal/manifest).                                *)
ReadsTheVocabulary ==
  \A file \in {disk, manifestHead} : Reads(file) => Load(file).record.vocabulary = file.of

(* What was just generated is read back as the project is; and generating     *)
(* over untouched content does not dirty the tree.                            *)
GeneratedIsRead ==
  quiet => Reads(disk) /\ Load(disk).record = [pages |-> pages, vocabulary |-> words]
QuietGenerationsStay == [][quiet /\ Generate => disk' = disk]_manifestVars

(* After a migration every reader can read: the tree's and the committed one, *)
(* unless the committed one declares no schema that is a number.              *)
MigratedIsRead ==
  [][Migrate => /\ Reads(disk')
                /\ Declares(manifestHead)' => Reads(manifestHead')]_manifestVars

(* A manifest is read by the schema it was written in, and generating and     *)
(* migrating leave one that can be.                                           *)
ManifestsAreRead ==
  []ReadsTheVocabulary /\ []GeneratedIsRead /\ QuietGenerationsStay /\ MigratedIsRead
===============================================================================
