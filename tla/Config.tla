--------------------------------- MODULE Config ---------------------------------
(***************************************************************************)
(* selfdoc.json: the table of its fields, the one recursive validator that *)
(* walks it, the rules that relate fields to each other, and the layout    *)
(* refusals around them.  An author edits the document, loads it, and does *)
(* what the refusal says.                                                  *)
(*                                                                         *)
(* A JSON value is a record [is, v]; regular expressions are the sets of   *)
(* the instance's strings that they accept; the descriptions of fields and *)
(* the wording of refusals are left out.  A refusal is [ok, why, key], key *)
(* being the top-level field it names.                                     *)
(***************************************************************************)
EXTENDS Integers, Sequences, FiniteSets, SequencesExt, TLC

CONSTANTS
  Looks,      \* Looks[shape]: the strings that a pattern of the table accepts
  Stripped,   \* Stripped[s]: the address s without its trailing slashes
  Basename,   \* Basename[s]: the last segment of the path s, trailing slashes off
  CleanPaths, \* the strings that are clean relative paths inside the project
  Documents,  \* what a document starts as
  Edits,      \* <<key, value>>: what an author may write at a key
  Right,      \* Right[key]: what a refusal naming key tells the author to write
  MaxEdits

VARIABLES
  config,     \* the document: a function of its keys
  repoLayout, \* "moved", or what selfdoc's directories are still in
  load,       \* what loading it answered last
  edits

configVars == <<config, repoLayout, load, edits>>

-------------------------------------------------------------------------------
(* Values and field specifications.                                          *)

Null == [is |-> "null"]
JsonText(s) == [is |-> "str", v |-> s]
JsonFlag(b) == [is |-> "bool", v |-> b]
JsonInt(number) == [is |-> "int", v |-> number]
Float(number) == [is |-> "float", v |-> number]
Items(items) == [is |-> "list", v |-> items]
Object(fields) == [is |-> "dict", v |-> fields]
NoField == [is |-> "absent"]
NoObject == [key \in {} |-> Null]

AnyText == "any"
FieldSpec(type, field) ==
  [name |-> field, type |-> type, required |-> FALSE, default |-> Null, factory |-> NoField,
   choices |-> {}, shape |-> AnyText, slashes |-> TRUE, low |-> {}, high |-> {},
   nonEmpty |-> FALSE, items |-> <<>>, children |-> <<>>, strict |-> FALSE, keys |-> AnyText]

Str(field) == FieldSpec("str", field)
Chosen(field, choices) == [Str(field) EXCEPT !.choices = choices]
Shaped(field, shape) == [Str(field) EXCEPT !.shape = shape]
Address(field) == [Str(field) EXCEPT !.slashes = FALSE]
Bool(field) == FieldSpec("bool", field)
Dict(field, children) == [FieldSpec("dict", field) EXCEPT !.children = children]
Strict(field, children) == [Dict(field, children) EXCEPT !.strict = TRUE]
ListOf(field, item) == [FieldSpec("list", field) EXCEPT !.items = <<item>>]
Req(spec) == [spec EXCEPT !.required = TRUE]
By(spec, default) == [spec EXCEPT !.default = default]
OrEmpty(spec) ==
  [spec EXCEPT !.factory = IF spec.type = "list" THEN Items(<<>>) ELSE Object(NoObject)]
NonEmpty(spec) == [spec EXCEPT !.nonEmpty = TRUE]

-------------------------------------------------------------------------------
(* Schema.                                                                   *)

SourceFields ==
  << OrEmpty(ListOf("source", Strict("<item>", <<Req(Str("path")), Req(Str("language"))>>))),
     Req(Address("base_url")) >>

StringFields ==
  << Shaped("version", "version"), By(Str("docs"), JsonText("docs")), By(Str("output"), JsonText("output")),
     Str("changelog"), By(Str("theme"), JsonText("minimal")), Str("repo"), Shaped("lang", "language"),
     Str("name"), Str("description"), Str("branch"),
     Chosen("search", {"icon", "bar", "hidden"}), Req(Chosen("search_engine", {"pagefind"})),
     By(Chosen("code_icons", {"colorful", "monochrome", "none"}), JsonText("colorful")) >>

FlagAndNumberFields ==
  << By(Bool("line_numbers"), JsonFlag(FALSE)), By(Bool("run_button"), JsonFlag(FALSE)),
     By(Bool("page_nav"), JsonFlag(TRUE)), By(Bool("page_progress"), JsonFlag(TRUE)),
     By(Bool("glossary"), JsonFlag(TRUE)),
     [By(FieldSpec("float", "coverage_threshold"), Float(1)) EXCEPT !.low = {0}, !.high = {1}],
     [FieldSpec("int", "feed_max_entries") EXCEPT !.low = {1}] >>

FileFields ==
  << OrEmpty(ListOf("root_files",
       Strict("<item>", <<Req(Str("template")), Req(NonEmpty(ListOf("outputs", Str("<item>"))))>>))),
     OrEmpty(ListOf("redirects", Strict("<item>", <<Req(Str("from")), Req(Str("to"))>>))) >>

DeployFields ==
  << Dict("deploy", <<Req(Chosen("provider", {"cloudflare-pages", "github-pages"})), Str("project")>>),
     OrEmpty(Dict("directives", <<>>)),
     [Dict("examples", <<>>) EXCEPT !.items = <<Shaped("<language>", "holds {file}")>>,
                                    !.keys = "fence"] >>

PersonFields ==
  << Req(Strict("author", <<Req(Str("name")), Req(Str("url")), ListOf("same_as", Str("<item>"))>>)),
     Shaped("twitter", "handle"), Dict("feedback", <<Str("webhook"), Str("ga")>>) >>

BrandingFields ==
  << Dict("branding",
       << Str("tagline"), Str("cta_text"), Str("cta_link"), Str("logo"), Str("secondary_cta_text"),
          Str("secondary_cta_link"),
          ListOf("features", Dict("<item>", <<Req(Str("title")), Req(Str("description"))>>)) >>),
     Strict("auto_detect", <<Bool("steps"), Bool("api_entries")>>) >>

GenFields ==
  << Strict("gen", <<ListOf("exclude", Str("<item>"))>>),
     Strict("gen_data",
       << ListOf("scripts",
            Dict("<item>", << Req(Str("command")), Req(Str("output")),
                              Req(ListOf("mounts", Str("<item>"))) >>)) >>),
     Dict("schema_types", <<>>) >>

VersionFields ==
  << ListOf("versions", Strict("<item>", <<Req(Str("version")), Dict("projects", <<>>)>>)),
     Bool("unversioned"),
     ListOf("locales",
       Dict("<item>", << Req(Shaped("code", "locale")), Req(Str("label")), Bool("default"),
                         Bool("rtl") >>)) >>

SiteFields ==
  << Strict("unified",
       << Req(NonEmpty(ListOf("projects",
            Strict("<item>", <<Req(Str("path")), Str("slug"), Str("nav_title")>>)))),
          ListOf("exclude", Str("<item>")) >>),
     Dict("posts", <<By(Str("dir"), JsonText("posts")), Str("repo")>>),
     Dict("topology", <<Str("slug"), Address("docs_base"), Address("posts_base")>>),
     Dict("assembly", <<Str("repo"), Str("pages_project")>>) >>

Schema ==
  SourceFields \o StringFields \o FlagAndNumberFields \o FileFields \o DeployFields
    \o PersonFields \o BrandingFields \o GenFields \o VersionFields \o SiteFields

FieldNames == {Schema[i].name : i \in 1 .. Len(Schema)}

-------------------------------------------------------------------------------
(* The validator of one field.                                               *)

Accepted(value) == [ok |-> TRUE, value |-> value]
Refused(why, key) == [ok |-> FALSE, why |-> why, key |-> key]

Defaulted(spec) == IF spec.factory # NoField THEN spec.factory ELSE spec.default

Unset(spec, value, key) ==
  CASE spec.required                             -> Refused("missing", key)
    [] value = NoField                           -> Accepted(Defaulted(spec))
    [] value = Null /\ spec.type \in {"list", "dict"} -> Accepted(Defaulted(spec))
    [] OTHER                                     -> Accepted(spec.default)

(* Mutant: a bound is not a value of the field.                              *)
WithinBounds(spec, number) ==
  (\A bound \in spec.low : number > bound) /\ \A bound \in spec.high : number < bound
InRange(spec, number) ==
  (\A bound \in spec.low : number >= bound) /\ \A bound \in spec.high : number =< bound

validateText(spec, text, key) ==
  IF \/ text = ""
     \/ spec.choices # {} /\ text \notin spec.choices
     \/ spec.shape # AnyText /\ text \notin Looks[spec.shape]
  THEN Refused("malformed", key)
  ELSE Accepted(JsonText(IF spec.slashes THEN text ELSE Stripped[text]))

(* The first refusal of a list of answers, or what they make together.       *)
FirstRefusal(answers, Whole(_)) ==
  CHOOSE reply \in
    { IF \A i \in 1 .. Len(given) : given[i].ok
      THEN Accepted(Whole([i \in 1 .. Len(given) |-> given[i].value]))
      ELSE SelectSeq(given, LAMBDA each : ~each.ok)[1] : given \in {answers} } : TRUE

RECURSIVE validateField(_, _, _)

validateItems(spec, items, key) ==
  LET answers == [i \in 1 .. Len(items) |-> validateField(spec.items[1], items[i], key)]
  IN IF spec.items = <<>> THEN Accepted(Items(items))
     ELSE FirstRefusal(answers, Items)

(* An open set of keys: each key has a shape, each value a specification.    *)
validateOpen(spec, fields, key) ==
  LET names == SetToSeq(DOMAIN fields)
      answers == [i \in 1 .. Len(names) |-> validateField(spec.items[1], fields[names[i]], key)]
  IN IF spec.keys # AnyText /\ ~(DOMAIN fields \subseteq Looks[spec.keys])
     THEN Refused("malformed", key)
     ELSE IF spec.items = <<>> THEN Accepted(Object(fields))
     ELSE FirstRefusal(answers, LAMBDA values :
            Object([label \in DOMAIN fields |->
                      values[CHOOSE i \in 1 .. Len(names) : names[i] = label]]))

(* A closed one.  A child that is absent is not given its default.           *)
validateChildren(spec, fields, key) ==
  LET present(child) == child.name \in DOMAIN fields
      reply(child) == IF present(child) THEN validateField(child, fields[child.name], key)
                       ELSE IF child.required THEN Refused("missing", key)
                       ELSE Accepted(NoField)
      answers == [i \in 1 .. Len(spec.children) |-> reply(spec.children[i])]
      at(label) == {i \in 1 .. Len(spec.children) : spec.children[i].name = label}
  IN IF spec.strict /\ \E label \in DOMAIN fields : at(label) = {}
     THEN Refused("unknown child", key)
     ELSE FirstRefusal(answers, LAMBDA values :
            Object([label \in DOMAIN fields |->
                      IF at(label) = {} THEN fields[label]
                      ELSE values[CHOOSE i \in at(label) : TRUE]]))

validateField(spec, value, key) ==
  CASE value \in {NoField, Null} -> Unset(spec, value, key)
    [] spec.type = "float" /\ value.is \in {"int", "float"} /\ InRange(spec, value.v) ->
         Accepted(Float(value.v))
    [] spec.type = "int" /\ value.is = "int" /\ InRange(spec, value.v) -> Accepted(value)
    [] spec.type = "bool" /\ value.is = "bool" -> Accepted(value)
    [] spec.type = "str" /\ value.is = "str" -> validateText(spec, value.v, key)
    [] spec.type = "list" /\ value.is = "list" /\ (spec.nonEmpty => value.v # <<>>) ->
         validateItems(spec, value.v, key)
    [] spec.type = "dict" /\ value.is = "dict" ->
         IF spec.children = <<>> THEN validateOpen(spec, value.v, key)
         ELSE validateChildren(spec, value.v, key)
    [] OTHER -> Refused("malformed", key)

-------------------------------------------------------------------------------
(* The document as a whole.                                                  *)

Value(document, key) == IF key \in DOMAIN document THEN document[key] ELSE Null
ItemsOf(document, key) ==
  IF Value(document, key).is = "list" THEN document[key].v ELSE <<>>
FieldsOf(document, key) ==
  IF Value(document, key).is = "dict" THEN document[key].v ELSE NoObject

RetiredTopologyKeys == {"assembly", "projects", "legacy_blog_host"}

(* What is refused by name, before the table is read.                        *)
Migration(document) ==
  CASE "lint_ignore" \in DOMAIN document -> Refused("retired", "lint_ignore")
    [] "language" \in DOMAIN document -> Refused("retired", "language")
    [] DOMAIN FieldsOf(document, "topology") \cap RetiredTopologyKeys # {} ->
         Refused("retired child", "topology")
    [] ~(DOMAIN document \subseteq FieldNames) ->
         Refused("unknown", CHOOSE key \in DOMAIN document \ FieldNames : TRUE)
    [] Value(document, "search_engine") = Null -> Refused("missing", "search_engine")
    [] Value(document, "author") = Null -> Refused("missing", "author")
    [] \E i \in 1 .. Len(ItemsOf(document, "source")) : document.source.v[i].is = "str" ->
         Refused("malformed", "source")
    [] \E i \in 1 .. Len(ItemsOf(document, "root_files")) :
         document.root_files.v[i].is = "str" -> Refused("malformed", "root_files")
    [] OTHER -> Accepted(document)

validateFields(document) ==
  LET value(spec) == IF spec.name \in DOMAIN document THEN document[spec.name] ELSE NoField
      answers == [i \in 1 .. Len(Schema) |-> validateField(Schema[i], value(Schema[i]), Schema[i].name)]
  IN FirstRefusal(answers, LAMBDA values :
       [key \in FieldNames |->
          values[CHOOSE i \in 1 .. Len(Schema) : Schema[i].name = key]])

(* A string of an item's field, empty where the item or the field is not one. *)
StringIn(item, field) ==
  IF item.is = "dict" /\ field \in DOMAIN item.v /\ item.v[field].is = "str"
  THEN item.v[field].v ELSE ""
NamesIn(items, field) == [i \in 1 .. Len(items) |-> StringIn(items[i], field)]

Repeats(names) == ~IsInjective(names)

IsDefault(item) ==
  item.is = "dict" /\ "default" \in DOMAIN item.v /\ item.v.default = JsonFlag(TRUE)

Outputs(resolved) ==
  FlattenSeq([i \in 1 .. Len(resolved.root_files.v) |-> resolved.root_files.v[i].v.outputs.v])

Slug(entry) ==
  IF StringIn(entry, "slug") # "" THEN StringIn(entry, "slug")
  ELSE Basename[StringIn(entry, "path")]

Anonymous == Items(<<Object([version |-> JsonText("")])>>)

postValidate(resolved) ==
  LET unversioned == resolved.unversioned = JsonFlag(TRUE)
      versions == IF unversioned THEN Anonymous ELSE resolved.versions
      feedback == FieldsOf(resolved, "feedback")
      outputs == Outputs(resolved)
      projects == ItemsOf(FieldsOf(resolved, "unified"), "projects")
  IN CASE /\ resolved.feedback # Null
          /\ Value(feedback, "webhook") = Null /\ Value(feedback, "ga") = Null ->
            Refused("incomplete", "feedback")
       [] /\ StringIn(resolved.deploy, "provider") = "cloudflare-pages"
          /\ StringIn(resolved.deploy, "project") = "" -> Refused("incomplete", "deploy")
       [] \/ Repeats(NamesIn(ItemsOf(resolved, "locales"), "code"))
          \/ Len(SelectSeq(ItemsOf(resolved, "locales"), IsDefault)) > 1 ->
            Refused("repeated", "locales")
       [] unversioned /\ resolved.versions # Null -> Refused("contradiction", "versions")
       [] unversioned /\ resolved.source.v # <<>> -> Refused("unversioned code", "unversioned")
       [] versions # Null /\ Repeats(NamesIn(versions.v, "version")) -> Refused("repeated", "versions")
       [] ~(ToSet(outputs) \subseteq {JsonText(path) : path \in CleanPaths}) \/ Repeats(outputs) ->
            Refused("repeated", "root_files")
       [] Repeats([i \in 1 .. Len(projects) |-> Slug(projects[i])]) -> Refused("repeated", "unified")
       [] OTHER -> Accepted([resolved EXCEPT !.versions = versions])

ValidateConfig(document) ==
  LET migrated == Migration(document)
      resolved == validateFields(document)
  IN IF ~migrated.ok THEN migrated ELSE IF ~resolved.ok THEN resolved
     ELSE postValidate(resolved.value)

(* Load.  A move that is due is asked for before the document is judged, and *)
(* a directory left at an earlier place after it.                            *)
Load(document) ==
  LET validated == ValidateConfig(document)
  IN CASE repoLayout = "unmigrated" -> Refused("layout", "layout")
       [] ~validated.ok -> validated
       [] repoLayout = "old" -> Refused("layout", "layout")
       [] OTHER -> validated

-------------------------------------------------------------------------------
(* The author.                                                               *)

NotLoaded == [ok |-> FALSE, why |-> "not loaded", key |-> "none"]
WithKey(key, value) == [k \in DOMAIN config \cup {key} |-> IF k = key THEN value ELSE config[k]]
Without(key) == [k \in DOMAIN config \ {key} |-> config[k]]

RunLoad ==
  /\ load = NotLoaded /\ load' = Load(config)
  /\ UNCHANGED <<config, repoLayout, edits>>

EditConfig ==
  /\ edits < MaxEdits /\ edits' = edits + 1
  /\ \E edit \in Edits : config' = IF edit[2] = NoField THEN Without(edit[1])
                                    ELSE WithKey(edit[1], edit[2])
  /\ load' = NotLoaded
  /\ UNCHANGED repoLayout

(* What each refusal says to do.                                             *)
Remedies(refusal) ==
  CASE refusal.why \in {"retired", "unknown"} -> {Without(refusal.key)}
    [] refusal.why = "retired child" ->
         {WithKey("topology", Object([k \in DOMAIN config.topology.v \ {retired} |->
                                        config.topology.v[k]])) :
            retired \in RetiredTopologyKeys \cap DOMAIN config.topology.v}
    [] refusal.why = "contradiction" -> {Without("unversioned"), Without("versions")}
    [] refusal.why = "unversioned code" ->
         {[k \in (DOMAIN config \ {"unversioned"}) \cup {"versions"} |->
             IF k = "versions" THEN versions ELSE config[k]] : versions \in Right["versions"]}
    [] refusal.why = "layout" -> {config}
    [] OTHER -> {WithKey(refusal.key, value) : value \in Right[refusal.key]}

FollowRefusal ==
  /\ ~load.ok /\ load # NotLoaded
  /\ config' \in Remedies(load)
  /\ repoLayout' = IF load.why = "layout" THEN "moved" ELSE repoLayout
  /\ load' = NotLoaded
  /\ UNCHANGED edits

ConfigInit ==
  /\ config \in Documents /\ repoLayout \in {"moved", "unmigrated", "old"}
  /\ load = NotLoaded /\ edits = 0

ConfigNext == RunLoad \/ EditConfig \/ FollowRefusal

(* An author loads what was edited and follows what is said: weak fairness   *)
(* of RunLoad and of FollowRefusal, written as what the two put an end to.   *)
ConfigFair == []<>(load # NotLoaded) /\ []<>(load.ok \/ load = NotLoaded)

-------------------------------------------------------------------------------
(* Properties.                                                               *)

(* An author who keeps loading and doing what the refusal says has a config  *)
(* that loads: no refusal comes back because of what it asked for, and none  *)
(* of the migrations, the table, the rules between fields and the layout     *)
(* asks for what another refuses.                                            *)
RefusalsCanBeFollowed == []<>(load # NotLoaded) => <>[]load.ok

(* An explicit null is an absent key, whatever the field, its default and    *)
(* the rules that ask whether it was declared.                               *)
NullsAreAbsences ==
  load # NotLoaded =>
    \A key \in DOMAIN config \cap FieldNames :
      config[key] = Null => ValidateConfig(config) = ValidateConfig(Without(key))

(* What readers take from a loaded config without asking: every version and  *)
(* locale that is an object has a name of its own, an unversioned project    *)
(* has no code and the one anonymous version, one locale at most is the      *)
(* default, no file is generated twice, and no two projects of a unified     *)
(* site share a directory.                                                   *)
ReadersFindWhatTheyNeed ==
  load.ok =>
    LET loaded == load.value
        named(key, field) ==
          \A i, j \in {number \in 1 .. Len(ItemsOf(loaded, key)) : loaded[key].v[number].is = "dict"} :
            loaded[key].v[i].v[field] = loaded[key].v[j].v[field] => i = j
    IN /\ named("versions", "version") /\ named("locales", "code")
       /\ loaded.unversioned = JsonFlag(TRUE) =>
            loaded.source.v = <<>> /\ loaded.versions = Anonymous
       /\ \A i, j \in 1 .. Len(ItemsOf(loaded, "locales")) :
            IsDefault(loaded.locales.v[i]) /\ IsDefault(loaded.locales.v[j]) => i = j
       /\ \A i, j \in 1 .. Len(Outputs(loaded)) : Outputs(loaded)[i] = Outputs(loaded)[j] => i = j
       /\ \A i, j \in 1 .. Len(ItemsOf(FieldsOf(loaded, "unified"), "projects")) :
            Slug(loaded.unified.v.projects.v[i]) = Slug(loaded.unified.v.projects.v[j]) => i = j

(* Loading a configuration: what loads is what its readers need, and what     *)
(* does not can be made to, by what the refusals say.                         *)
ConfigsCanBeMadeToLoad ==
  RefusalsCanBeFollowed /\ []NullsAreAbsences /\ []ReadersFindWhatTheyNeed
===============================================================================
