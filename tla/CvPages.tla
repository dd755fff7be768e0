-------------------------------- MODULE CvPages --------------------------------
(* A curriculum vitae as data (internal/cv, internal/identity): a TOML document *)
(* that is parsed strictly, and rendered twice, as the body of a page and as   *)
(* the Person its structured data names.  The Person crosses the page as a     *)
(* payload that a Markdown conversion does not touch, and the head lifts it    *)
(* from there.  A text is a value; a table is a function from its keys.        *)
EXTENDS Naturals, Sequences, SequencesExt, FiniteSets

CONSTANTS
  Stripped,    \* [texts -> texts]: a text without the spaces around it, "" when blank
  Projects,    \* what an author starts from: documents, the configuration, a page
  OfferedKeys, \* section -> keys an author may declare in its blocks, typos included
  Values,      \* what a key may be given
  Authors,     \* the author blocks of a site's configuration
  PageBodies,  \* pages: the files their cv directives name, "" for prose
  Edited,      \* the documents that are edited
  MaxCvEdits   \* bound on what an author types

VARIABLES
  files,       \* [file names -> document]
  author,      \* the declared author, or NoAuthor
  pieces,      \* the page: its directives and prose
  written      \* how many edits there have been

cvVars == <<files, author, pieces, written>>

NoAuthor == [name |-> "", url |-> "", same_as |-> <<>>]

(* A value is a text, a list of texts, or anything else.                       *)
Text(t) == [text |-> t]
List(ts) == [list |-> ts]
Other == [other |-> TRUE]
IsText(v) == "text" \in DOMAIN v
IsList(v) == "list" \in DOMAIN v

-------------------------------------------------------------------------------
(* What a block may declare, and what the parser takes from it.                *)

TopLevelKeys ==
  {"format_version", "identity", "skills", "projects", "interests", "education",
   "experience", "languages", "contact"}

Known ==
  [ identity   |-> {"name", "headline", "location", "email", "photo", "summary", "updated",
                    "profile"},
    profile    |-> {"label", "url"},
    skills     |-> {"category", "items"},
    projects   |-> {"name", "notes", "technologies"},
    interests  |-> {"title", "body"},
    education  |-> {"degree", "years", "institute", "institute_url", "location", "focus",
                    "thesis", "course_url"},
    experience |-> {"role", "period", "company", "company_url", "location", "body"},
    languages  |-> {"name", "url", "level"},
    contact    |-> {"body"} ]

Needs(required, optional, apart) ==
  [required |-> required, optional |-> optional, apart |-> apart, lists |-> {}]

IdentityFields == Needs({"name", "headline", "location", "email", "summary"}, {"photo", "updated"}, <<>>)
ProfileFields == Needs({"label", "url"}, {}, <<>>)
SkillFields == [Needs({"category"}, {}, <<"category">>) EXCEPT !.lists = {"items"}]
ProjectFields == [Needs({"name"}, {}, <<"name">>) EXCEPT !.lists = {"notes", "technologies"}]
InterestFields == Needs({"title", "body"}, {}, <<"title">>)
EducationFields ==
  Needs({"degree", "institute", "years", "location"},
        {"institute_url", "focus", "thesis", "course_url"}, <<"degree", "institute">>)
ExperienceFields ==
  Needs({"role", "company", "period", "location"}, {"company_url", "body"},
        <<"role", "company", "period">>)
LanguageFields == Needs({"name", "level"}, {"url"}, <<"name">>)
ContactFields == Needs({"body"}, {}, <<>>)

Sections == <<"skills", "projects", "interests", "education", "experience", "languages">>
Fields ==
  [ identity |-> IdentityFields, profile |-> ProfileFields, skills |-> SkillFields,
    projects |-> ProjectFields, interests |-> InterestFields, education |-> EducationFields,
    experience |-> ExperienceFields, languages |-> LanguageFields, contact |-> ContactFields ]

-------------------------------------------------------------------------------
(* Parsing refuses the first thing that is wrong; which it is, is wording.      *)

rejectUnknown(block, known) == DOMAIN block \subseteq known

NamesAText(v) == IsText(v) /\ Stripped[v.text] # ""
textField(block, key, required) ==
  IF key \in DOMAIN block THEN NamesAText(block[key]) ELSE ~required
stringsField(block, key, required) ==
  IF key \in DOMAIN block
  THEN /\ IsList(block[key]) /\ block[key].list # <<>>
       /\ \A i \in DOMAIN block[key].list : Stripped[block[key].list[i]] # ""
  ELSE ~required

field(block, key) == IF key \in DOMAIN block THEN Stripped[block[key].text] ELSE ""
entries(block, key) ==
  IF key \in DOMAIN block
  THEN [i \in DOMAIN block[key].list |-> Stripped[block[key].list[i]]] ELSE <<>>

(* What tells the entries of a section apart, after stripping.                 *)
rejectRepeat(section, list) ==
  LET apart == Fields[section].apart
      id(block) == [n \in DOMAIN apart |-> field(block, apart[n])]
  IN \A i, j \in DOMAIN list : i < j => id(list[i]) # id(list[j])

blockFits(section, block) ==
  /\ rejectUnknown(block, Known[section])
  /\ \A key \in Fields[section].required : textField(block, key, TRUE)
  /\ \A key \in Fields[section].optional : textField(block, key, FALSE)
  /\ \A key \in Fields[section].lists : stringsField(block, key, section = "skills")

bareHeading(section, block) ==
  section = "projects" /\ \A key \in Fields[section].lists : entries(block, key) = <<>>

isDeclared(section, value) == value.shape = "tables" /\ value.blocks # <<>>
sectionFits(section, value) ==
  /\ isDeclared(section, value)
  /\ \A i \in DOMAIN value.blocks :
       /\ blockFits(section, value.blocks[i])
       /\ ~bareHeading(section, value.blocks[i])
  /\ rejectRepeat(section, value.blocks)

(* A profile list that is empty, or an empty value of another kind, is none.   *)
profilesFit(value) ==
  \/ value.shape = "empty"
  \/ /\ value.shape = "tables"
     /\ \A i \in DOMAIN value.blocks : blockFits("profile", value.blocks[i])

tableFits(section, value) == value.shape = "table" /\ blockFits(section, value.blocks[1])

ParseCV(document) ==
  /\ rejectUnknown(document.top, TopLevelKeys)
  /\ document.version = 1
  /\ \A section \in {"identity", "contact"} :
       section \in DOMAIN document.top /\ tableFits(section, document.top[section])
  /\ profilesFit(document.profiles)
  /\ \A section \in ToSet(Sections) :
       section \in DOMAIN document.top /\ sectionFits(section, document.top[section])

-------------------------------------------------------------------------------
(* The page: lines, each with what it says of the document.                    *)

Line(form, says) == [form |-> form, says |-> says, payload |-> <<>>]
Given(texts) == SelectSeq(texts, LAMBDA t : t # "")
ItemLines(texts) == [i \in DOMAIN texts |-> Line("item", <<texts[i]>>)]
ItemUnless(texts) == IF Given(texts) = <<>> THEN <<>> ELSE <<Line("item", Given(texts))>>
link(text, url) == Given(<<text, url>>)

renderCVHeader(person, profiles) ==
  <<Line("header", Given(<<field(person, "photo"), field(person, "name"), field(person, "headline"),
                           field(person, "location"), field(person, "email")>>)
                     \o FlattenSeq([i \in DOMAIN profiles |->
                                      <<field(profiles[i], "url"), field(profiles[i], "label")>>]))>>

skillLines(group) == <<Line("item", <<field(group, "category")>> \o entries(group, "items"))>>

projectLines(project) ==
  <<Line("h3", <<field(project, "name")>>)>> \o ItemLines(entries(project, "notes"))
    \o ItemUnless(entries(project, "technologies"))

interestLines(interest) ==
  <<Line("h3", <<field(interest, "title")>>), Line("text", <<field(interest, "body")>>)>>

educationLines(entry) ==
  << Line("h3", <<field(entry, "degree")>>), Line("item", <<field(entry, "years")>>),
     Line("item", link(field(entry, "institute"), field(entry, "institute_url"))),
     Line("item", <<field(entry, "location")>>) >>
  \o ItemUnless(<<field(entry, "focus")>>) \o ItemUnless(<<field(entry, "thesis")>>)
  \o ItemUnless(<<field(entry, "course_url")>>)

experienceLines(entry) ==
  << Line("h3", <<field(entry, "role")>>), Line("item", <<field(entry, "period")>>),
     Line("item", link(field(entry, "company"), field(entry, "company_url"))),
     Line("item", <<field(entry, "location")>>) >>
  \o (IF field(entry, "body") = "" THEN <<>> ELSE <<Line("text", <<field(entry, "body")>>)>>)

languageLines(language) ==
  <<Line("item", link(field(language, "name"), field(language, "url")) \o <<field(language, "level")>>)>>

sectionLines(title, list, Lines(_)) ==
  <<Line("h2", <<title>>)>> \o FlattenSeq([i \in DOMAIN list |-> Lines(list[i])])

listOf(document, section) == document.top[section].blocks
profilesOf(document) == IF document.profiles.shape = "empty" THEN <<>> ELSE document.profiles.blocks
personOf(document) == document.top["identity"].blocks[1]

RenderCVMarkdown(document) ==
  renderCVHeader(personOf(document), profilesOf(document))
  \o <<Line("text", <<field(personOf(document), "summary")>>)>>
  \o sectionLines("skills", listOf(document, "skills"), skillLines)
  \o sectionLines("projects", listOf(document, "projects"), projectLines)
  \o sectionLines("interests", listOf(document, "interests"), interestLines)
  \o sectionLines("education", listOf(document, "education"), educationLines)
  \o sectionLines("experience", listOf(document, "experience"), experienceLines)
  \o sectionLines("languages", listOf(document, "languages"), languageLines)
  \o <<Line("h2", <<"contact">>), Line("text", <<field(listOf(document, "contact")[1], "body")>>)>>
  \o (IF field(personOf(document), "updated") = "" THEN <<>>
      ELSE <<Line("updated", <<field(personOf(document), "updated")>>)>>)

-------------------------------------------------------------------------------
(* The Person: properties in order, whose values are texts, lists and entities.*)

Entity(properties) == [entity |-> properties]
Property(key, value) == [key |-> key, value |-> value]

truthy(value) ==
  CASE "text" \in DOMAIN value -> value.text # ""
    [] "list" \in DOMAIN value -> value.list # <<>>
    [] OTHER -> value.entity # <<>>

(* Set: a key keeps its place, a new one comes last.                           *)
Set(properties, property) ==
  IF \E i \in DOMAIN properties : properties[i].key = property.key
  THEN [i \in DOMAIN properties |->
          IF properties[i].key = property.key THEN property ELSE properties[i]]
  ELSE Append(properties, property)

sameAsURLs(urls) == SelectSeq(urls, LAMBDA url : Stripped[url] # "")
TextsOf(urls) == [list |-> [i \in DOMAIN urls |-> Text(urls[i])]]

PersonEntity(who, extra) ==
  FoldLeft(LAMBDA properties, property :
             IF truthy(property.value) THEN Set(properties, property) ELSE properties,
           << Property("@context", Text("https://schema.org")), Property("@type", Text("Person")),
              Property("name", Text(who.name)), Property("url", Text(who.url)) >>
           \o (IF sameAsURLs(who.same_as) = <<>> THEN <<>>
               ELSE <<Property("sameAs", TextsOf(sameAsURLs(who.same_as)))>>),
           extra)

(* The profiles come after the addresses the author declares, each once.       *)
foldedProfiles(document, who) ==
  FoldLeft(LAMBDA urls, profile :
             IF field(profile, "url") \in ToSet(urls) THEN urls
             ELSE Append(urls, field(profile, "url")),
           who.same_as, profilesOf(document))

school(entry) ==
  Entity(<<Property("@type", Text("EducationalOrganization")), Property("name", Text(field(entry, "institute")))>>
         \o (IF field(entry, "institute_url") = "" THEN <<>>
             ELSE <<Property("url", Text(field(entry, "institute_url")))>>))

CVPersonJSONLD(document, who) ==
  LET person == personOf(document)
      spoken == listOf(document, "languages")
      studied == listOf(document, "education")
      alternate == IF field(person, "name") = who.name THEN "" ELSE field(person, "name")
      extra ==
        << Property("alternateName", Text(alternate)),
           Property("jobTitle", Text(field(person, "headline"))),
           Property("description", Text(field(person, "summary"))),
           Property("email", Text(field(person, "email"))),
           Property("address", Entity(<<Property("@type", Text("PostalAddress")),
                                        Property("addressLocality", Text(field(person, "location")))>>)),
           Property("knowsLanguage", List([i \in DOMAIN spoken |->
              Entity(<<Property("@type", Text("Language")),
                       Property("name", Text(field(spoken[i], "name")))>>)])),
           Property("alumniOf", List([i \in DOMAIN studied |-> school(studied[i])])) >>
  IN PersonEntity([who EXCEPT !.same_as = foldedProfiles(document, who)], extra)

-------------------------------------------------------------------------------
(* The document of a Person: its brackets and texts, in order.                 *)

Delim(d) == [delim |-> d]

RECURSIVE writeJSON(_)
writeJSON(value) ==
  CASE "text" \in DOMAIN value -> <<value>>
    [] "list" \in DOMAIN value ->
         <<Delim("[")>> \o FlattenSeq([i \in DOMAIN value.list |-> writeJSON(value.list[i])])
           \o <<Delim("]")>>
    [] OTHER ->
         <<Delim("{")>>
           \o FlattenSeq([i \in DOMAIN value.entity |->
                <<Text(value.entity[i].key)>> \o writeJSON(value.entity[i].value)])
           \o <<Delim("}")>>

Decoded(value, rest) == [value |-> value, rest |-> rest]

RECURSIVE decodeValue(_), decodeMembers(_, _), decodeItems(_, _)
decodeValue(tokens) ==
  CASE Head(tokens) = Delim("{") -> decodeMembers(Tail(tokens), <<>>)
    [] Head(tokens) = Delim("[") -> decodeItems(Tail(tokens), <<>>)
    [] OTHER -> Decoded(Head(tokens), Tail(tokens))
decodeMembers(tokens, properties) ==
  IF Head(tokens) = Delim("}") THEN Decoded(Entity(properties), Tail(tokens))
  ELSE LET got == decodeValue(Tail(tokens))
       IN decodeMembers(got.rest, Append(properties, Property(Head(tokens).text, got.value)))
decodeItems(tokens, items) ==
  IF Head(tokens) = Delim("]") THEN Decoded([list |-> items], Tail(tokens))
  ELSE LET got == decodeValue(tokens) IN decodeItems(got.rest, Append(items, got.value))

-------------------------------------------------------------------------------
(* The directive, the page it is on, and the head of that page.                *)

RefusedCv == <<Line("refused", <<>>)>>

requireAuthor(who) == who.name # "" /\ who.url # ""

RenderCVPage(document, who) ==
  IF ~requireAuthor(who) THEN RefusedCv
  ELSE <<[Line("person", <<>>) EXCEPT !.payload = writeJSON(Entity(CVPersonJSONLD(document, who)))]>>
         \o RenderCVMarkdown(document)

ResolveCV(path) ==
  IF path \notin DOMAIN files \/ ~ParseCV(files[path]) THEN RefusedCv
  ELSE RenderCVPage(files[path], author)

Resolve(piece) == IF piece = "" THEN <<Line("text", <<>>)>> ELSE ResolveCV(piece)

Page == FlattenSeq([i \in DOMAIN pieces |-> Resolve(pieces[i])])
CvBuilt(page) == \A i \in DOMAIN page : page[i].form # "refused"

(* The first payload of the page, decoded; <<>> when there is none.            *)
ExtractCVPerson(lines) ==
  LET carrying == SelectSeq(lines, LAMBDA l : l.form = "person")
  IN IF carrying = <<>> THEN <<>> ELSE decodeValue(carrying[1].payload).value.entity

-------------------------------------------------------------------------------
(* The author edits a document, the configuration and the page.                *)

CvInit ==
  /\ \E project \in Projects :
       files = project.files /\ author = project.author /\ pieces = project.pieces
  /\ written = 0

Retyped(name, document) ==
  /\ written < MaxCvEdits /\ written' = written + 1
  /\ files' = [files EXCEPT ![name] = document] /\ UNCHANGED <<author, pieces>>

Tables(document, section) ==
  IF section = "profile" THEN document.profiles.blocks ELSE document.top[section].blocks
WithTables(document, section, tables) ==
  IF section = "profile" THEN [document EXCEPT !.profiles.blocks = tables]
  ELSE [document EXCEPT !.top[section].blocks = tables]
Written(document, section) == section = "profile" \/ section \in DOMAIN document.top

GiveKey(name, section) ==
  /\ Written(files[name], section)
  /\ \E i \in DOMAIN Tables(files[name], section), key \in OfferedKeys[section], value \in Values :
       Retyped(name, WithTables(files[name], section,
         [Tables(files[name], section) EXCEPT ![i] =
            [k \in DOMAIN @ \cup {key} |-> IF k = key THEN value ELSE @[k]]]))

DropKey(name, section) ==
  /\ Written(files[name], section)
  /\ \E i \in DOMAIN Tables(files[name], section), key \in OfferedKeys[section] :
       Retyped(name, WithTables(files[name], section,
         [Tables(files[name], section) EXCEPT ![i] = [k \in DOMAIN @ \ {key} |-> @[k]]]))

CopyEntry(name, section) ==
  /\ Written(files[name], section) /\ Tables(files[name], section) # <<>>
  /\ Retyped(name, WithTables(files[name], section,
       Append(Tables(files[name], section), Tables(files[name], section)[1])))

DropSection(name, section) ==
  /\ section # "profile" /\ Written(files[name], section)
  /\ Retyped(name, [files[name] EXCEPT !.top = [k \in DOMAIN @ \ {section} |-> @[k]]])

EmptySection(name, section) ==
  /\ Written(files[name], section)
  /\ Retyped(name, IF section = "profile"
                 THEN [files[name] EXCEPT !.profiles = [shape |-> "empty", blocks |-> <<>>]]
                 ELSE [files[name] EXCEPT !.top[section] = [shape |-> "other", blocks |-> <<>>]])

ChangeVersion(name) == \E v \in {0, 2} : Retyped(name, [files[name] EXCEPT !.version = v])

ChangeSite ==
  /\ written < MaxCvEdits /\ written' = written + 1
  /\ \/ author' \in Authors /\ UNCHANGED pieces
     \/ pieces' \in PageBodies /\ UNCHANGED author
  /\ UNCHANGED files

CvNext ==
  \/ \E name \in Edited, section \in DOMAIN Fields :
       \/ GiveKey(name, section) \/ DropKey(name, section) \/ CopyEntry(name, section)
       \/ DropSection(name, section) \/ EmptySection(name, section)
  \/ \E name \in Edited : ChangeVersion(name)
  \/ ChangeSite

-------------------------------------------------------------------------------
(* The lines of a section's heading to the next one of its level, and those of *)
(* its i-th entry: an item of a plain list, or a heading and what is under it. *)
Between(lines, from, stops) ==
  SubSeq(lines, from, Min({i \in DOMAIN lines : i > from /\ lines[i].form \in stops} \cup {Len(lines) + 1}) - 1)
Region(lines, title) ==
  Between(lines, CHOOSE i \in DOMAIN lines : lines[i].form = "h2" /\ lines[i].says = <<title>>, {"h2"})
EntryStarts(lines) ==
  SelectSeq([i \in DOMAIN lines |-> i],
            LAMBDA i : IF \E j \in DOMAIN lines : lines[j].form = "h3" THEN lines[i].form = "h3"
                       ELSE lines[i].form = "item")
EntryRegion(lines, i) ==
  LET start == EntryStarts(lines)[i] IN Between(lines, start, {lines[start].form})
SaidOn(lines) == UNION {ToSet(lines[i].says) : i \in DOMAIN lines}
Declares(block) ==
  UNION {IF IsText(block[key]) THEN {Stripped[block[key].text]}
         ELSE IF IsList(block[key]) THEN {Stripped[t] : t \in ToSet(block[key].list)} ELSE {} :
           key \in DOMAIN block}

(* Whatever an accepted document declares is on its page: the n-th entry of a  *)
(* section is the n-th on the page and says each of its texts, and nothing     *)
(* declared anywhere is passed over, known to the parser or not.               *)
NothingDeclaredIsLost ==
  \A name \in {n \in DOMAIN files : ParseCV(files[n])} :
    LET lines == RenderCVMarkdown(files[name])
    IN /\ \A section \in ToSet(Sections) : \A i \in DOMAIN listOf(files[name], section) :
            Declares(listOf(files[name], section)[i]) \subseteq SaidOn(EntryRegion(Region(lines, section), i))
       /\ \A section \in {"identity", "contact"} :
            Declares(listOf(files[name], section)[1]) \subseteq SaidOn(lines)
       /\ \A i \in DOMAIN profilesOf(files[name]) :
            Declares(profilesOf(files[name])[i]) \subseteq SaidOn(lines)

(* No heading of an accepted document stands over nothing ("an absent one      *)
(* would render as a heading over nothing"), and no entry is there twice.      *)
HeadingsHoldEntries ==
  \A name \in {n \in DOMAIN files : ParseCV(files[n])} :
    LET lines == RenderCVMarkdown(files[name])
    IN /\ \A i \in DOMAIN lines : lines[i].form \in {"h2", "h3"} =>
            i < Len(lines) /\ lines[i + 1].form \notin {"h2", lines[i].form}
       /\ \A section \in ToSet(Sections) :
            LET region == Region(lines, section)
            IN \A i, j \in DOMAIN listOf(files[name], section) :
                 i < j => EntryRegion(region, i) # EntryRegion(region, j)

(* What the head of a page names is the Person of its first CV, as it was      *)
(* declared: the one the front page names, whom it gives no second name; each  *)
(* of its addresses once; and of the rest only what a reader of the page sees. *)
Find(properties, key) == {properties[i].value : i \in {j \in DOMAIN properties : properties[j].key = key}}
Leaves(tokens) == {tokens[i].text : i \in {j \in DOMAIN tokens : "text" \in DOMAIN tokens[j]}}
Vocabulary ==
  {"@context", "https://schema.org", "@type", "Person", "name", "url", "sameAs", "alternateName",
   "jobTitle", "description", "email", "address", "PostalAddress", "addressLocality",
   "knowsLanguage", "Language", "alumniOf", "EducationalOrganization"}

HeadNamesThePerson ==
  LET first == SelectSeq(pieces, LAMBDA piece : piece # "")
      page == Page
      head == ExtractCVPerson(page)
      front == PersonEntity(author, <<>>)
      known == Vocabulary \cup {author.name, author.url} \cup ToSet(author.same_as) \cup SaidOn(page)
  IN CvBuilt(page) /\ first # <<>> =>
       /\ head = CVPersonJSONLD(files[first[1]], author)
       /\ \A key \in {"name", "url"} : Find(head, key) = Find(front, key) /\ Cardinality(Find(head, key)) = 1
       /\ \A urls \in Find(front, "sameAs") : \A all \in Find(head, "sameAs") :
            IsPrefix(urls.list, all.list)
       /\ \A all \in Find(head, "sameAs") : \A i, j \in DOMAIN all.list :
            i # j /\ all.list[i] = all.list[j] => all.list[i].text \in ToSet(author.same_as)
       /\ Find(head, "alternateName") \cap Find(head, "name") = {}
       /\ Leaves(writeJSON(Entity(head))) \subseteq known

CvPagesKeepTheirWord == NothingDeclaredIsLost /\ HeadingsHoldEntries /\ HeadNamesThePerson
================================================================================
