--------------------------------- MODULE MCText --------------------------------
(* The pages of a project in one run: the lines of its documents, their         *)
(* directives and code spans, the links between pages, what is written of a    *)
(* page and what about the site.  The parts share no state here, so a          *)
(* behaviour is of one of them and the others stay as they are.                *)
EXTENDS Directives, Links, SitePages, HtmlBody, SiteMetadata, CvPages

VARIABLE part

(* Links: a plain project, one with archives and locales, and an assembly.     *)
Coord(locale, project, version, archived) ==
  [locale |-> locale, project |-> project, version |-> version, archived |-> archived]
MCMounts ==
  { Coord("", "", "", FALSE), Coord("", "", "2", FALSE), Coord("en", "", "1", TRUE),
    Coord("en", "", "0", TRUE), Coord("", "lib", "1", TRUE), Coord("en", "lib", "2", FALSE) }

(* SitePages: terms that contain each other, that differ in case and that slug *)
(* alike, on pages of every pass.                                              *)
Leaf(path, order, declares, words) ==
  [path |-> path, order |-> order, group |-> 0, date |-> 0,
   declares |-> declares, body |-> words]
Declared(term, means) == [term |-> term, definition |-> means]
Said(word) == [says |-> word, in |-> "text"]
Coded(word) == [says |-> word, in |-> "code"]
api    == <<"api">>
Api    == <<"Api">>
rest   == <<"rest", "api">>
hyphen == <<"rest-api">>
MCFold == "Api" :> "api" @@ [w \in {"api", "rest", "rest-api"} |-> w]
MCDirTitle == [d \in {"ref", "usage"} |-> 2]
MCLowerCase == api :> 1 @@ Api :> 1 @@ rest :> 2 @@ hyphen :> 3
MCSlug == hyphen :> "rest-api" @@ api :> "api" @@ Api :> "api" @@ rest :> "rest-api"
Home == Leaf(<<>>, NoOrder, <<>>, <<Said("rest"), Said("api"), Said("api")>>)
Guides ==
  { Leaf(<<"guide">>, NoOrder, <<Declared(api, <<"rest">>)>>, <<Coded("api"), Said("rest"), Said("api")>>),
    Leaf(<<"guide">>, 1, <<Declared(api, <<>>), Declared(Api, <<"api">>)>>, <<Said("rest")>>),
    Leaf(<<"glossary">>, 1, <<Declared(Api, <<>>)>>, <<>>) }
References ==
  { Leaf(<<"ref", "a">>, 2, <<Declared(rest, <<"api">>), Declared(hyphen, <<>>), Declared(Api, <<>>)>>,
         <<Said("api")>>),
    [Leaf(<<"ref", "a">>, NoOrder, <<Declared(rest, <<>>)>>, <<>>) EXCEPT !.group = 3] }
Extras == { <<Leaf(<<"ref", "b">>, 1, <<>>, <<Said("rest"), Said("api")>>)>>,
            <<Leaf(<<"usage", "c">>, NoOrder, <<>>, <<Said("api")>>)>>, <<>> }
Faqs == { <<>>,
          << Leaf(<<"faq">>, 2, <<Declared(rest, <<>>)>>, <<Said("api")>>),
             [Leaf(<<"news">>, NoOrder, <<>>, <<>>) EXCEPT !.date = 2],
             [Leaf(<<"old">>, NoOrder, <<>>, <<>>) EXCEPT !.date = 1] >> }
Blogs == { <<>>,
           << Leaf(<<"blog">>, NoOrder, <<>>, <<>>),
              [Leaf(<<"blog", "x">>, NoOrder, <<Declared(api, <<>>)>>, <<Said("rest"), Said("api")>>)
                 EXCEPT !.date = 1] >> }
Olds == { <<>>, <<Home>>,
          << Leaf(<<"guide">>, NoOrder, <<Declared(api, <<>>)>>, <<>>),
             Leaf(<<"gone">>, NoOrder, <<>>, <<Said("api")>>) >> }
MCTrees ==
  { [locale |-> locale, glossary |-> glossary,
     pages |-> [older |-> older, current |-> <<Home, guide, reference>> \o extra,
                unversioned |-> faq, site |-> blog]] :
      locale \in {<<>>, <<"en">>}, glossary \in BOOLEAN, guide \in Guides,
      reference \in References, extra \in Extras, faq \in Faqs, blog \in Blogs, older \in Olds }

MCAlignments == {<<>>, <<"left", "center">>, <<"right">>}

(* HtmlBody: titles that two blocks share, numbers in a heading's slug, code   *)
(* of one line and of three.                                                     *)
Piece(shape, slug) ==
  [kind |-> shape, level |-> 0, slug |-> slug, named |-> FALSE, opens |-> FALSE,
   lang |-> "", bare |-> TRUE, runs |-> FALSE, lines |-> 1, width |-> 1]
Titled(level, slug) == [Piece("heading", slug) EXCEPT !.level = level]
Sample(lang, n) == [Piece("code", <<>>) EXCEPT !.lang = lang, !.lines = n, !.width = 3]
MCBlocks ==
  { Titled(1, <<"setup">>), Titled(2, <<"setup">>),
    [Titled(2, <<"step", "1">>) EXCEPT !.opens = TRUE],
    [Titled(3, <<"run">>) EXCEPT !.named = TRUE], Titled(3, <<"term", "api">>),
    Sample("go", 1), Sample("py", 3),
    Piece("para", <<>>), Piece("list", <<>>), Piece("term", <<"api">>) }
Choice(steps, allSteps, ofPage, allApi) ==
  [steps |-> steps, allSteps |-> allSteps, api |-> ofPage, allApi |-> allApi]
Unset == Choice("unset", "unset", "unset", "on")
OnPage == Choice("on", "off", "on", "unset")
OnProject == Choice("off", "on", "off", "on")
MCSettings == {Unset, OnPage, OnProject}
MCTitles == {<<"setup">>, <<"other">>}
PairedInit ==
  /\ BodyInit
  /\ \/ title = NoTitle /\ settings = Unset /\ ~hero
     \/ title = <<"setup">> /\ settings = OnPage /\ ~hero
     \/ title = <<"other">> /\ settings = OnProject /\ hero

(* SiteMetadata: pages of one segment and of two, in one locale and in two.    *)
MCLocaleLists == {<<"en">>, <<"en", "de">>}
MCPaths == {<<"index">>, <<"guide">>, <<"setup">>, <<"guide", "setup">>}
MCUnfed == {<<"setup">>}
MCPosts == {<<"blog", "p">>}

(* CvPages: one document with every field and one with none that is optional; *)
(* a degree at two schools, a skill with spaces around it.                     *)
MCStripped == " go" :> "go" @@ " " :> "" @@ "" :> "" @@
  [t \in {"go", "https", "jane", "jane d", "site", "post", "de", "bsc", "uni", "lab", "2020",
          "dev", "acme", "town", "mail", "me", "pic"} |-> t]
One(key, value) == key :> value
Table(block) == [shape |-> "table", blocks |-> <<block>>]
Tables2(list) == [shape |-> "tables", blocks |-> list]
T(t) == [text |-> t]
L(ts) == [list |-> ts]
Who == "name" :> T("jane d") @@ "headline" :> T("dev") @@ "location" :> T("town") @@
       "email" :> T("mail") @@ "summary" :> T("me")
Degree(where) ==
  "degree" :> T("bsc") @@ "institute" :> T(where) @@ "years" :> T("2020") @@ "location" :> T("town")
PlainCv ==
  [version |-> 1,
   profiles |-> [shape |-> "empty", blocks |-> <<>>],
   top |->
     "format_version" :> Table("" :> T("")) @@ "identity" :> Table(Who) @@
     "skills" :> Tables2(<<"category" :> T(" go") @@ "items" :> L(<<"de", " go">>)>>) @@
     "projects" :> Tables2(<<"name" :> T("site") @@ "notes" :> L(<<"me">>)>>) @@
     "interests" :> Tables2(<<"title" :> T("go") @@ "body" :> T("de")>>) @@
     "education" :> Tables2(<<Degree("uni")>>) @@
     "experience" :> Tables2(<<"role" :> T("dev") @@ "period" :> T("2020") @@ "company" :> T("acme") @@
                              "location" :> T("town")>>) @@
     "languages" :> Tables2(<<"name" :> T("de") @@ "level" :> T("lab")>>) @@
     "contact" :> Table("body" :> T("mail"))]
FullCv ==
  [PlainCv EXCEPT
     !.profiles = Tables2(<<"label" :> T("post") @@ "url" :> T("https"), "label" :> T("site") @@ "url" :> T("lab")>>),
     !.top["identity"] = Table(("photo" :> T("pic") @@ "updated" :> T("2020")) @@ Who),
     !.top["projects"].blocks[1] = ("technologies" :> L(<<"go", "de">>)) @@ @,
     !.top["education"].blocks = <<Degree("uni"), ("institute_url" :> T("https") @@ "thesis" :> T("me")
                                      @@ "focus" :> T("post") @@ "course_url" :> T("site")) @@ Degree("lab")>>,
     !.top["experience"].blocks[1] = ("company_url" :> T("https") @@ "body" :> T("me")) @@ @,
     !.top["languages"].blocks[1] = ("url" :> T("https")) @@ @]
MCOfferedKeys ==
  [ identity |-> {"name", "photo"}, profile |-> {"url"}, skills |-> {"items", "category"},
    projects |-> {"notes", "technologies"}, interests |-> {"title", "body"},
    education |-> {"institute", "institute_url"}, experience |-> {"period", "note"},
    languages |-> {"url", "name"}, contact |-> {"title"} ]
MCValues == {T(" "), T(" go"), L(<<"go", " ">>), L(<<"lab">>), [other |-> TRUE]}
Named(who, same) == [name |-> who, url |-> "site", same_as |-> same]
MCAuthors == {Named("jane", <<"https", " ">>), Named("jane d", <<>>), Named("", <<>>)}
MCPageBodies == {<<"cv">>, <<"", "other", "cv">>, <<"cv", "gone">>}
MCProjects ==
  { [files |-> "cv" :> FullCv @@ "other" :> PlainCv, author |-> Named("jane", <<"https", " ">>),
     pieces |-> <<"", "cv", "other">>],
    [files |-> "cv" :> PlainCv, author |-> Named("jane d", <<>>), pieces |-> <<"cv">>] }

(* The parts at rest.                                                          *)
NoLink ==
  writer = <<"index">> /\ ref = <<"index">> /\ coords = Coord("", "", "", FALSE)
NoCheck ==
  /\ emitted = {} /\ body = {} /\ chrome = {} /\ source = {} /\ sourceKnown = FALSE
  /\ depth = 0 /\ post = FALSE /\ found = NotChecked
NoPages ==
  /\ tree = [locale |-> <<>>, glossary |-> FALSE,
             pages |-> [older |-> <<>>, current |-> <<>>, unversioned |-> <<>>, site |-> <<>>]]
  /\ passed = 0 /\ out = [key \in {} |-> NoPage]
NoTable == headers = <<>> /\ row = <<>> /\ align = <<>> /\ pretty = FALSE
NoBody == blocks = <<>> /\ title = NoTitle /\ settings = Unset /\ hero = FALSE
NoSite ==
  /\ locales = <<"en">> /\ authored = [l \in {"en"} |-> {}] /\ unversioned = authored
  /\ tagged = authored /\ released = FALSE /\ posts = {} /\ edits = 0
NoCv == files = [n \in {} |-> 0] /\ author = NoAuthor /\ pieces = <<>> /\ written = 0

MCInit ==
  /\ markdown = <<>> /\ DirectivesInit /\ text = <<>>
  /\ \/ part = "link"     /\ LinksInit
     \/ part # "link"     /\ NoLink
  /\ \/ part = "check"    /\ ResolutionInit
     \/ part # "check"    /\ NoCheck
  /\ \/ part = "pages"    /\ PagesInit
     \/ part # "pages"    /\ NoPages
  /\ \/ part = "table"    /\ TablesInit
     \/ part # "table"    /\ NoTable
  /\ \/ part = "body"     /\ PairedInit
     \/ part # "body"     /\ NoBody
  /\ \/ part = "site"     /\ MetadataInit
     \/ part # "site"     /\ NoSite
  /\ \/ part = "cv"       /\ CvInit
     \/ part # "cv"       /\ NoCv

Parts == {"lines", "markers", "spans", "link", "check", "pages", "table", "body", "site", "cv"}

MCNext ==
  \/ /\ part = "lines" /\ TokenizerNext
     /\ UNCHANGED <<directiveVars, spanVars, linkVars, resolutionVars, pagesVars, tableVars,
                    bodyVars, metadataVars, cvVars>>
  \/ /\ part = "markers" /\ DirectivesNext
     /\ UNCHANGED <<tokenizerVars, spanVars, linkVars, resolutionVars, pagesVars, tableVars,
                    bodyVars, metadataVars, cvVars>>
  \/ /\ part = "spans" /\ SpansNext
     /\ UNCHANGED <<tokenizerVars, directiveVars, linkVars, resolutionVars, pagesVars,
                    tableVars, bodyVars, metadataVars, cvVars>>
  \/ /\ part = "link" /\ LinksNext
     /\ UNCHANGED <<tokenizerVars, directiveVars, spanVars, resolutionVars, pagesVars,
                    tableVars, bodyVars, metadataVars, cvVars>>
  \/ /\ part = "check" /\ ResolutionNext
     /\ UNCHANGED <<tokenizerVars, directiveVars, spanVars, linkVars, pagesVars, tableVars,
                    bodyVars, metadataVars, cvVars>>
  \/ /\ part = "pages" /\ PagesNext
     /\ UNCHANGED <<tokenizerVars, directiveVars, spanVars, linkVars, resolutionVars,
                    tableVars, bodyVars, metadataVars, cvVars>>
  \/ /\ part = "table" /\ TablesNext
     /\ UNCHANGED <<tokenizerVars, directiveVars, spanVars, linkVars, resolutionVars,
                    pagesVars, bodyVars, metadataVars, cvVars>>
  \/ /\ part = "body" /\ BodyNext
     /\ UNCHANGED <<tokenizerVars, directiveVars, spanVars, linkVars, resolutionVars,
                    pagesVars, tableVars, metadataVars, cvVars>>
  \/ /\ part = "site" /\ MetadataNext
     /\ UNCHANGED <<tokenizerVars, directiveVars, spanVars, linkVars, resolutionVars,
                    pagesVars, tableVars, bodyVars, cvVars>>
  \/ /\ part = "cv" /\ CvNext
     /\ UNCHANGED <<tokenizerVars, directiveVars, spanVars, linkVars, resolutionVars,
                    pagesVars, tableVars, bodyVars, metadataVars>>

textVars ==
  <<tokenizerVars, directiveVars, spanVars, linkVars, resolutionVars, pagesVars, tableVars,
    bodyVars, metadataVars, cvVars>>

MCSpec == (part \in Parts /\ MCInit) /\ [][MCNext /\ UNCHANGED part]_<<textVars, part>>

(* What a site says of itself and of the person it is about is so: the         *)
(* addresses of its metadata, and its curriculum vitae.                        *)
TheSiteSaysWhatIsSo == MetadataIsOfTheSite /\ CvPagesKeepTheirWord
===============================================================================
