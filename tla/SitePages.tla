------------------------------- MODULE SitePages -------------------------------
(* The pages of one documentation build (internal/page) and the term pass      *)
(* behind them (internal/html/terms.go): the sidebar, its neighbours, the      *)
(* pickers, the table of declared terms and the glossary made of it.  A build  *)
(* is a few passes over one output tree; each knows its own pages only.        *)
EXTENDS Naturals, Sequences, SequencesExt, FiniteSets, FiniteSetsExt

CONSTANTS
  Trees,    \* the documentation trees built
  Fold,         \* a word without its case
  LowerCase,    \* a term's place in the alphabet, its case aside
  Slug,         \* a term as an anchor
  DirTitle,     \* the place in the alphabet of a directory's name as a title
  NoOrder,  \* a page that declares no nav_order
  NoPage

ASSUME CaseAssumption ==
  \A t, u \in DOMAIN LowerCase :
    LowerCase[t] = LowerCase[u]
      <=> [k \in DOMAIN t |-> Fold[t[k]]] = [k \in DOMAIN u |-> Fold[u[k]]]

(* A page's path is its HTML directory, <<>> for the index; its sources are in *)
(* the order the tree is walked.  A tree has the pages of each pass: an older  *)
(* version's, the current one's, the unversioned ones and the posts.           *)
Older == "older"
Current == "current"
UnversionedPass == "unversioned"
SitePass == "site"
Passes == <<Older, Current, UnversionedPass, SitePass>>

VARIABLES
  tree,
  passed,  \* how many passes are done
  out      \* the output tree: a page's record by its output key

pagesVars == <<tree, passed, out>>

StableMountHere == tree.locale
MountOf(pass) ==
  CASE pass = Older -> StableMountHere \o <<"v", "1">>
    [] pass \in {Current, UnversionedPass} -> StableMountHere
    [] pass = SitePass -> <<>>

AtSiteRoot(path) == path # <<>> /\ Head(path) = "blog"

StableSort(seq, Before(_, _)) ==
  LET earlier(i, j) == Before(seq[i], seq[j]) \/ (~Before(seq[j], seq[i]) /\ i < j)
      places == SetToSortSeq(DOMAIN seq, earlier)
  IN [i \in DOMAIN seq |-> seq[places[i]]]

(* One sidebar row; a group is a sequence of them.                             *)
Item(page, everywhere) == [path |-> page.path, unversioned |-> everywhere]
Items(pages, everywhere) == [i \in DOMAIN pages |-> Item(pages[i], everywhere)]

TopLevel(pages) ==
  LET tops == SelectSeq(pages, LAMBDA p : Len(p.path) <= 1)
      index == SelectSeq(tops, LAMBDA p : p.path = <<>>)
      rest == SelectSeq(tops, LAMBDA p : p.path # <<>>)
      before(p, q) ==
        \/ p.order # NoOrder /\ q.order = NoOrder
        \/ p.order # NoOrder /\ q.order # NoOrder /\ p.order < q.order
  IN Items(index \o StableSort(rest, before), FALSE)

OrderOf(page) == IF page.order = NoOrder THEN 0 ELSE page.order
ByOrder(p, q) == OrderOf(p) < OrderOf(q)

(* A group's title is what the last page declaring one says, else its          *)
(* directory's name.  Titles are numbers in their alphabetical order.          *)
TitleOf(pages, dir) ==
  LET declared == SelectSeq(pages, LAMBDA p : p.path[1] = dir /\ p.group # 0)
  IN IF declared = <<>> THEN DirTitle[dir] ELSE Last(declared).group
Groups(pages) ==
  LET nested == SelectSeq(pages, LAMBDA p : Len(p.path) > 1)
      dirs == FoldLeft(LAMBDA seen, p : IF p.path[1] \in Range(seen) THEN seen
                                        ELSE Append(seen, p.path[1]), <<>>, nested)
      before(d, e) == TitleOf(nested, d) < TitleOf(nested, e)
      sorted == StableSort(dirs, before)
      of(d) == StableSort(SelectSeq(nested, LAMBDA p : p.path[1] = d), ByOrder)
  IN [i \in DOMAIN sorted |-> Items(of(sorted[i]), FALSE)]

Everywhere(pages) ==
  LET posts == SelectSeq(pages, LAMBDA p : p.date # 0)
      general == SelectSeq(pages, LAMBDA p : p.date = 0)
  IN Items(StableSort(posts, LAMBDA p, q : p.date > q.date)
             \o StableSort(general, ByOrder), TRUE)

(* BuildNav and FlattenNav.                                                    *)
FlatNav(pages, everywhere) ==
  TopLevel(pages) \o FlattenSeq(Groups(pages)) \o Everywhere(everywhere)

(* Mutant: an unversioned page is looked for in the version being read.        *)
navHopWithin(item, mount) ==
  IF AtSiteRoot(item.path) THEN item.path ELSE mount \o item.path
(* What navHop's three prefixes reach, from a page under a mount.              *)
navHop(item, mount) ==
  IF AtSiteRoot(item.path) THEN item.path
  ELSE IF item.unversioned THEN StableMountHere \o item.path ELSE mount \o item.path

HrefOf(path, mount) == IF AtSiteRoot(path) THEN path ELSE mount \o path

(* The pass's own index, or the one every build writes at its stable mount.    *)
homeHref(pages, pass) ==
  IF \E p \in Range(pages) : p.path = <<>> THEN MountOf(pass)
  ELSE IF pass = SitePass THEN <<>> ELSE StableMountHere

Crumbs(page, pages, mount) ==
  {HrefOf(p.path, mount) : p \in {q \in Range(pages) :
     /\ q.path # <<>> /\ q.path # page.path
     /\ IsStrictPrefix(q.path, page.path)}}

---------------------------------------------------------------------------
(* Terms.                                                                      *)

(* assignDefinitionIDs: an anchor is a slug and how often it was taken before. *)
DfnAnchor(page, i) ==
  <<Slug[page.declares[i].term],
    Cardinality({j \in 1 .. i - 1 : Slug[page.declares[j].term] = Slug[page.declares[i].term]})>>

CollectDeclaredTerms(page) ==
  [i \in DOMAIN page.declares |->
     [term |-> page.declares[i].term, page |-> page.path,
      anchor |-> DfnAnchor(page, i), definition |-> page.declares[i].definition]]

(* SiteTerms.Add: the first page that declares a term owns it.                 *)
AddTerm(table, entry) ==
  IF \E t \in Range(table) : LowerCase[t.term] = LowerCase[entry.term] THEN table
  ELSE Append(table, entry)
SiteTerms(pages) ==
  FoldLeft(AddTerm, <<>>, FlattenSeq([i \in DOMAIN pages |-> CollectDeclaredTerms(pages[i])]))

SortedTerms(table) == StableSort(table, LAMBDA t, u : LowerCase[t.term] < LowerCase[u.term])
(* The id of an entry, of the sorted table.                                    *)
GlossaryId(table, i) ==
  LET sorted == SortedTerms(table)
      taken == {j \in 1 .. i - 1 : Slug[sorted[j].term] = Slug[sorted[i].term]}
  IN [anchor |-> <<Slug[sorted[i].term], Cardinality(taken)>>, term |-> sorted[i].term]

(* The places of a body where a term stands, in any case, in text that is not  *)
(* a link yet.                                                                 *)
Occurrences(body, term, links) ==
  {i \in DOMAIN body :
     \A k \in DOMAIN term :
       /\ i + k - 1 \in DOMAIN body
       /\ Fold[body[i + k - 1].says] = Fold[term[k]]
       /\ body[i + k - 1].in = body[i].in
       /\ body[i].in # "code"
       /\ \A l \in links : i + k - 1 \notin l.first .. l.last}

ApplyCrossPageTerms(body, table, path, mount) ==
  LET cross == SelectSeq(table, LAMBDA t : t.page # path)
      longest == StableSort(cross, LAMBDA t, u : Len(t.term) > Len(u.term))
      link(links, t) ==
        LET where == Occurrences(body, t.term, links)
        IN IF where = {} THEN links
           ELSE links \cup {[first |-> Min(where), last |-> Min(where) + Len(t.term) - 1,
                             key |-> HrefOf(t.page, mount), id |-> [anchor |-> t.anchor, term |-> t.term]]}
  IN FoldLeft(link, {}, longest)

Glossary == <<"glossary">>
SaidIn(term, where) == [k \in DOMAIN term |-> [says |-> term[k], in |-> where]]
(* Its body: the definitions, then the terms once more as structured data.     *)
GlossaryBody(table) ==
  LET sorted == SortedTerms(table)
  IN FlattenSeq([i \in DOMAIN sorted |-> SaidIn(sorted[i].definition, "text")])
       \o FlattenSeq([i \in DOMAIN sorted |-> SaidIn(sorted[i].term, "data")])

Synthesized(pages, table) ==
  /\ tree.glossary /\ table # <<>>
  /\ \A p \in Range(pages) : p.path # Glossary

---------------------------------------------------------------------------
(* One pass.                                                                   *)

SourcesOf(pass) == tree.pages[pass]
ShownEverywhere(pass) ==
  IF pass \in {Older, Current} THEN tree.pages[UnversionedPass] ELSE <<>>

(* renderVersionPicker, given the pages each version has.                      *)
VersionPages(v) == {p.path : p \in Range(tree.pages[v])}
VersionPicker(page, pass) ==
  LET options == IF pass \in {Older, Current}
                   THEN {v \in {Older, Current} : page.path \in VersionPages(v)} ELSE {}
  IN IF Cardinality(options) <= 1 THEN {} ELSE {MountOf(v) \o page.path : v \in options}

Neighbour(flat, i, mount) ==
  IF i \in DOMAIN flat THEN navHop(flat[i], mount) ELSE NoPage

(* The pages of a pass in the order they are rendered: the sidebar's, of which *)
(* the ones it has no source for are left out.                                 *)
Rendered(pages, flat) ==
  LET held == SelectSeq(flat, LAMBDA it : \E p \in Range(pages) : p.path = it.path)
  IN [i \in DOMAIN held |-> CHOOSE p \in Range(pages) : p.path = held[i].path]

PageOf(pass, flat, pages, i, table, sidebar) ==
  LET mount == MountOf(pass)
      page == pages[i]
      sorted == SortedTerms(table)
  IN [by |-> pass, nav |-> {navHop(item, mount) : item \in sidebar},
      prev |-> Neighbour(flat, i - 1, mount), next |-> Neighbour(flat, i + 1, mount),
      home |-> homeHref(pages, pass), crumbs |-> Crumbs(page, pages, mount),
      ids |-> {[anchor |-> DfnAnchor(page, k), term |-> page.declares[k].term] :
                 k \in DOMAIN page.declares},
      terms |-> ApplyCrossPageTerms(page.body, table, page.path, mount),
      body |-> page.body,
      entries |-> IF Synthesized(pages, table)
                    THEN {[key |-> mount \o Glossary, id |-> GlossaryId(table, k)] :
                            k \in {n \in DOMAIN sorted : sorted[n].page = page.path}}
                    ELSE {},
      versions |-> VersionPicker(page, pass)]

GlossaryPage(pass, pages, table, sidebar) ==
  LET mount == MountOf(pass)
      sorted == SortedTerms(table)
      links == ApplyCrossPageTerms(GlossaryBody(table), table, Glossary, mount)
  IN [by |-> pass, nav |-> {navHop(item, mount) : item \in sidebar},
      prev |-> NoPage, next |-> NoPage, home |-> homeHref(pages, pass), crumbs |-> {},
      ids |-> {GlossaryId(table, k) : k \in DOMAIN sorted},
      terms |-> links \cup {[first |-> 0, last |-> 0, key |-> HrefOf(t.page, mount),
                             id |-> [anchor |-> t.anchor, term |-> t.term]] : t \in Range(table)},
      body |-> GlossaryBody(table), entries |-> {}, versions |-> {}]

(* GenerateHTML: the pages, by the key each is written at.                     *)
GenerateHTML(pass) ==
  LET flat == FlatNav(SourcesOf(pass), ShownEverywhere(pass))
      pages == Rendered(SourcesOf(pass), flat)
      table == SiteTerms(pages)
      made == Synthesized(pages, table)
      sidebar == Range(flat)
                   \cup IF made THEN {[path |-> Glossary, unversioned |-> FALSE]} ELSE {}
      keys == {MountOf(pass) \o p.path : p \in Range(pages)}
                \cup IF made THEN {MountOf(pass) \o Glossary} ELSE {}
      at(key) == CHOOSE i \in DOMAIN pages : MountOf(pass) \o pages[i].path = key
  IN [key \in keys |->
        IF made /\ key = MountOf(pass) \o Glossary
        THEN GlossaryPage(pass, pages, table, sidebar)
        ELSE PageOf(pass, flat, pages, at(key), table, sidebar)]

Overlay(new, old) ==
  [key \in DOMAIN new \cup DOMAIN old |-> IF key \in DOMAIN new THEN new[key] ELSE old[key]]

(* BuildSingle and writePages; a pass without a page is passed over.           *)
BuildPass ==
  /\ passed < Len(Passes)
  /\ LET pass == Passes[passed + 1]
     IN /\ SourcesOf(pass) # <<>>
        /\ out' = Overlay(GenerateHTML(pass), out)
  /\ passed' = passed + 1 /\ UNCHANGED tree
PassOverEmpty ==
  /\ passed < Len(Passes) /\ SourcesOf(Passes[passed + 1]) = <<>>
  /\ passed' = passed + 1 /\ UNCHANGED <<tree, out>>

NotFound == <<"404">>
BarePage(nav, popular, home) ==
  [by |-> "files", nav |-> nav, popular |-> popular, prev |-> NoPage, next |-> NoPage, home |-> home, crumbs |-> {},
   ids |-> {}, terms |-> {}, body |-> <<>>, entries |-> {}, versions |-> {}]
(* Generate404Page, its sidebar over the pages of every pass but the archives  *)
(* and the first five of them once more, and the stub at the root of a tree    *)
(* whose pages are mounted under a locale.                                     *)
Popular == 5
WriteSiteFiles ==
  /\ passed = Len(Passes) /\ NotFound \notin DOMAIN out
  /\ LET flat == FlatNav(tree.pages[Current], tree.pages[UnversionedPass] \o tree.pages[SitePass])
         nav == {navHop(item, StableMountHere) : item \in Range(flat)}
         popular == {[path |-> flat[i].path, key |-> StableMountHere \o flat[i].path] :
                       i \in DOMAIN flat \cap 1 .. Popular}
         files == {NotFound} \cup IF StableMountHere = <<>> THEN {} ELSE {<<>>}
     IN out' = Overlay([key \in files |-> IF key = NotFound
                                            THEN BarePage(nav, popular, StableMountHere)
                                            ELSE BarePage({}, {}, StableMountHere)], out)
  /\ UNCHANGED <<tree, passed>>

BuildDone == passed = Len(Passes) /\ NotFound \in DOMAIN out /\ UNCHANGED pagesVars

PagesInit == tree \in Trees /\ passed = 0 /\ out = [key \in {} |-> NoPage]
PagesNext == BuildPass \/ PassOverEmpty \/ WriteSiteFiles \/ BuildDone

---------------------------------------------------------------------------
Built == NotFound \in DOMAIN out

(* Every link a page gives its reader lands: the sidebar's rows, of three      *)
(* roots, the neighbours, the home link, the ancestors and the versions the    *)
(* picker offers all name a page that some pass wrote.  So do the popular      *)
(* pages of the 404 page, but for a post where pages are under a locale: it    *)
(* is looked for under the locale too.                                         *)
SidebarsLand ==
  Built =>
    /\ \A key \in DOMAIN out :
         out[key].nav \cup out[key].crumbs \cup out[key].versions \cup {out[key].home}
           \cup {out[key].prev, out[key].next} \subseteq DOMAIN out \cup {NoPage}
    /\ \A row \in out[NotFound].popular :
         row.key \in DOMAIN out <=> ~(AtSiteRoot(row.path) /\ StableMountHere # <<>>)

(* Reading on and reading back agree: among the pages of one pass, a page's    *)
(* next one has it as its previous one, however the sidebar is grouped.        *)
NeighboursAgree ==
  \A a, b \in DOMAIN out :
    /\ out[a].by = out[b].by /\ out[a].by # "files"
    => /\ out[a].next # a /\ out[a].prev # a
       /\ out[a].next = b <=> out[b].prev = a

(* An automatic term link lands on the very definition it names, and the link  *)
(* of a definition on its glossary entry: the page is there and that id is the *)
(* term's, whatever the anchor had to become on it -- unless a later pass has  *)
(* since written its own glossary at that address.                             *)
TermLinksLand ==
  Built => \A key \in DOMAIN out : \A l \in out[key].terms \cup out[key].entries :
    /\ l.key \in DOMAIN out
    /\ \/ l.id \in out[l.key].ids
       \/ Last(l.key) = "glossary" /\ out[l.key].by # out[key].by

(* A phrase that is a term of another page is linked as that term before a     *)
(* shorter term inside it is, and no two links of a page share a word.         *)
TermsOf(pass) == SiteTerms(Rendered(SourcesOf(pass), FlatNav(SourcesOf(pass), ShownEverywhere(pass))))
LongestTermWins ==
  \A key \in DOMAIN out : \A l \in {m \in out[key].terms : m.first # 0} :
    /\ \A m \in out[key].terms : m.first \in l.first .. l.last => m = l
    /\ \A t \in Range(TermsOf(out[key].by)) : \A i \in Occurrences(out[key].body, t.term, {}) :
         /\ MountOf(out[key].by) \o t.page # key
         /\ l.first .. l.last \subseteq i .. i + Len(t.term) - 1
         /\ l.last - l.first + 1 < Len(t.term)
         => \E m \in out[key].terms : m.first # 0 /\ m.id.anchor = t.anchor

(* What the passes put around and into a page leads to pages and ids that     *)
(* some pass wrote: sidebar, neighbours, pickers, glossary and terms.         *)
NavigationLands == SidebarsLand /\ NeighboursAgree /\ TermLinksLand /\ LongestTermWins
=============================================================================
