------------------------------- MODULE HtmlBody -------------------------------
(* MdToHTML (internal/html): the blocks of a page as the body of its HTML --   *)
(* element ids, tabs of code, lists of steps, cards of an API.  A text is the  *)
(* slug of it, an id is a sequence of the parts that hyphens join.             *)
EXTENDS Naturals, Sequences, FiniteSets, SequencesExt, TLC

CONSTANTS Blocks,     \* the blocks a page may have: records of
                      \*   kind, level, slug, named (an identifier), opens (a
                      \*   word for steps), lang, bare, lines and width
          MaxBlocks,  \* bound on the blocks of a page
          Lookback,   \* how far applyStepGuides looks back, in units of width
          Titles, NoTitle,  \* titles of the frontmatter, and having none
          Settings    \* auto_steps and auto_api, of the page and of the project

VARIABLES blocks, title, settings, hero
bodyVars == <<blocks, title, settings, hero>>

Positions == DOMAIN blocks
IsHeading(i) == blocks[i].kind = "heading"
TitleAt == {i \in Positions : /\ IsHeading(i) /\ blocks[i].level = 1
                              /\ \A j \in 1 .. i - 1 : IsHeading(j) => blocks[j].level # 1}

------------------------------------------------------------------------------
(* AssignHeadingAnchors.  A repeated slug is numbered, and only the slugs of  *)
(* the body count.                                                            *)
Repeats(i) == {j \in (1 .. i - 1) \ TitleAt : IsHeading(j) /\ blocks[j].slug = blocks[i].slug}
Anchor(i, pageTitle) ==
  CASE i \in TitleAt /\ pageTitle # NoTitle -> pageTitle
    [] i \in TitleAt /\ pageTitle = NoTitle -> blocks[i].slug
    [] i \notin TitleAt ->
         LET count == Cardinality(Repeats(i))
         IN IF count = 0 THEN blocks[i].slug ELSE Append(blocks[i].slug, ToString(count))

(* The chrome emits the page title as a heading, unless a hero does, with its *)
(* own words; the body renders the other headings.                            *)
PageTitle ==
  IF title # NoTitle THEN title
  ELSE LET i == CHOOSE i \in TitleAt : TRUE IN blocks[i].slug
PageAccepted ==
  /\ Cardinality({i \in Positions : IsHeading(i) /\ blocks[i].level = 1}) <= 1
  /\ title # NoTitle \/ TitleAt # {}
ChromeIds == IF hero THEN {} ELSE {PageTitle}

RenderedBlocks == SelectSeq([i \in Positions |-> i],
                      LAMBDA i : blocks[i].kind # "blank" /\ i \notin TitleAt)

------------------------------------------------------------------------------
(* groupCodeTabs works on the lines of the HTML.  The first line of a code    *)
(* block has the label, and a run of lines that do becomes a set of tabs.     *)
HtmlLines == FlattenSeq([k \in DOMAIN RenderedBlocks |->
           [n \in 1 .. blocks[RenderedBlocks[k]].lines |-> [block |-> RenderedBlocks[k], line |-> n]]])
hasCodeBlockWithLabel(l) ==
  LET block == blocks[l.block]
  IN block.kind = "code" /\ block.lang # "" /\ block.bare /\ l.line = 1

RunEnd(lines, k) ==
  CHOOSE j \in k .. Len(lines) + 1 :
    /\ j <= Len(lines) => ~hasCodeBlockWithLabel(lines[j])
    /\ \A m \in k .. j - 1 : hasCodeBlockWithLabel(lines[m])

GroupsAgain(lines) ==  \* mutant: the tabs of a group are tried again one by one
  LET from[k \in 1 .. Len(lines) + 1] ==
        IF k > Len(lines) THEN <<>>
        ELSE IF RunEnd(lines, k) < k + 2 THEN <<<<lines[k]>>>> \o from[k + 1]
        ELSE <<SubSeq(lines, k, RunEnd(lines, k) - 1)>> \o from[k + 1]
  IN from[1]
groupCodeTabs(lines) ==
  LET from[k \in 1 .. Len(lines) + 1] ==
        IF k > Len(lines) THEN <<>>
        ELSE IF RunEnd(lines, k) < k + 2 THEN <<<<lines[k]>>>> \o from[k + 1]
        ELSE <<SubSeq(lines, k, RunEnd(lines, k) - 1)>> \o from[RunEnd(lines, k)]
  IN from[1]
Grouped == groupCodeTabs(HtmlLines)
TabGroups == {g \in Range(Grouped) : Len(g) > 1}
TabIds == {<<part, blocks[l.block].lang>> :
             part \in {"tab", "panel"}, l \in UNION {Range(g) : g \in TabGroups}}

------------------------------------------------------------------------------
(* applyStepGuides: a list is one of steps if the last h2 or h3 in reach that *)
(* opens with the word for it is the last h2 or h3 at all.                    *)
Distance(i, j) == FoldSeq(LAMBDA k, n : k + n, 0,
  [m \in 1 .. j - i |-> IF blocks[i + m - 1].kind = "blank" \/ i + m - 1 \in TitleAt
                        THEN 0 ELSE blocks[i + m - 1].width])
InReach(i) == {j \in 1 .. i - 1 : /\ IsHeading(j) /\ j \notin TitleAt
                                  /\ blocks[j].level \in {2, 3}
                                  /\ Distance(j, i) <= Lookback}
FollowsSteps(i) ==
  \E j \in InReach(i) : blocks[j].opens /\ \A k \in InReach(i) : k <= j

(* The page's own setting comes before the project's.                         *)
Runs(page, project, default) ==
  IF page # "unset" THEN page = "on" ELSE IF project # "unset" THEN project = "on" ELSE default
Steps ==
  {i \in Positions :
     /\ Runs(settings.steps, settings.allSteps, TRUE)
     /\ blocks[i].kind = "list" /\ FollowsSteps(i)}

------------------------------------------------------------------------------
(* wrapAPIEntries.  The three parts of a card are each matched as far as it   *)
(* takes for the next to follow: the first heading up to the end of one with  *)
(* a code block under it, from there up to the end of a code block with a     *)
(* paragraph under it.  What it matched is never tried again.                 *)
IsOne(g, kind) == Len(g) = 1 /\ blocks[g[1].block].kind = kind
LastOf(g, kind) == IsOne(g, kind) /\ g[1].line = blocks[g[1].block].lines
CardHeading(g) == IsOne(g, "heading") /\ blocks[g[1].block].level \in {3, 4}
CardCode(g) == IsOne(g, "code") /\ g[1].line = 1 /\ blocks[g[1].block].bare
               /\ ~blocks[g[1].block].runs

Match(groups, k) ==  \* <<end of the heading, end of the code>>, or nothing
  LET ends == {e \in (k .. Len(groups)) \X (k .. Len(groups)) :
                 /\ e[1] < e[2] /\ e[2] < Len(groups)
                 /\ CardHeading(groups[e[1]]) /\ CardCode(groups[e[1] + 1])
                 /\ LastOf(groups[e[2]], "code") /\ IsOne(groups[e[2] + 1], "para")}
  IN {e \in ends : \A o \in ends : e[1] < o[1] \/ (e[1] = o[1] /\ e[2] <= o[2])}

MaxCardLines == 3
Entry(groups, k, e) ==
  /\ e[1] = k /\ blocks[groups[k][1].block].named
  /\ e[2] - e[1] <= MaxCardLines
wrapAPIEntries(groups) ==  \* the cards, each from its heading to its paragraph
  LET from[k \in 1 .. Len(groups) + 1] ==
        IF k > Len(groups) THEN {}
        ELSE IF ~CardHeading(groups[k]) \/ Match(groups, k) = {} THEN from[k + 1]
        ELSE LET e == CHOOSE e \in Match(groups, k) : TRUE
             IN (IF Entry(groups, k, e) THEN {SubSeq(groups, k, e[2] + 1)} ELSE {})
                \cup from[e[2] + 2]
  IN from[1]
EntryCards == IF Runs(settings.api, settings.allApi, FALSE) THEN wrapAPIEntries(Grouped) ELSE {}

------------------------------------------------------------------------------
(* assignDefinitionIDs: the first number that makes the term's own id new.    *)
TermAnchor(slug) == <<"term">> \o slug
Unused(base, used) ==
  IF base \notin used THEN base
  ELSE LET free == {n \in 1 .. Cardinality(used) + 1 : Append(base, ToString(n)) \notin used}
       IN Append(base, ToString(CHOOSE n \in free : \A m \in free : n <= m))

BodyHeadings == {i \in Positions \ TitleAt : IsHeading(i)}
HeadingIds == {Anchor(i, NoTitle) : i \in BodyHeadings}
assignDefinitionIDs ==
  LET ids[i \in 0 .. Len(blocks)] ==
        IF i = 0 THEN <<>>
        ELSE IF blocks[i].kind # "term" THEN ids[i - 1]
        ELSE Append(ids[i - 1],
                    Unused(TermAnchor(blocks[i].slug), HeadingIds \cup TabIds \cup Range(ids[i - 1])))
  IN ids[Len(blocks)]

------------------------------------------------------------------------------
BodyInit ==
  /\ blocks = <<>> /\ title \in Titles \cup {NoTitle}
  /\ settings \in Settings /\ hero \in BOOLEAN
BodyNext ==
  /\ Len(blocks) < MaxBlocks
  /\ \E block \in Blocks : blocks' = Append(blocks, block)
  /\ UNCHANGED <<title, settings, hero>>

------------------------------------------------------------------------------
(* pageHeadings of the manifest, which the search index lists, says where the *)
(* headings of the page are: on a page without a hero, whose own heading      *)
(* has no id, every one of them is an id of the built page, with or without a *)
(* title of the frontmatter.                                                  *)
ListedAnchors == {Anchor(i, title) : i \in {j \in Positions : IsHeading(j)}}
ListedAnchorsLand == PageAccepted /\ ~hero => ListedAnchors \subseteq HeadingIds \cup ChromeIds
(* Tabs neither lose a line of the page nor repeat one.                       *)
TabsKeepTheLines == FlattenSeq(Grouped) = HtmlLines
(* A list is one of steps only under the heading that says so, and never on a *)
(* page that asked for none.                                                  *)
StepsFollowTheirHeading ==
  \A i \in Steps :
    /\ settings.steps # "off"
    /\ \E j \in 1 .. i - 1 :
         /\ IsHeading(j) /\ blocks[j].opens /\ blocks[j].level \in {2, 3}
         /\ \A k \in j + 1 .. i - 1 :
              IsHeading(k) => k \in TitleAt \/ blocks[k].level \notin {2, 3}

(* An entry that follows no heading of its kind but those of entries has its   *)
(* card: a heading without a code block under it takes the next entry with it. *)
BlocksOf(card) == {l.block : l \in UNION {Range(g) : g \in Range(card)}}
EntryAt(k) ==
  LET block(n) == blocks[RenderedBlocks[k + n]]
  IN /\ block(0).kind = "heading" /\ block(0).level \in {3, 4} /\ block(0).named
     /\ block(1).kind = "code" /\ block(1).bare /\ ~block(1).runs
     /\ block(1).lines <= MaxCardLines
     /\ block(2).kind = "para"
EntriesHaveCards ==
  Runs(settings.api, settings.allApi, FALSE) =>
    \A k \in 1 .. Len(RenderedBlocks) - 2 :
      EntryAt(k) /\ (\A j \in 1 .. k - 1 : blocks[RenderedBlocks[j]].kind = "heading"
                       => blocks[RenderedBlocks[j]].level \notin {3, 4} \/ EntryAt(j))
        => \E card \in EntryCards : RenderedBlocks[k] \in BlocksOf(card)

(* No definition takes the id of another, of a heading of the body or of a    *)
(* tab (assignDefinitionIDs).                                                 *)
DefinitionIdsAreNew ==
  /\ \A i, j \in DOMAIN assignDefinitionIDs :
       assignDefinitionIDs[i] = assignDefinitionIDs[j] => i = j
  /\ Range(assignDefinitionIDs) \cap (HeadingIds \cup TabIds) = {}

-------------------------------------------------------------------------------
(* A table from its data to the page: RenderMarkdownTable (internal/tables)    *)
(* writes it as Markdown, ParseTable (internal/html) reads the rows back into  *)
(* cells.  A text is a sequence of the characters that either side looks at.   *)

CONSTANTS Chars,       \* the characters of a cell
          Alignments,  \* the alignments a caller gives, a set of sequences
          MaxColumns, MaxTyped  \* bounds: columns, and characters typed in all

VARIABLES headers, row, align, pretty
tableVars == <<headers, row, align, pretty>>

------------------------------------------------------------------------------
(* Writing.  A pipe is left alone in a code span that is closed.              *)
InCode(text, i) ==
  /\ Cardinality({j \in 1 .. i - 1 : text[j] = "tick"}) % 2 = 1
  /\ \E j \in i + 1 .. Len(text) : text[j] = "tick"

EscapePipes(text) ==
  FlattenSeq([i \in DOMAIN text |->
    IF text[i] = "pipe" /\ ~InCode(text, i) THEN <<"slash", "pipe">> ELSE <<text[i]>>])

Times(char, n) == [k \in 1 .. n |-> char]
Dashes(n) == Times("dash", n)
Colon == <<"colon">>

sepCell(column) ==
  LET given == IF column <= Len(align) THEN align[column] ELSE "none"
  IN CASE given = "left" -> Colon \o Dashes(3)
       [] given = "center" -> Colon \o Dashes(3) \o Colon
       [] given = "right" -> Dashes(3) \o Colon
       [] given = "none" -> Dashes(3)

(* The dashes of a separator fill the width, and its colons stay.             *)
padSep(text, width) ==
  LET left == IF Head(text) = "colon" THEN Colon ELSE <<>>
      right == IF Last(text) = "colon" THEN Colon ELSE <<>>
      fill == Len(left) + Len(right)
  IN left \o Dashes(IF width > fill THEN width - fill ELSE 0) \o right

Columns == DOMAIN headers
Refused == headers = <<>> \/ Len(row) > Len(headers)

escapedHeaders == [c \in Columns |-> EscapePipes(headers[c])]
processedRow == [c \in Columns |-> IF c \in DOMAIN row THEN EscapePipes(row[c]) ELSE <<>>]
Width(c) == Max({Len(escapedHeaders[c]), Len(sepCell(c)), Len(processedRow[c])})
Padded(text, c) ==
  text \o Times("space", IF pretty /\ Len(text) < Width(c) THEN Width(c) - Len(text) ELSE 0)

Bar == <<"pipe">>
Space == <<"space">>
joinCells(cells) ==
  Bar \o FlattenSeq([c \in DOMAIN cells |-> Space \o cells[c] \o Space \o Bar])

RenderMarkdownTable ==
  << joinCells([c \in Columns |-> Padded(escapedHeaders[c], c)]),
     joinCells([c \in Columns |-> IF pretty THEN padSep(sepCell(c), Width(c)) ELSE sepCell(c)]),
     joinCells([c \in Columns |-> Padded(processedRow[c], c)]) >>

------------------------------------------------------------------------------
(* Reading.                                                                   *)
Strip(text) ==
  LET inked == {i \in DOMAIN text : text[i] # "space"}
  IN IF inked = {} THEN <<>> ELSE SubSeq(text, Min(inked), Max(inked))

splitUnescapedPipes(text) ==
  LET cuts == {i \in DOMAIN text : text[i] = "pipe" /\ (i > 1 => text[i - 1] # "slash")}
      ends == SetToSortSeq(cuts \cup {0, Len(text) + 1}, <)
  IN [k \in 1 .. Len(ends) - 1 |-> SubSeq(text, ends[k] + 1, ends[k + 1] - 1)]

Unescaped(text) ==  \* every \| is a pipe again
  FlattenSeq([i \in DOMAIN text |->
    IF text[i] = "slash" /\ i < Len(text) /\ text[IF i < Len(text) THEN i + 1 ELSE i] = "pipe"
    THEN <<>> ELSE <<text[i]>>])

EndsRow(text) ==
  /\ text # <<>> /\ Last(text) = "pipe"
  /\ Len(text) > 1 => text[Len(text) - 1] # "slash"
splitTableCells(line) ==
  LET stripped == Strip(line)
      opened == IF stripped # <<>> /\ Head(stripped) = "pipe" THEN Tail(stripped) ELSE stripped
      inner == IF EndsRow(opened) THEN Front(opened) ELSE opened
      parts == splitUnescapedPipes(inner)
  IN [c \in DOMAIN parts |-> Unescaped(Strip(parts[c]))]

(* separatorCellRE, or an empty cell.                                         *)
SeparatesColumn(cell) ==
  cell = <<>> \/ /\ \E i \in DOMAIN cell : cell[i] = "dash"
                 /\ \A i \in DOMAIN cell :
                      \/ cell[i] = "dash"
                      \/ cell[i] = "colon" /\ i \in {1, Len(cell)}
Alignment(cell) ==
  LET left == cell # <<>> /\ Head(cell) = "colon"
      right == cell # <<>> /\ Last(cell) = "colon"
  IN CASE left /\ right -> "center"
       [] left /\ ~right -> "left"
       [] ~left /\ right -> "right"
       [] ~left /\ ~right -> "none"

(* The first separator row parts the head from the body; a table that has     *)
(* none, or that opens with one, is all body.                                 *)
ParseTable(lines) ==
  LET rows == [k \in DOMAIN lines |-> splitTableCells(lines[k])]
      separators == {k \in DOMAIN rows : \A c \in DOMAIN rows[k] : SeparatesColumn(rows[k][c])}
      at == IF separators = {} THEN 0 ELSE Min(separators)
  IN [head |-> IF at > 1 THEN SubSeq(rows, 1, at - 1) ELSE <<>>,
      body |-> IF at > 1 THEN SubSeq(rows, at + 1, Len(rows)) ELSE rows,
      aligned |-> IF at = 0 THEN <<>> ELSE [c \in DOMAIN rows[at] |-> Alignment(rows[at][c])]]

------------------------------------------------------------------------------
TablesInit ==
  /\ headers \in {[c \in 1 .. n |-> <<>>] : n \in 1 .. MaxColumns}
  /\ row \in {[c \in 1 .. n |-> <<>>] : n \in 0 .. MaxColumns}
  /\ align \in Alignments
  /\ pretty \in BOOLEAN

Typed == FoldSeq(LAMBDA cell, n : Len(cell) + n, 0, headers \o row)
TypeCell(char) ==
  /\ \/ \E c \in Columns : /\ headers' = [headers EXCEPT ![c] = Append(@, char)]
                           /\ UNCHANGED row
     \/ \E c \in DOMAIN row : /\ row' = [row EXCEPT ![c] = Append(@, char)]
                              /\ UNCHANGED headers
  /\ UNCHANGED <<align, pretty>>
TablesNext == Typed < MaxTyped /\ \E char \in Chars : TypeCell(char)

------------------------------------------------------------------------------
HeadIsNamed == \E c \in Columns : ~SeparatesColumn(Strip(headers[c]))
Ticks(text, n) == Cardinality({k \in 1 .. n : text[k] = "tick"})
SpanHoldsPipe(text) ==
  \E from, to \in DOMAIN text :
    /\ from < to /\ text[from] = "tick" /\ text[to] = "tick"
    /\ Ticks(text, from) % 2 = 1 /\ Ticks(text, to) = Ticks(text, from) + 1
    /\ \E i \in from .. to : text[i] = "pipe"
CodeHoldsPipes ==
  \E cells \in {headers, row} : \E c \in DOMAIN cells : SpanHoldsPipe(cells[c])

ReadBack ==
  ParseTable(RenderMarkdownTable) =
    [head |-> <<[c \in Columns |-> Strip(headers[c])]>>,
     body |-> <<[c \in Columns |-> IF c \in DOMAIN row THEN Strip(row[c]) ELSE <<>>]>>,
     aligned |-> [c \in Columns |-> IF c \in DOMAIN align THEN align[c] ELSE "none"]]

(* What a table is rendered from is what the page shows: every cell under its *)
(* header, with its alignment, padded or not, whatever it holds of pipes,     *)
(* backslashes and unbalanced backticks -- as long as no code span holds a    *)
(* pipe and a header is more than dashes.                                     *)
TablesComeBack ==
  ~Refused /\ HeadIsNamed /\ ~CodeHoldsPipes => ReadBack

(* A page's body keeps what its Markdown says through the rewritings that     *)
(* follow one another: ids, tabs, cards, steps, and the cells of tables.      *)
BodiesKeepTheirMeaning ==
  /\ ListedAnchorsLand /\ DefinitionIdsAreNew
  /\ TabsKeepTheLines /\ EntriesHaveCards /\ StepsFollowTheirHeading
  /\ TablesComeBack
===============================================================================
