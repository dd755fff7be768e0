------------------------------- MODULE Directives -------------------------------
(* The readers of directive markers (internal/directives), fed one document    *)
(* line by line: walkBlocks, the second pass of ParseDirectives over the same  *)
(* lines, FindDirectiveMarkers, and the inline pass of ResolveDirectives over  *)
(* what the first pass put out.  Each keeps a fence tracking of its own.       *)
EXTENDS Integers, Sequences, FiniteSets, SequencesExt

(* Tokenize (internal/tokenizer): a Markdown document as a sequence of blocks. *)
(* A line is given by its class, which is all that the dispatch looks at.      *)

CONSTANTS MaxLines  \* bound on the length of a document

Classes == {"fence",      \* ```
            "longer",     \* ````
            "tildes",     \* ~~~
            "indented",   \* ``` with spaces before it
            "note",       \* [1]: an annotation of a code block
            "break", "heading", "row", "bullet", "number", "quote", "blank",
            "open",       \* :::name
            "shut",       \* :::
            "definition", \* ": " and text
            "text"}

VARIABLE markdown  \* the document, line by line
tokenizerVars == <<markdown>>

(* The first line from i on whose class is in the set, or the line after the  *)
(* last one: where a loop over lines[i:] stops.                               *)
FirstFrom(i, stop) ==
  CHOOSE j \in i .. Len(markdown) + 1 :
    /\ j <= Len(markdown) => markdown[j] \in stop
    /\ \A k \in i .. j - 1 : markdown[k] \notin stop
FirstOther(i, class) == FirstFrom(i, Classes \ {class})

Defined(i) == i < Len(markdown) /\ markdown[i + 1] = "definition"

(* The classes that end a paragraph, which are those an earlier step claims.  *)
Claimed == Classes \ {"text", "note", "shut", "definition", "tildes", "indented"}

(* What opens a code block and closes it again, whatever the lengths.         *)
Delimiters == {"fence", "longer"}

(* A block from line i: the line after its last one.  A fence or a ":::" that *)
(* is not closed runs to the end, and annotations belong to their code block. *)
AfterClosing(j) == IF j <= Len(markdown) THEN j + 1 ELSE j
AfterCode(i) == FirstOther(AfterClosing(FirstFrom(i + 1, Delimiters)), "note")
AfterDirective(i) == AfterClosing(FirstFrom(i + 1, {"shut"}))

(* A group of definitions is continued by the next one, over blank lines.     *)
AfterGroup(i) == FirstOther(i + 1, "definition")
NextGroup(i) == FirstOther(AfterGroup(i), "blank")
AfterDefinitions(i) ==
  LET after[j \in 1 .. Len(markdown)] ==
        IF Defined(NextGroup(j)) THEN after[NextGroup(j)] ELSE AfterGroup(j)
  IN after[i]

AfterParagraph(i) ==
  CHOOSE j \in i .. Len(markdown) + 1 :
    /\ j <= Len(markdown) => markdown[j] \in Claimed \/ Defined(j)
    /\ \A k \in i .. j - 1 : markdown[k] \notin Claimed /\ ~Defined(k)

(* One turn of the loop, its steps in their order.                            *)
TokenAt(i) ==
  LET token(kind, after) == [kind |-> kind, from |-> i, to |-> after - 1]
  IN CASE markdown[i] \in Delimiters -> token("code", AfterCode(i))
       [] markdown[i] \in {"break", "heading", "blank"} -> token(markdown[i], i + 1)
       [] markdown[i] = "open" -> token("directive", AfterDirective(i))
       [] markdown[i] \in {"row", "bullet", "number", "quote"} -> token(markdown[i], FirstOther(i, markdown[i]))
       [] markdown[i] \notin Claimed /\ Defined(i) -> token("definitions", AfterDefinitions(i))
       [] markdown[i] \notin Claimed /\ ~Defined(i) -> token("paragraph", AfterParagraph(i))

Tokenize ==
  LET from[i \in 1 .. Len(markdown) + 1] ==
        IF i > Len(markdown) THEN <<>> ELSE <<TokenAt(i)>> \o from[TokenAt(i).to + 1]
  IN from[1]

Write(class) ==
  /\ Len(markdown) < MaxLines
  /\ markdown' = Append(markdown, class)

TokenizerInit == markdown = <<>>
TokenizerNext == \E class \in Classes : Write(class)

-------------------------------------------------------------------------------

Covered(token) == token.from .. token.to

(* The tokens cover every line once, in order, none of them is empty, and so   *)
(* the loop ends (Tokenize: no gaps and no overlaps).                         *)
TokensCover ==
  LET tokens == Tokenize
  IN /\ \A n \in 1 .. Len(tokens) :
          /\ tokens[n].from <= tokens[n].to
          /\ tokens[n].from = IF n = 1 THEN 1 ELSE tokens[n - 1].to + 1
     /\ Len(markdown) > 0 => tokens[Len(tokens)].to = Len(markdown)

(* A line between two fences is code and no other line is, in a document      *)
(* without definitions and without legacy directives: text, headings and      *)
(* tables of a page are never read out of an example, nor the other way round *)
(* (Tokenize: what keeps a "#" line inside a fence out of the heading branch).*)
CodeIsCode ==
  {"open", "definition"} \cap {markdown[i] : i \in 1 .. Len(markdown)} = {} =>
    LET tokens == Tokenize
        Inside(i) == markdown[i] \notin Delimiters
                       /\ Cardinality({k \in 1 .. i - 1 : markdown[k] \in Delimiters}) % 2 = 1
        Note(i) == /\ markdown[i] = "note"
                   /\ \E k \in 1 .. i - 1 : /\ markdown[k] \in Delimiters
                                            /\ \A m \in k + 1 .. i - 1 : markdown[m] = "note"
    IN \A i \in 1 .. Len(markdown) :
         (\E n \in 1 .. Len(tokens) : tokens[n].kind = "code" /\ i \in Covered(tokens[n]))
           <=> markdown[i] \in Delimiters \/ Inside(i) \/ Note(i)

-------------------------------------------------------------------------------
CONSTANTS NoFence  \* outside of fenced code

(* The lines, by what the patterns of the package match of them; "inBody" is a *)
(* body line with an inline directive in it, be it in a block or outside of    *)
(* every one, "spanned" a line with one in a                                   *)
(* code span, "bad" one whose directive has a malformed name.                  *)
Fences == "ticks" :> [char |-> "tick", len |-> 3] @@ "more ticks" :> [char |-> "tick", len |-> 4]
            @@ "tildes" :> [char |-> "tilde", len |-> 3]
LineKinds == DOMAIN Fences \cup
  {"text", "one", "inline", "spanned", "bad", "open", "attr", "sep", "body", "inBody", "close"}

(* What a resolver may answer: lines of text, code, and further directives.    *)
Answers == {<<"text">>, <<"inline">>, <<"ticks", "inline", "ticks">>}

VARIABLES
  walk,      \* walkBlocks: its state and fence
  opened,    \* the line that opened the block, as the markers have it
  scan,      \* the fence of ParseDirectives' second pass
  marking,   \* the fence of FindDirectiveMarkers
  pass,      \* the fence of the inline pass
  verdict       \* what the readers made of the last line

directiveVars == <<walk, opened, scan, marking, pass, verdict>>

Nothing == [kind |-> "text", inside |-> FALSE, block |-> FALSE, listed |-> FALSE, marked |-> FALSE,
            resolved |-> FALSE, refused |-> FALSE]

-------------------------------------------------------------------------------

(* A fence is closed by one of its character that is at least as long.         *)
Closes(fence, kind) ==
  Fences[kind].char = fence.char /\ Fences[kind].len >= fence.len

(* The tracking of the second pass, of the markers and of the inline pass.     *)
FenceAfter(fence, kind) ==
  IF kind \notin DOMAIN Fences THEN fence
  ELSE IF fence = NoFence THEN Fences[kind]
  ELSE IF Closes(fence, kind) THEN NoFence ELSE fence

Idle == [state |-> "idle", fence |-> NoFence]

(* Mutant: fences are tracked inside of blocks as well.                        *)
WalksThroughFences(w, kind) ==
  IF kind \in DOMAIN Fences
  THEN [w EXCEPT !.fence = FenceAfter(w.fence, kind),
                 !.state = IF FenceAfter(w.fence, kind) = NoFence THEN "idle" ELSE "fence"]
  ELSE CASE w.state = "fence" -> w
         [] w.state = "idle" -> IF kind = "open" THEN [w EXCEPT !.state = "attrs"] ELSE w
         [] w.state \in {"attrs", "body"} ->
              IF kind = "close" THEN Idle
              ELSE IF kind = "sep" THEN [w EXCEPT !.state = "body"] ELSE w
         [] w.state = "error" -> w

(* walkBlocks: inside of a block only the lines of a block are expected, and    *)
(* a fence is not one of them.                                                *)
walkBlocks(w, kind) ==
  CASE w.state \in {"idle", "fence"} /\ kind \in DOMAIN Fences ->
         LET fence == FenceAfter(w.fence, kind)
         IN [state |-> IF fence = NoFence THEN "idle" ELSE "fence", fence |-> fence]
    [] w.state = "idle" /\ kind = "open" -> [w EXCEPT !.state = "attrs"]
    [] w.state = "attrs" /\ kind = "sep" -> [w EXCEPT !.state = "body"]
    [] w.state \in {"attrs", "body"} /\ kind = "close" -> Idle
    [] \/ w.state \in {"idle", "fence"} /\ kind \notin DOMAIN Fences \cup {"open"}
       \/ w.state = "fence" /\ kind = "open"
       \/ w.state = "attrs" /\ kind = "attr"
       \/ w.state = "body" /\ kind \in {"body", "inBody"}
       \/ w.state = "error" -> w
    [] OTHER -> [w EXCEPT !.state = "error"]

(* A directive that the walk completes: on a line of its own or with its block. *)
Completes(w, kind) ==
  \/ w.state = "idle" /\ kind = "one"
  \/ w.state \in {"attrs", "body"} /\ kind = "close"

(* A line the walk passes on as it is.                                        *)
PassesOn(w, kind) ==
  \/ w.state = "fence"
  \/ w.state = "idle" /\ kind \notin {"open", "one"}

(* FindInlineDirectives, over every line outside of the fences it has tracked, *)
(* lines that stand in a block included.                                      *)
Listed(kind) ==
  scan = NoFence /\ kind \in {"inline", "inBody", "bad"}

(* FindDirectiveMarkers *)
Marked(kind) ==
  marking = NoFence /\ kind \in LineKinds \ (DOMAIN Fences \cup {"text", "spanned"})

(* resolveInlinePass over lines of output: the fence after them, and whether    *)
(* it resolved a directive or refused a name.                                 *)
resolveInlinePass(lines) ==
  LET fence[n \in 0 .. Len(lines)] ==
        IF n = 0 THEN pass ELSE FenceAfter(fence[n - 1], lines[n])
      Outside(n) == fence[n - 1] = NoFence
  IN [fence    |-> fence[Len(lines)],
      resolved |-> \E n \in 1 .. Len(lines) : Outside(n) /\ lines[n] \in {"inline", "inBody"},
      refused  |-> \E n \in 1 .. Len(lines) : Outside(n) /\ lines[n] = "bad"]

Read(kind, answer) ==
  /\ walk.state # "error"
  /\ ~verdict.refused
  /\ walk' = walkBlocks(walk, kind)
  /\ opened' = IF walk.state = "idle" /\ kind = "open" THEN Marked(kind) ELSE opened
  /\ scan' = FenceAfter(scan, kind)
  /\ marking' = FenceAfter(marking, kind)
  /\ LET lines == IF Completes(walk, kind) THEN answer
                  ELSE IF PassesOn(walk, kind) THEN <<kind>> ELSE <<>>
         inline == resolveInlinePass(lines)
     IN /\ pass' = inline.fence
        /\ verdict' = [kind |-> kind, inside |-> walk.state \in {"attrs", "body"},
                       block |-> Completes(walk, kind), listed |-> Listed(kind),
                       marked |-> Marked(kind), resolved |-> inline.resolved,
                       refused |-> inline.refused]

DirectivesInit ==
  /\ walk = Idle /\ opened = FALSE
  /\ scan = NoFence /\ marking = NoFence /\ pass = NoFence
  /\ verdict = Nothing
DirectivesNext ==
  \E kind \in LineKinds, answer \in Answers : Read(kind, answer)

-------------------------------------------------------------------------------

Sound == walk.state # "error" /\ ~verdict.refused

(* The four trackings agree about what is fenced, through blocks, through       *)
(* fences within longer ones and through code that a directive put out: one     *)
(* reader's example is not the next one's directive.                          *)
FencesAgree ==
  Sound => walk.fence = scan /\ scan = marking /\ marking = pass

(* Outside of blocks a directive in a line of prose is listed by                *)
(* ParseDirectives exactly when ResolveDirectives resolves it.                 *)
ListedIsResolved ==
  Sound /\ ~verdict.block /\ ~verdict.inside => (verdict.listed <=> verdict.resolved)

(* What is listed carries a marker: a document without markers resolves to       *)
(* itself (FindDirectiveMarkers is the detection counterpart of ParseDirectives). *)
ListedIsMarked ==
  Sound => /\ verdict.listed => verdict.marked
           /\ verdict.block => IF verdict.kind = "one" THEN verdict.marked ELSE opened

(* The document of the tokenizer, as the fence patterns of this package read   *)
(* it: stripped, ticks and tildes, and the fence after each line of it.       *)
FenceOf == "fence" :> "ticks" @@ "longer" :> "more ticks" @@ "tildes" :> "tildes"
             @@ "indented" :> "ticks"
FencesOfTheDocument ==
  LET after[i \in 0 .. Len(markdown)] ==
        IF i = 0 THEN NoFence
        ELSE IF markdown[i] \in DOMAIN FenceOf THEN FenceAfter(after[i - 1], FenceOf[markdown[i]])
        ELSE after[i - 1]
  IN after

(* The lines that a code token holds, its annotations aside, are those that    *)
(* the directive readers keep as fenced: up to the first line that delimits     *)
(* for one of them only.  Such a line is a fence of tildes or an indented one   *)
(* that they open or close a fence with, a run of ticks shorter than the one    *)
(* it stands in, and a fence that a legacy directive or a group of             *)
(* definitions takes in (Tokenize takes any "```" at the start of a line).    *)
CodeIsFenced ==
  LET fence  == FencesOfTheDocument
      tokens == Tokenize
      Within(i, kinds) == \E n \in 1 .. Len(tokens) : tokens[n].kind \in kinds /\ i \in Covered(tokens[n])
      Note(i)   == markdown[i] = "note" /\ fence[i - 1] = NoFence
      Fenced(i) == markdown[i] \in DOMAIN FenceOf \/ fence[i - 1] # NoFence
      ReadOnce(k) ==
        \/ markdown[k] \in {"tildes", "indented"} /\ fence[k] # fence[k - 1]
        \/ markdown[k] = "fence" /\ fence[k - 1] = Fences["more ticks"]
        \/ markdown[k] \in DOMAIN FenceOf /\ Within(k, {"directive", "definitions"})
  IN \A i \in 1 .. Len(markdown) :
       (\A k \in 1 .. i : ~ReadOnce(k)) => (Within(i, {"code"}) /\ ~Note(i) <=> Fenced(i))

-------------------------------------------------------------------------------
(* Code spans (internal/directives/scanner.go): where one begins and ends, and *)
(* the two ways in which a line is read around them.  Offsets start at 1.      *)

CONSTANTS MaxChars  \* bound on the length of a text

SpanChars == {"tick", "a", "newline"}

VARIABLE text
spanVars == <<text>>

CharAt(i) == IF i <= Len(text) THEN text[i] ELSE "end"

(* The first offset from i on that holds none of the characters.              *)
After(i, chars) ==
  CHOOSE j \in i .. Len(text) + 1 :
    CharAt(j) \notin chars /\ \A k \in i .. j - 1 : CharAt(k) \in chars
TicksEnd(i) == After(i, {"tick"})

(* The runs that close a span: later ones, of the same length, on its line.   *)
Closers(fence, from, limit) ==
  {q \in from .. limit - 1 : CharAt(q) = "tick" /\ CharAt(q - 1) # "tick" /\ TicksEnd(q) - q = fence}

(* FindBacktickSpans: a run that closes nothing is tried again, one shorter.  *)
FindBacktickSpans ==
  LET spans[pos \in 1 .. Len(text) + 1] ==
        IF pos > Len(text) THEN <<>>
        ELSE IF text[pos] # "tick" THEN spans[pos + 1]
        ELSE LET content == TicksEnd(pos)
                 fence   == content - pos
                 closers == Closers(fence, content + 1, After(content, SpanChars \ {"newline"}))
             IN IF closers = {} THEN spans[pos + 1]
                ELSE LET close == CHOOSE q \in closers : \A r \in closers : q <= r
                     IN <<[start |-> pos, end |-> close + fence]>> \o spans[close + fence]
  IN spans[1]

(* MaskBacktickSpans: a placeholder stands for each span.                     *)
Placeholder(n) == <<"span", n>>
MaskBacktickSpans ==
  LET spans == FindBacktickSpans
      from(n) == IF n = 0 THEN 1 ELSE spans[n].end
      upto(n) == IF n = Len(spans) THEN Len(text) ELSE spans[n + 1].start - 1
      masked[n \in 0 .. Len(spans)] ==
        (IF n = 0 THEN <<>> ELSE Append(masked[n - 1], Placeholder(n)))
          \o SubSeq(text, from(n), upto(n))
  IN masked[Len(spans)]

(* UnmaskBacktickSpans *)
UnmaskBacktickSpans(masked) ==
  LET original(n) == LET span == FindBacktickSpans[n] IN SubSeq(text, span.start, span.end - 1)
  IN FlattenSeq([i \in 1 .. Len(masked) |->
       IF masked[i] \in SpanChars THEN <<masked[i]>> ELSE original(masked[i][2])])

(* BlankBacktickSpans *)
BlankBacktickSpans ==
  [i \in 1 .. Len(text) |->
     IF \E n \in 1 .. Len(FindBacktickSpans) :
          FindBacktickSpans[n].start <= i /\ i < FindBacktickSpans[n].end
     THEN "blank" ELSE text[i]]

(* originalOffset: where an offset of the masked line was before masking.     *)
originalOffset(offset) ==
  LET widths[n \in 0 .. Len(FindBacktickSpans)] ==
        IF n = 0 THEN 0
        ELSE widths[n - 1] + FindBacktickSpans[n].end - FindBacktickSpans[n].start - 1
  IN offset + widths[Cardinality({i \in 1 .. offset - 1 : MaskBacktickSpans[i] \notin SpanChars})]

TypeChar(char) ==
  /\ Len(text) < MaxChars
  /\ text' = Append(text, char)

SpansInit == text = <<>>
SpansNext == \E char \in SpanChars : TypeChar(char)

-------------------------------------------------------------------------------

(* The spans are the matches of (`+)(?!`)(.+?)(?<!`)\1(?!`), leftmost first,   *)
(* backtracking included (FindBacktickSpans): here the regular expression.     *)
SpansAreTheMatches ==
  LET Matches(start, end) ==
        \E fence \in 1 .. Len(text) :
          LET content == start + fence
              close   == end - fence
          IN /\ content < close
             /\ \A i \in start .. content - 1 : CharAt(i) = "tick"
             /\ CharAt(content) # "tick"
             /\ \A i \in content .. close - 1 : CharAt(i) # "newline"
             /\ CharAt(close - 1) # "tick"
             /\ \A i \in close .. end - 1 : CharAt(i) = "tick"
             /\ CharAt(end) # "tick"
      found[pos \in 1 .. Len(text) + 1] ==
        LET matches == {m \in (pos .. Len(text)) \X (pos .. Len(text) + 1) : Matches(m[1], m[2])}
        IN IF matches = {} THEN <<>>
           ELSE LET first == CHOOSE m \in matches :
                      \A o \in matches : m[1] < o[1] \/ (m[1] = o[1] /\ m[2] <= o[2])
                IN <<[start |-> first[1], end |-> first[2]]>> \o found[first[2]]
  IN FindBacktickSpans = found[1]

(* A line that is masked, left alone and unmasked is the line that it was, and *)
(* every character outside of the spans is found where it was: the column of   *)
(* an inline directive is a column of the source (FindInlineDirectives).       *)
MaskingIsUndone ==
  LET masked == MaskBacktickSpans
  IN /\ UnmaskBacktickSpans(masked) = text
     /\ \A i \in 1 .. Len(masked) :
          masked[i] \in SpanChars =>
            /\ originalOffset(i) \in DOMAIN text
            /\ text[originalOffset(i)] = masked[i]
            /\ BlankBacktickSpans[originalOffset(i)] = masked[i]

(* The readers of a document agree what of it is code.  The four passes over   *)
(* directives agree on every document; the tokenizer agrees with them up to     *)
(* the first fence that is of tildes, indented, or of fewer ticks than the one   *)
(* it stands in, or that another block takes in; and the code spans are those   *)
(* of the pattern, in the source and in the masked line alike.                 *)
ReadersAgree ==
  /\ TokensCover /\ CodeIsCode /\ CodeIsFenced
  /\ FencesAgree /\ ListedIsResolved /\ ListedIsMarked
  /\ SpansAreTheMatches /\ MaskingIsUndone
===============================================================================
