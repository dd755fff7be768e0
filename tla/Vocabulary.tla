------------------------------ MODULE Vocabulary ------------------------------
(* A project's word lists (internal/vocabulary): the words it accepts, the     *)
(* patterns it rejects and the words pending review, beside the baseline that  *)
(* comes with selfdoc; the commands that edit them one entry at a time; and    *)
(* what the check says of them.                                                *)
EXTENDS Integers, Sequences, FiniteSets, SequencesExt, Functions

CONSTANTS
  Words,       \* the words and patterns, in the order lists are sorted in
  Spellings,   \* [words -> the word as compared]: Fold
  SuffixOf, PrefixOf,  \* pairs <<pattern, word>>: the pattern ends, starts the word
  Baselines,   \* the baselines of successive releases: [accepted, rejected]
  MaxEntries,  \* bound on the entries of a list
  MaxChanges     \* bound on what is written before the findings are settled

Kinds == {"word", "suffix", "prefix"}

VARIABLES
  accepted,   \* the project's entries, in file order: [word, alias]
  rejected,   \* [pattern, kind]
  pending,    \* words
  baseline,   \* the baseline of the selfdoc that runs
  approving,  \* the word an approve has inserted and not yet taken off the review list
  changes,      \* how many writes so far
  settling,   \* the author only follows the findings' remedies now
  writer      \* who took the last step: a command, a person, a release

vocabVars == <<accepted, rejected, pending, baseline, approving, changes, settling, writer>>

WordSet == {Words[i] : i \in DOMAIN Words}
Position(word) == CHOOSE i \in DOMAIN Words : Words[i] = word
Less(a, b) == Position(a) < Position(b)
Same(a, b) == Spellings[a] = Spellings[b]
NoWord == "none"

(* Spellings of an accepted entry; the entries of both layers.                 *)
Forms(entry) == {entry.word} \cup ({entry.alias} \ {NoWord})
AllAccepted == Range(accepted) \cup baseline.accepted
AllRejected == Range(rejected) \cup baseline.rejected

(* Matcher.Covers                                                              *)
Covers(term, spelling) ==
  CASE term.kind = "word"   -> Same(term.pattern, spelling)
    [] term.kind = "suffix" -> <<Spellings[term.pattern], Spellings[spelling]>> \in SuffixOf
    [] term.kind = "prefix" -> <<Spellings[term.pattern], Spellings[spelling]>> \in PrefixOf

-------------------------------------------------------------------------------
(* Load refuses a word both accepted and rejected as the same text, in either  *)
(* layer (refuseConflicts).                                                    *)
Conflicts ==
  {<<entry, term>> \in AllAccepted \X AllRejected :
     term.kind = "word" /\ \E written \in Forms(entry) : Same(term.pattern, written)}
LoadsList == Conflicts = {}

(* CoveredAccepted: an affix that rejects an accepted word.                    *)
Covered ==
  {<<entry, term>> \in AllAccepted \X AllRejected :
     /\ term.kind # "word" /\ \E written \in Forms(entry) : Covers(term, written)
     /\ entry \notin baseline.accepted \/ term \notin baseline.rejected}
Disagreements == Conflicts \cup Covered

(* DuplicateEntries: the places of entries that repeat one above, or one of    *)
(* the baseline.                                                               *)
AcceptedTwice ==
  {i \in DOMAIN accepted : \E written \in Forms(accepted[i]) :
     \/ \E entry \in baseline.accepted : \E other \in Forms(entry) : Same(written, other)
     \/ \E j \in 1 .. i - 1 : \E other \in Forms(accepted[j]) : Same(written, other)}
RejectedTwice ==
  {i \in DOMAIN rejected :
     \/ \E term \in baseline.rejected : Same(term.pattern, rejected[i].pattern)
     \/ \E j \in 1 .. i - 1 : Same(rejected[j].pattern, rejected[i].pattern)}

(* UnsortedEntries                                                             *)
Sorted(keys) == \A i \in 1 .. Len(keys) - 1 : ~Less(keys[i + 1], keys[i])
AcceptedKeys == [i \in DOMAIN accepted |-> accepted[i].word]
RejectedKeys == [i \in DOMAIN rejected |-> rejected[i].pattern]

Clean == Disagreements = {} /\ AcceptedTwice = {} /\ RejectedTwice = {}

-------------------------------------------------------------------------------
Appended(list, keys, entry, key) == Append(list, entry)  \* mutant: after every entry

(* insertEntry: before the first entry it sorts before.                        *)
Inserted(list, keys, entry, key) ==
  LET later == {i \in DOMAIN keys : Less(key, keys[i])}
      place == IF later = {} THEN Len(list) + 1 ELSE CHOOSE i \in later : \A j \in later : i <= j
  IN SubSeq(list, 1, place - 1) \o <<entry>> \o SubSeq(list, place, Len(list))

IsPending(word) == \E i \in DOMAIN pending : Same(pending[i], word)

(* refuseAccepting, turned round *)
MayAccept(word) ==
  /\ \A entry \in AllAccepted : \A written \in Forms(entry) : ~Same(written, word)
  /\ \A term \in AllRejected : ~Covers(term, word)

MayReject(term) ==
  /\ \A other \in AllRejected : ~Same(other.pattern, term.pattern)
  /\ \A entry \in AllAccepted : \A written \in Forms(entry) : ~Covers(term, written)

Command ==
  /\ ~settling /\ approving = NoWord
  /\ changes < MaxChanges /\ changes' = changes + 1 /\ writer' = "command"
  /\ UNCHANGED <<baseline, settling>>

AcceptEntry(word) ==
  accepted' = Inserted(accepted, AcceptedKeys, [word |-> word, alias |-> NoWord], word)

Accept(word) ==
  /\ Command /\ LoadsList /\ ~IsPending(word) /\ MayAccept(word)
  /\ Len(accepted) < MaxEntries /\ AcceptEntry(word)
  /\ UNCHANGED <<rejected, pending, approving>>

Reject(pattern, kind) ==
  LET term == [pattern |-> pattern, kind |-> kind]
  IN /\ Command /\ LoadsList /\ MayReject(term)
     /\ Len(rejected) < MaxEntries
     /\ rejected' = Inserted(rejected, RejectedKeys, term, pattern)
     /\ UNCHANGED <<accepted, pending, approving>>

(* RemoveWord: whatever the lists say, every entry of that word or pattern.    *)
RemovedEntries(word) ==
  /\ accepted' = SelectSeq(accepted, LAMBDA entry : ~Same(entry.word, word))
  /\ rejected' = SelectSeq(rejected, LAMBDA term : ~Same(term.pattern, word))

RemoveWord(word) ==
  /\ Command /\ RemovedEntries(word) /\ <<accepted', rejected'>> # <<accepted, rejected>>
  /\ UNCHANGED <<pending, approving>>

Unlist(word) == SelectSeq(pending, LAMBDA other : ~Same(other, word))

(* Approve writes the terms file, then the review list.                        *)
Approve(word) ==
  /\ Command /\ LoadsList /\ Contains(pending, word) /\ MayAccept(word)
  /\ Len(accepted) < MaxEntries /\ AcceptEntry(word)
  /\ approving' = word /\ UNCHANGED <<rejected, pending>>
TakeOffReview ==
  /\ approving # NoWord /\ approving' = NoWord
  /\ pending' = Unlist(approving) /\ writer' = "command"
  /\ UNCHANGED <<accepted, rejected, baseline, changes, settling>>
StopApproving ==
  /\ approving # NoWord /\ approving' = NoWord /\ writer' = "command"
  /\ UNCHANGED <<accepted, rejected, pending, baseline, changes, settling>>

Drop(word) ==
  /\ Command /\ LoadsList /\ Contains(pending, word) /\ pending' = Unlist(word)
  /\ UNCHANGED <<accepted, rejected, approving>>

-------------------------------------------------------------------------------
(* A person edits the files; a release of selfdoc has another baseline.        *)
ByHand ==
  /\ ~settling /\ approving = NoWord
  /\ changes < MaxChanges /\ changes' = changes + 1 /\ writer' = "person"
  /\ UNCHANGED <<approving, settling>>
WriteAccepted(word, alias) ==
  /\ ByHand /\ Len(accepted) < MaxEntries
  /\ accepted' = Append(accepted, [word |-> word, alias |-> alias])
  /\ UNCHANGED <<rejected, pending, baseline>>
WriteRejected(pattern, kind) ==
  /\ ByHand /\ Len(rejected) < MaxEntries
  /\ rejected' = Append(rejected, [pattern |-> pattern, kind |-> kind])
  /\ UNCHANGED <<accepted, pending, baseline>>
Propose(word) ==
  /\ ByHand /\ ~IsPending(word) /\ Len(pending) < MaxEntries
  /\ pending' = Append(pending, word) /\ UNCHANGED <<accepted, rejected, baseline>>
Release(next) ==
  /\ ~settling /\ baseline # next /\ baseline' = next
  /\ changes < MaxChanges /\ changes' = changes + 1 /\ writer' = "release"
  /\ UNCHANGED <<accepted, rejected, pending, approving, settling>>

(* The author follows the remedy of a finding: the entry the message names is  *)
(* removed.  A conflict names the accepted word, or the pattern when the word  *)
(* is the baseline's; coveredRemedy offers what the project owns.              *)
Targets ==
  IF ~LoadsList
  THEN {IF pair[1] \in Range(accepted) THEN pair[1].word ELSE pair[2].pattern : pair \in Conflicts}
  ELSE {accepted[i].word : i \in AcceptedTwice} \cup {rejected[i].pattern : i \in RejectedTwice}
       \cup {pair[1].word : pair \in {p \in Covered : p[1] \in Range(accepted)}}
       \cup {pair[2].pattern : pair \in {p \in Covered : p[2] \in Range(rejected)}}

Settle == ~settling /\ approving = NoWord /\ settling' = TRUE /\ writer' = "person"
          /\ UNCHANGED <<accepted, rejected, pending, baseline, approving, changes>>
FollowRemedy(word) ==
  /\ settling /\ word \in Targets /\ RemovedEntries(word) /\ writer' = "command"
  /\ UNCHANGED <<pending, baseline, approving, changes, settling>>

VocabInit ==
  /\ accepted = <<>> /\ rejected = <<>> /\ pending = <<>>
  /\ baseline \in Baselines /\ approving = NoWord
  /\ changes = 0 /\ settling = FALSE /\ writer = "person"

VocabNext ==
  \/ \E word \in WordSet :
       \/ Accept(word) \/ RemoveWord(word) \/ Approve(word) \/ Drop(word) \/ Propose(word)
       \/ \E kind \in Kinds : Reject(word, kind) \/ WriteRejected(word, kind)
       \/ \E alias \in WordSet \cup {NoWord} : WriteAccepted(word, alias)
  \/ TakeOffReview \/ StopApproving
  \/ \E next \in Baselines : Release(next)
  \/ Settle \/ \E word \in WordSet : FollowRemedy(word)

VocabFair == WF_vocabVars(\E word \in WordSet : FollowRemedy(word))

-------------------------------------------------------------------------------
(* No editing command brings a disagreement between the lists about, with the   *)
(* baseline or among the project's own entries, aliases included: Accept,       *)
(* Reject and Approve check the new entry against both layers first.           *)
CommandsAddNoDisagreement ==
  [][writer' = "command" /\ baseline' = baseline => Disagreements' \subseteq Disagreements]_vocabVars

(* A list the commands alone edit stays sorted and without repetitions.        *)
CommandsKeepOrder ==
  [][writer' = "command" =>
       /\ Sorted(AcceptedKeys) => Sorted(AcceptedKeys')
       /\ Sorted(RejectedKeys) => Sorted(RejectedKeys')]_vocabVars

(* An approve, stopped half-way or not, takes no word off the review list but   *)
(* its own, and that one only once it is accepted; what follows the remedies    *)
(* takes none.  A word may also be dropped, by a command that approves nothing. *)
ReviewedWordsAreKept ==
  [][\A i \in DOMAIN pending :
       \/ Contains(pending', pending[i])
       \/ approving = pending[i] /\ Contains(AcceptedKeys, pending[i])
       \/ approving = NoWord /\ approving' = NoWord /\ ~settling]_vocabVars

(* Whatever a person wrote and whatever a release brought, following the        *)
(* remedies the messages name ends with lists that load and agree.             *)
RemediesSettle == []<>(settling => Clean)

(* The commands keep the lists of words in order and in agreement, lose no    *)
(* word a person is to decide about, and get out of every refusal.            *)
ListsStaySound ==
  CommandsAddNoDisagreement /\ CommandsKeepOrder /\ ReviewedWordsAreKept /\ RemediesSettle

-------------------------------------------------------------------------------
(* The spelling engine (internal/spelling): what of a line of prose is a word, *)
(* which words a vocabulary accepts, and what is suggested for the others.     *)
(* The line is what the masks leave of it (CodeSpans has the code spans), and  *)
(* a word is the sequence of its characters.                                   *)

CONSTANTS
  Lower,         \* capital letter -> small letter
  Marks,         \* the other characters a line may have: "'", "-", ".", " "
  Odd,           \* those that only identifiers have: digits and punctuation
  Alphabet,      \* the characters of words in the order they sort in
  Vocabularies,  \* the sets of words the engine may be given
  LongestWord,   \* no longer word has suggestions
  MaxSuggestions,  \* at most so many words are suggested
  MaxLetters       \* bound on the characters of a line

VARIABLES
  line,   \* the line as far as it is written
  known   \* the words that are accepted: the list, the renderer's, the project's

spellVars == <<line, known>>

-------------------------------------------------------------------------------
Small == Range(Lower)
Letters == Small \cup DOMAIN Lower
ToLower(word) == [i \in DOMAIN word |-> IF word[i] \in DOMAIN Lower THEN Lower[word[i]] ELSE word[i]]

(* The maximal runs of positions that satisfy a test (chunkRe, wordRe).        *)
RunsOf(In) ==
  {r \in [from : DOMAIN line, to : DOMAIN line] :
     /\ r.from <= r.to
     /\ \A i \in r.from .. r.to : i \in In
     /\ r.from - 1 \notin In /\ r.to + 1 \notin In}
Text(r) == SubSeq(line, r.from, r.to)

Chunks == RunsOf({i \in DOMAIN line : line[i] # " "})

(* machineChunkRe: an identifier, a path, a version, but not English.          *)
IsMachine(chunk) ==
  \E i \in chunk.from .. chunk.to :
    \/ line[i] \in Odd
    \/ /\ line[i] = "." /\ i > chunk.from /\ i < chunk.to
       /\ line[i - 1] \in Letters /\ line[i + 1] \in Letters

(* wordRe: letters, an apostrophe after each of them allowed; a hyphen is not. *)
WordCharacters ==
  {i \in DOMAIN line : line[i] \in Letters \/ (line[i] = "'" /\ i > 1 /\ line[i - 1] \in Letters)}
WordsOnLine == RunsOf(WordCharacters)

-------------------------------------------------------------------------------
isKnown(word) == word \in known \/ ToLower(word) \in known

(* innerCapitalRe: an identifier spelled into prose.                           *)
HasInnerCapital(word) ==
  \/ \E i \in 1 .. Len(word) - 1 : word[i] \in Small /\ word[i + 1] \in DOMAIN Lower
  \/ \E i \in 1 .. Len(word) - 2 : /\ {word[i], word[i + 1]} \subseteq DOMAIN Lower
                                   /\ word[i + 2] \in Small

Possessors(word) ==
  {SubSeq(word, 1, Len(word) - Len(s)) : s \in {t \in {<<"'", "s">>, <<"'">>} :
      Len(t) < Len(word) /\ IsSuffix(t, word)}}

accepts(word) ==
  \/ Len(word) < 2
  \/ HasInnerCapital(word)
  \/ isKnown(word)
  \/ \E base \in Possessors(word) : isKnown(base)

(* IterUnknownWords, CheckText: the words of a line that are reported.         *)
IterUnknownWords ==
  {w \in WordsOnLine : ~accepts(Text(w))
                   /\ \A c \in Chunks : c.from <= w.from /\ w.to <= c.to => ~IsMachine(c)}

Without(word, i) == SubSeq(word, 1, i - 1) \o SubSeq(word, i + 1, Len(word))
With(word, i, letter) == SubSeq(word, 1, i - 1) \o <<letter>> \o SubSeq(word, i, Len(word))
Swapped(word, i) == [word EXCEPT ![i] = word[i + 1], ![i + 1] = word[i]]

OneEdit(word) ==
  {Without(word, i) : i \in DOMAIN word} \cup {Swapped(word, i) : i \in 1 .. Len(word) - 1}
    \cup {[word EXCEPT ![i] = c] : i \in DOMAIN word, c \in Small}
    \cup {With(word, i, c) : i \in 1 .. Len(word) + 1, c \in Small}

(* The order of sort.Strings.                                                  *)
Precedes(u, w) ==
  LET place(c) == CHOOSE k \in DOMAIN Alphabet : Alphabet[k] = c
  IN \E i \in DOMAIN w :
       /\ i - 1 <= Len(u) /\ \A j \in 1 .. i - 1 : u[j] = w[j]
       /\ i > Len(u) \/ place(u[i]) < place(w[i])

(* Of the words that are one edit away the first ones, and none for a word     *)
(* that is very long.                                                          *)
SuggestionsFor(word) ==
  LET hits == (OneEdit(ToLower(word)) \ {ToLower(word)}) \cap known
  IN {hit \in hits : /\ Len(word) <= LongestWord
                     /\ Cardinality({h \in hits : Precedes(h, hit)}) < MaxSuggestions}

-------------------------------------------------------------------------------
SpellInit == line = <<>> /\ known \in Vocabularies
TypeLetter(c) ==
  /\ Len(line) < MaxLetters
  /\ line' = Append(line, c)
  /\ UNCHANGED known
SpellNext == \E c \in Letters \cup Marks \cup Odd : TypeLetter(c)
SpellSpec == SpellInit /\ [][SpellNext]_spellVars

-------------------------------------------------------------------------------
(* The least number of edits by the definition of the distance: a letter more, *)
(* a letter less, one changed, or two neighbours exchanged.                    *)
IsOneEdit(u, w) ==
  \/ Len(u) + 1 = Len(w) /\ \E i \in DOMAIN w : Without(w, i) = u
  \/ Len(w) + 1 = Len(u) /\ \E i \in DOMAIN u : Without(u, i) = w
  \/ Len(u) = Len(w) /\ Cardinality({i \in DOMAIN u : u[i] # w[i]}) = 1
  \/ Len(u) = Len(w) /\ \E i \in 1 .. Len(u) - 1 : u # w /\ Swapped(u, i) = w

(* What is suggested for a reported word is one edit away from it, and every   *)
(* word without an apostrophe that is so is suggested, or as many others as    *)
(* there may be that sort before it -- but for a word that is too long.        *)
SuggestionsAreTheNeighbours ==
  \A r \in IterUnknownWords :
    LET word == ToLower(Text(r))
    IN /\ \A s \in SuggestionsFor(Text(r)) : IsOneEdit(word, s)
       /\ \A s \in known :
            IsOneEdit(word, s) /\ "'" \notin Range(s) /\ Len(word) <= LongestWord =>
              LET earlier == {t \in SuggestionsFor(Text(r)) : Precedes(t, s)}
              IN s \in SuggestionsFor(Text(r)) \/ Cardinality(earlier) = MaxSuggestions

(* A word that is accepted only as a possessive is somebody's: what is left    *)
(* when the apostrophe is taken away, and an "s" behind it, is itself accepted.*)
PossessivesAreOfKnownWords ==
  \A r \in WordsOnLine :
    LET word == Text(r)
    IN Len(word) > 1 /\ accepts(word) /\ ~isKnown(word) /\ ~HasInnerCapital(word) =>
         \E base \in known :
           ToLower(word) \in {base \o <<"'">>, base \o <<"'", "s">>}
             \/ word \in {base \o <<"'">>, base \o <<"'", "s">>}

(* Taking a suggestion settles the finding: the line then has none but the     *)
(* other findings, each with the word it had.  (A word that ends in an         *)
(* apostrophe may be joined to what follows it.)                               *)
Replaced(r, s) == SubSeq(line, 1, r.from - 1) \o s \o SubSeq(line, r.to + 1, Len(line))
Reports(text) ==  \* IterUnknownWords of another line
  LET W == {i \in DOMAIN text : text[i] \in Letters \/ (text[i] = "'" /\ i > 1 /\ text[i - 1] \in Letters)}
      runs(In) == {r \in (DOMAIN text) \X (DOMAIN text) :
                     r[1] <= r[2] /\ (r[1] .. r[2]) \subseteq In
                       /\ r[1] - 1 \notin In /\ r[2] + 1 \notin In}
  IN {SubSeq(text, r[1], r[2]) : r \in {q \in runs(W) : ~accepts(SubSeq(text, q[1], q[2]))}}
SuggestionsSettle ==
  \A r \in {q \in IterUnknownWords : line[q.to] # "'"} :
    \A s \in SuggestionsFor(Text(r)) :
      Reports(Replaced(r, s)) \subseteq {Text(q) : q \in WordsOnLine \ {r}}

(* What is suggested is near, complete and settles the report, and what is    *)
(* accepted as a possessive is of a known word.                               *)
SpellingHelps == SuggestionsAreTheNeighbours /\ PossessivesAreOfKnownWords /\ SuggestionsSettle
===============================================================================
