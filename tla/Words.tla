------------------------------- MODULE Words -------------------------------
(***************************************************************************)
(* Texts and the functions of core/str.c that look for words in them:      *)
(* slices, indices of words, splitting, capturing and counting by words,   *)
(* and quoting.  A text is a sequence of characters; what a function       *)
(* returns where it is found is the number of characters before it.        *)
(***************************************************************************)
EXTENDS Integers, Sequences, FiniteSets, FiniteSetsExt, SequencesExt

CONSTANTS
  Spaces,          \* the characters isspace is true of
  PointerSize      \* sizeof(char *), which is what len of a word gives

ASSUME PointerAssumption == PointerSize \in Nat \ {0, 1}

None == -1
Astray == -2       \* goes round for ever, or on into what is behind the text

Least(places) == IF places = {} THEN None ELSE Min(places)
Greatest(places) == IF places = {} THEN None ELSE Max(places)

Offset(s, n) == SubSeq(s, n + 1, Len(s))

\* An end of -1 is that of the text.
Slice(s, from, to) == SubSeq(s, from + 1, IF to = None THEN Len(s) ELSE to)

StartsWith(s, word) == IsPrefix(word, s)

Trimmed(s) ==
  LET kept == {n \in 1..Len(s) : s[n] \notin Spaces}
  IN  IF kept = {} THEN <<>> ELSE SubSeq(s, Min(kept), Max(kept))

FirstCharIndex(s, chars) == Least({n \in 0..Len(s) - 1 : s[n + 1] \in chars})
CharIndex(s, c) == FirstCharIndex(s, {c})

\* strstr
Occurrences(s, word) == {n \in 0..Len(s) - Len(word) : StartsWith(Offset(s, n), word)}
CstrWordIndex(s, word) == Least(Occurrences(s, word))

WordIndexByHead(s, word) == CharIndex(s, word[1])     \* mutant

\* vstr_word_index: where a first character does not begin the word, all of the word's
\* length is passed over.
WordIndex(s, word) ==
  LET from[n \in 0..Len(s) + Len(word)] ==
        LET index == CharIndex(Offset(s, n), word[1])
        IN  IF index = None THEN None
            ELSE IF StartsWith(Offset(s, n + index), word) THEN n + index
            ELSE from[n + index + Len(word)]
  IN  from[0]

FirstWordIndex(s, words) ==
  Least({n \in 0..Len(s) - 1 : \E word \in words : StartsWith(Offset(s, n), word)})

\* From the last of the first characters on, the text is cut so that the same one is
\* found again.  In a view the place is that of the view that is left, which is 0.
WordIndexRev(s, word, view) ==
  LET index == Greatest({n \in 0..Len(s) - 1 : s[n + 1] = word[1]})
  IN  IF index # None /\ ~StartsWith(Offset(s, index), word) THEN Astray
      ELSE IF index # None /\ view THEN 0
      ELSE index

FirstWordIndexRev(s, words) ==
  LET index == Greatest({n \in 0..Len(s) - 1 : \E word \in words : s[n + 1] = word[1]})
  IN  IF index = None \/ \E word \in words : StartsWith(Offset(s, index), word)
      THEN index ELSE Astray

-----------------------------------------------------------------------------
(* What the loops over a whole text do, given the search they are made of. *)

Indices(s, Search(_)) ==
  LET from[n \in 0..Len(s)] ==
        LET index == Search(Offset(s, n))
        IN  IF index = None THEN <<>> ELSE <<n + index>> \o from[n + index + 1]
  IN  from[0]

IndexWord(s, word) == Indices(s, LAMBDA t : WordIndex(t, word))
IndexWords(s, words) == Indices(s, LAMBDA t : FirstWordIndex(t, words))

CountWord(s, word) == Len(IndexWord(s, word))
CstrCountWord(s, word) == Len(Indices(s, LAMBDA t : CstrWordIndex(t, word)))

Kept(split, options) ==
  LET entry == IF options.trim THEN Trimmed(split) ELSE split
  IN  IF options.remove_empty /\ entry = <<>> THEN <<>> ELSE <<entry>>

Splits(s, options, Search(_), skip) ==
  LET from[n \in 0..Len(s) + skip] ==
        LET rest == Offset(s, n)  index == Search(rest)
        IN  Kept(Slice(rest, 0, index), options)
              \o (IF index = None THEN <<>> ELSE from[n + index + skip])
  IN  from[0]

NoOptions == [trim |-> FALSE, remove_empty |-> FALSE]
RemoveEmpty == [trim |-> FALSE, remove_empty |-> TRUE]
SplitByChar(s, c, options) == Splits(s, options, LAMBDA t : CharIndex(t, c), 1)

\* Behind each word it goes on PointerSize characters from where the word begins.
SplitByWord(s, word, options) ==
  Splits(s, options, LAMBDA t : WordIndex(t, word), PointerSize)

\* It goes on only where the text begins with a word of PointerSize characters.
SplitByWords(s, words, options) ==
  LET skips(rest) == \E word \in words : Len(word) = PointerSize /\ StartsWith(rest, word)
      from[n \in 0..Len(s)] ==
        LET rest == Offset(s, n)  index == FirstWordIndex(rest, words)
            split == Kept(Slice(rest, 0, index), options)
        IN  IF index = None THEN [ends |-> TRUE, splits |-> split]
            ELSE IF skips(rest)
            THEN [from[n + PointerSize] EXCEPT !.splits = split \o @]
            ELSE [ends |-> FALSE, splits |-> split]
  IN  from[0]

\* The captured text, or nothing: from the first word that opens to where as many have
\* closed.
CaptureByWord(s, offset, inc, dec, Search(_, _)) ==
  LET data == Offset(s, offset)
      start == Search(data, inc)
      end[n \in 0..Len(data), balance \in 0..Len(data)] ==
        LET index == FirstWordIndex(Offset(data, n), {inc, dec})
        IN  IF balance = 0 THEN n
            ELSE IF index = None THEN None
            ELSE IF StartsWith(Offset(data, n + index), dec)
            THEN end[n + index + Len(dec), balance - 1]
            ELSE end[n + index + Len(inc), balance + 1]
  IN  IF start = None \/ end[start + Len(inc), 1] = None THEN <<>>
      ELSE Slice(data, start, end[start + Len(inc), 1])

CstrCaptureByWord(s, offset, inc, dec) == CaptureByWord(s, offset, inc, dec, CstrWordIndex)
VstrCaptureByWord(s, offset, inc, dec) == CaptureByWord(s, offset, inc, dec, WordIndex)

-----------------------------------------------------------------------------
(* cstr_quote.  It looks for a backslash, a quote, or the NUL, which the   *)
(* array it searches for ends with, in the next PointerSize characters:    *)
(* what has none is left out, and behind a NUL it reads on.                *)

ToEscape == {"\\", "\""}

Quote(s) ==
  LET from[n \in 0..Len(s)] ==
        LET rest == Offset(s, n)  index == FirstCharIndex(rest, ToEscape)
            found == IF index = None THEN Len(rest) ELSE index
        IN  IF found >= PointerSize THEN [ends |-> TRUE, text |-> <<"\"">>]
            ELSE IF found = Len(rest) THEN [ends |-> FALSE, text |-> rest \o <<"\\">>]
            ELSE LET quoted == from[n + found + 1]
                 IN  [quoted EXCEPT !.text = Slice(rest, 0, found) \o <<"\\", rest[found + 1]>> \o @]
  IN  IF FirstCharIndex(s, Spaces \cup {"\""}) = None THEN [ends |-> TRUE, text |-> s]
      ELSE [from[0] EXCEPT !.text = <<"\"">> \o @]

-----------------------------------------------------------------------------
(* What the functions are for.                                             *)

InOrder(places) ==
  SelectSeq([n \in 1..Greatest(places) + 1 |-> n - 1], LAMBDA n : n \in places)

Joined(splits, word) ==
  FlattenSeq([n \in 1..Len(splits) |-> (IF n = 1 THEN <<>> ELSE word) \o splits[n]])

FalseStarts(s, word) ==
  {n \in 0..Len(s) - 1 : s[n + 1] = word[1]} \ Occurrences(s, word)

\* Every place found is one of the word, in order; one that is not found is less than a
\* word behind a place that only begins like it.  In a C string, and by several words, all
\* are found.
IndexesWord(s, word) ==
  LET found == IndexWord(s, word)
  IN  /\ ToSet(found) \subseteq Occurrences(s, word)
      /\ \A n \in 1..Len(found) - 1 : found[n] < found[n + 1]
      /\ \A n \in Occurrences(s, word) \ ToSet(found) :
           \E m \in FalseStarts(s, word) : m < n /\ n < m + Len(word)
      /\ CstrCountWord(s, word) = Cardinality(Occurrences(s, word))
      /\ IndexWords(s, {word}) = InOrder(Occurrences(s, word))

\* Splits joined with the word are the text again, for the words that are as long as
\* a pointer; by several words, wherever the splitting ends.
SplitsByWord(s, word) ==
  /\ Len(word) = PointerSize => Joined(SplitByWord(s, word, NoOptions), word) = s
  /\ LET by == SplitByWords(s, {word}, NoOptions)
     IN  by.ends => Joined(by.splits, word) = s

\* A search of a C string from its end that returns has the last place of the word.
LastOfWord(s, word) ==
  \A index \in {WordIndexRev(s, word, FALSE), FirstWordIndexRev(s, {word})} :
    index # Astray => index = Greatest(Occurrences(s, word))

\* What is captured begins with the first word that opens (in a view, with one of them)
\* and has as many that close as open, no part of it before the end having so.  The
\* words must not overlap.
Balance(s, inc, dec) == Cardinality(Occurrences(s, inc)) - Cardinality(Occurrences(s, dec))
BalancedText(s, inc, dec) ==
  /\ StartsWith(s, inc) /\ IsSuffix(dec, s) /\ Balance(s, inc, dec) = 0
  /\ \A n \in Len(inc)..Len(s) - 1 : Balance(SubSeq(s, 1, n), inc, dec) > 0
CapturesByWord(s, inc, dec) ==
  LET starts == Occurrences(s, inc)
      balanced(n) == {m \in n..Len(s) : BalancedText(SubSeq(s, n + 1, m), inc, dec)}
      first == CstrCaptureByWord(s, 0, inc, dec)
      some == VstrCaptureByWord(s, 0, inc, dec)
  IN  /\ IF starts = {} \/ balanced(Min(starts)) = {} THEN first = <<>>
         ELSE first = SubSeq(s, Min(starts) + 1, Min(balanced(Min(starts))))
      /\ some # <<>> => \E n \in starts : \E m \in balanced(n) : some = SubSeq(s, n + 1, m)

\* A text is quoted only if it has to be; one that has to be is never quoted whole, but
\* loses its end, of PointerSize characters at least.
Escaped(s) ==
  FlattenSeq([n \in 1..Len(s) |-> IF s[n] \in ToEscape THEN <<"\\", s[n]>> ELSE <<s[n]>>])
QuotesStart(s) ==
  IF ToSet(s) \cap (Spaces \cup {"\""}) = {} THEN Quote(s) = [ends |-> TRUE, text |-> s]
  ELSE Quote(s).ends =>
         \E n \in 0..Len(s) - PointerSize :
           Quote(s).text = <<"\"">> \o Escaped(SubSeq(s, 1, n)) \o <<"\"">>

=============================================================================
