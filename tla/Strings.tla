------------------------------ MODULE Strings ------------------------------
(***************************************************************************)
(* The loops of core/str.c that cut a string up: split_by_char(s),         *)
(* index_char(s) and count_char, capture_by_char, trim.  Each turn of a    *)
(* loop is a step; the search for the next character is what CharScan      *)
(* shows it to be, or, for a C string, what strchr does.                   *)
(*                                                                         *)
(* A piece of the text is where it begins and where it ends.               *)
(***************************************************************************)
EXTENDS Words

CONSTANTS
  Chars,
  Inputs      \* [text, call]: what is called, [op, ...], with which arguments

ASSUME ConstantsAssumption ==
  /\ Spaces \subseteq Chars
  /\ \A input \in Inputs :
       /\ input.text \in Seq(Chars)
       /\ input.call.op = "capture" => input.call.offset \in Nat

VARIABLES
  text, call,
  at,         \* where what is left of the text begins
  pieces,     \* "splits", "indices"
  balance,
  state       \* "running", "done"
vars == <<text, call, at, pieces, balance, state>>

Size == Len(text)
Piece(from, to) == [from |-> from, to |-> to]
Read(piece) == SubSeq(text, piece.from + 1, piece.to)
Space(n) == text[n + 1] \in Spaces

TypeOK ==
  /\ at \in 0..Size
  /\ pieces \in Seq([from : 0..Size, to : 0..Size])
  /\ \A n \in 1..Len(pieces) : pieces[n].from <= pieces[n].to
  /\ balance \in 0..Size
  /\ state \in {"running", "done"}

Init ==
  /\ \E input \in Inputs : text = input.text /\ call = input.call
  /\ call.op = "capture" => call.offset <= Size
  /\ at = 0 /\ pieces = <<>> /\ balance = 0
  /\ state = "running"

Running(op) == state = "running" /\ call.op = op /\ UNCHANGED <<text, call>>
Ended == state' = "done"

\* Where the characters are in what is left, and -1 where they are not.
NextOf(from, to, chars) ==
  LET here == {n \in from..to - 1 : text[n + 1] \in chars}
  IN  IF here = {} THEN -1 ELSE Min(here)

-----------------------------------------------------------------------------
(* vstr_trim: from the right, but never the first character, then from the *)
(* left.                                                                   *)

TrimRight(piece) ==
  Piece(piece.from, IF piece.to = piece.from THEN piece.to
    ELSE Max({piece.from} \cup {n \in piece.from..piece.to - 1 : ~Space(n)}) + 1)

TrimLeft(piece) ==
  Piece(Min({piece.to} \cup {n \in piece.from..piece.to - 1 : ~Space(n)}), piece.to)

Trim(piece) == TrimLeft(TrimRight(piece))

TrimAll ==
  /\ Running("trim")
  /\ pieces' = <<Trim(Piece(0, Size))>>
  /\ Ended /\ UNCHANGED <<at, balance>>

-----------------------------------------------------------------------------
(* One split of _split_by_char(s).                                         *)

\* Mutant: what is left after the last separator is lost where it is empty.
AddedToTheEnd(piece) ==
  IF piece.from = Size THEN pieces ELSE Append(pieces, piece)

\* _da_append_split
Added(piece) ==
  LET split == IF call.trim THEN Trim(piece) ELSE piece
  IN  IF call.remove_empty /\ split.from = split.to THEN pieces ELSE Append(pieces, split)

Split ==
  /\ Running("split")
  /\ LET index == NextOf(at, Size, call.chars)
     IN  \/ /\ index = -1
            /\ pieces' = Added(Piece(at, Size))
            /\ Ended /\ UNCHANGED at
         \/ /\ index # -1
            /\ pieces' = Added(Piece(at, index))
            /\ at' = index + 1 /\ UNCHANGED state
  /\ UNCHANGED balance

-----------------------------------------------------------------------------
(* One index of _index_by_char(s), which count_char only counts.           *)

Index ==
  /\ Running("index")
  /\ LET index == NextOf(at, Size, call.chars)
     IN  \/ index = -1 /\ Ended /\ UNCHANGED <<at, pieces>>
         \/ /\ index # -1
            /\ pieces' = Append(pieces, Piece(index, index + 1))
            /\ at' = index + 1 /\ UNCHANGED state
  /\ UNCHANGED balance

-----------------------------------------------------------------------------
(* capture_by_char: from an opening character to the closing one that      *)
(* balances it.  pieces[1].from is start_index.                            *)

Opened ==
  /\ Running("capture") /\ pieces = <<>>
  /\ LET index == NextOf(call.offset, Size, {call.inc})
     IN  \/ index = -1 /\ Ended /\ UNCHANGED <<at, pieces, balance>>
         \/ /\ index # -1
            /\ pieces' = <<Piece(index, index)>>
            /\ at' = index + 1 /\ balance' = 1
            /\ UNCHANGED state

\* cstr_first_char_index takes the size of the pointer for the length of the string:
\* what is further is not found.
Reach == IF call.cstr THEN Min({Size, at + PointerSize}) ELSE Size

\* Mutant: a character that opens is passed over.
BalancedFlat ==
  /\ Running("capture") /\ pieces # <<>> /\ balance > 0
  /\ LET index == NextOf(at, Reach, {call.inc, call.dec})
     IN  \/ index = -1 /\ pieces' = <<>> /\ Ended /\ UNCHANGED <<at, balance>>
         \/ /\ index # -1
            /\ at' = index + 1
            /\ balance' = IF text[index + 1] = call.dec THEN balance - 1 ELSE balance
            /\ pieces' = <<Piece(pieces[1].from, at')>>
            /\ IF balance' = 0 THEN Ended ELSE UNCHANGED state

Balanced ==
  /\ Running("capture") /\ pieces # <<>> /\ balance > 0
  /\ LET index == NextOf(at, Reach, {call.inc, call.dec})
     IN  \/ index = -1 /\ pieces' = <<>> /\ Ended /\ UNCHANGED <<at, balance>>
         \/ /\ index # -1
            /\ at' = index + 1
            /\ balance' = IF text[index + 1] = call.dec THEN balance - 1 ELSE balance + 1
            /\ pieces' = <<Piece(pieces[1].from, at')>>
            /\ IF balance' = 0 THEN Ended ELSE UNCHANGED state

Next == Split \/ Index \/ Opened \/ Balanced \/ TrimAll

Spec == Init /\ [][Next]_vars

-----------------------------------------------------------------------------
Done(op) == state = "done" /\ call.op = op
PlacesOf(chars) == {n \in 0..Size - 1 : text[n + 1] \in chars}

\* Nothing is left of the spaces around a text, one of spaces alone included, though
\* trim_right by itself leaves one of those.
TrimsBoth == Done("trim") => Read(pieces[1]) = Trimmed(text)

\* How many of some numbers there are up to n.
Rank(n, numbers) == Cardinality({m \in numbers : m <= n})

\* What is between separators and the ends of the text, by where it begins.
Begins == {0} \cup {n + 1 : n \in PlacesOf(call.chars)}
Between(n) ==
  LET split == SubSeq(text, n + 1, Min({Size} \cup {m \in PlacesOf(call.chars) : m >= n}))
  IN  IF call.trim THEN Trimmed(split) ELSE split
Wanted == {n \in Begins : ~(call.remove_empty /\ Between(n) = <<>>)}

\* The splits are what is between the separators, in order, an empty one before the first,
\* after the last and between two of them included, unless the options have it out.
SplitsAreBetween ==
  Done("split") =>
    /\ Len(pieces) = Cardinality(Wanted)
    /\ \A n \in Wanted : Read(pieces[Rank(n, Wanted)]) = Between(n)

\* Every place of the character is found, once and in order.
IndexesAll ==
  Done("index") =>
    /\ Len(pieces) = Cardinality(PlacesOf(call.chars))
    /\ \A n \in PlacesOf(call.chars) : pieces[Rank(n, PlacesOf(call.chars))] = Piece(n, n + 1)

\* Trimming, splitting and indexing do as those three say.
CutsAsAsked == TrimsBoth /\ SplitsAreBetween /\ IndexesAll

\* A capture runs from the first place that opens to the first that closes as often as
\* was opened; a view that has no such place is the only one nothing is captured in.
Depth(from, to) ==
  1 + Cardinality({n \in from + 1..to - 1 : text[n + 1] = call.inc /\ call.inc # call.dec})
    - Cardinality({n \in from + 1..to - 1 : text[n + 1] = call.dec})
CapturesBalanced ==
  Done("capture") =>
    LET starts == {n \in PlacesOf({call.inc}) : n >= call.offset}
        ends == {n \in Min(starts) + 1..Size : Depth(Min(starts), n) = 0}
    IN  IF pieces # <<>>
        THEN pieces[1].from = Min(starts) /\ pieces[1].to \in ends
             /\ \A n \in ends : n >= pieces[1].to
        ELSE call.cstr \/ starts = {} \/ ends = {}

=============================================================================
