------------------------------ MODULE CharScan ------------------------------
(***************************************************************************)
(* The searches of core/str.c for the first and for the last of some       *)
(* characters in a view: byte by byte to an aligned address, then a        *)
(* machine word at a time while no byte of the word is wanted, then byte   *)
(* by byte again.  vstr_char_index and its _rev search for one character,  *)
(* vstr_first_char_index and its _rev for any of several.                  *)
(*                                                                         *)
(* The test of a word is what it is for; ZeroByte has the bits of it.      *)
(***************************************************************************)
EXTENDS Integers, Sequences

CONSTANTS
  Chars,
  Texts,    \* the views that are searched
  Word      \* sizeof(size_t)

VARIABLES
  text, wanted,   \* the view and the characters
  address,        \* of the view's first byte
  i,
  phase,          \* which loop of the function is running
  found           \* what is returned, when the phase is "done"
vars == <<text, wanted, address, i, phase, found>>

Size == Len(text)
Wanted(n) == text[n + 1] \in wanted
WordHasOne(start) == \E n \in start..start + Word - 1 : Wanted(n)

Forward == {"head", "words", "tail"}
Backward == {"lastHead", "lastWords", "lastTail"}

TypeOK ==
  /\ text \in Texts /\ wanted \subseteq Chars
  /\ address \in 0..Word - 1
  /\ i \in -1..Size
  /\ phase \in Forward \cup Backward \cup {"done"}
  /\ found \in -1..Size - 1

Init ==
  /\ text \in Texts /\ wanted \in SUBSET Chars
  /\ address \in 0..Word - 1
  /\ \/ phase = "head" /\ i = 0
     \/ phase = "lastHead" /\ i = Size - 1
  /\ found = -1

Return(n) ==
  /\ phase' = "done" /\ found' = n
  /\ UNCHANGED i
GoTo(next, n) ==
  /\ phase' = next /\ i' = n
  /\ UNCHANGED found
Search == UNCHANGED <<text, wanted, address>>

-----------------------------------------------------------------------------
(* vstr_char_index, vstr_first_char_index.                                 *)

FirstBytes ==
  /\ phase = "head" /\ Search
  /\ \/ (address + i) % Word = 0 /\ GoTo("words", i)
     \/ /\ (address + i) % Word # 0
        /\ \/ i >= Size /\ Return(-1)
           \/ i < Size /\ Wanted(i) /\ Return(i)
           \/ i < Size /\ ~Wanted(i) /\ GoTo("head", i + 1)

\* Mutant: the word with the character is passed too.
FirstWordsPassed ==
  /\ phase = "words" /\ Search
  /\ \/ i + Word >= Size /\ GoTo("tail", i)
     \/ /\ i + Word < Size
        /\ \/ WordHasOne(i) /\ GoTo("tail", i + Word)
           \/ ~WordHasOne(i) /\ GoTo("words", i + Word)

FirstWords ==
  /\ phase = "words" /\ Search
  /\ \/ i + Word >= Size /\ GoTo("tail", i)
     \/ /\ i + Word < Size
        /\ \/ WordHasOne(i) /\ GoTo("tail", i)
           \/ ~WordHasOne(i) /\ GoTo("words", i + Word)

FirstRest ==
  /\ phase = "tail" /\ Search
  /\ \/ i >= Size /\ Return(-1)
     \/ i < Size /\ Wanted(i) /\ Return(i)
     \/ i < Size /\ ~Wanted(i) /\ GoTo("tail", i + 1)

-----------------------------------------------------------------------------
(* vstr_char_index_rev, vstr_first_char_index_rev.                         *)

\* Mutant: the byte that is just after the words is taken for one of them.
LastBytesInWord ==
  /\ phase = "lastHead" /\ Search
  /\ \/ i < 0 /\ Return(-1)
     \/ i >= 0 /\ Wanted(i) /\ Return(i)
     \/ /\ i >= 0 /\ ~Wanted(i)
        /\ \/ (address + i - 1) % Word # Word - 1 /\ GoTo("lastHead", i - 1)
           \/ (address + i - 1) % Word = Word - 1 /\ GoTo("lastWords", i - 1)

\* The byte is passed before the address is tested, and taken back after.
LastBytes ==
  /\ phase = "lastHead" /\ Search
  /\ \/ i < 0 /\ Return(-1)
     \/ i >= 0 /\ Wanted(i) /\ Return(i)
     \/ /\ i >= 0 /\ ~Wanted(i)
        /\ \/ (address + i - 1) % Word # Word - 1 /\ GoTo("lastHead", i - 1)
           \/ (address + i - 1) % Word = Word - 1 /\ GoTo("lastWords", i)

LastWords ==
  /\ phase = "lastWords" /\ Search
  /\ \/ i < Word /\ GoTo("lastTail", i)
     \/ /\ i >= Word
        /\ \/ WordHasOne(i - Word) /\ GoTo("lastTail", i)
           \/ ~WordHasOne(i - Word) /\ GoTo("lastWords", i - Word)

LastRest ==
  /\ phase = "lastTail" /\ Search
  /\ \/ i < 0 /\ Return(-1)
     \/ i >= 0 /\ Wanted(i) /\ Return(i)
     \/ i >= 0 /\ ~Wanted(i) /\ GoTo("lastTail", i - 1)

Next == FirstBytes \/ FirstWords \/ FirstRest \/ LastBytes \/ LastWords \/ LastRest

Spec == Init /\ [][Next]_vars

-----------------------------------------------------------------------------
IsFirst(n) ==
  \/ n = -1 /\ \A m \in 0..Size - 1 : ~Wanted(m)
  \/ n \in 0..Size - 1 /\ Wanted(n) /\ \A m \in 0..n - 1 : ~Wanted(m)

IsLast(n) ==
  \/ n = -1 /\ \A m \in 0..Size - 1 : ~Wanted(m)
  \/ n \in 0..Size - 1 /\ Wanted(n) /\ \A m \in n + 1..Size - 1 : ~Wanted(m)

\* Every word that is read is inside the view, whatever its address and its length,
\* and is read at an aligned address.
WordsInside ==
  /\ phase = "words" /\ i + Word < Size => (address + i) % Word = 0
  /\ phase = "lastWords" /\ i >= Word => i <= Size /\ (address + i - Word) % Word = 0

\* What is returned is the first of the characters wanted, or the last of them, and -1
\* exactly where there is none: no byte between two loops is passed over.
FindsIt ==
  [][/\ phase \in Forward /\ phase' = "done" => IsFirst(found')
     /\ phase \in Backward /\ phase' = "done" => IsLast(found')]_vars

=============================================================================
