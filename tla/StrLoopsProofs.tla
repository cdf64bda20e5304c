--------------------------- MODULE StrLoopsProofs ---------------------------
(***************************************************************************)
(* Proofs about the loops and the console, for any text.                   *)
(*                                                                         *)
(* The searches are right for every view, every set of characters, every   *)
(* size of a word and every address: what has been passed, a byte or a     *)
(* word at a time, has none of the characters in it.  The byte the last    *)
(* words start from has been looked at before, which the loop over the     *)
(* words relies on: it goes on from the first byte of the word it passed.  *)
(* The loops over words start at an aligned address and stay at one.       *)
(*                                                                         *)
(* The console reads lines: a call that goes on is where a line begins,    *)
(* those before it without an answer, or at the end of the input; what     *)
(* scanf reads of several lines at once are blank lines and the next.      *)
(***************************************************************************)
EXTENDS StrLoops, TLAPS, SequenceTheorems, FiniteSetTheorems, WellFoundedInduction

-----------------------------------------------------------------------------
(* The searches.                                                           *)

Passed ==
  /\ phase \in C!Forward => i >= 0 /\ \A m \in 0..i - 1 : ~C!Wanted(m)
  /\ phase \in C!Backward => i < C!Size /\ \A m \in i + 1..C!Size - 1 : ~C!Wanted(m)
  /\ phase = "lastWords" => i >= 0 /\ ~C!Wanted(i)

Aligned == phase \in {"words", "lastWords"} => (address + i) % Word = 0

SearchInv == C!TypeOK /\ Passed /\ Aligned

-----------------------------------------------------------------------------
(* Addresses.                                                              *)

LEMMA Division ==
  ASSUME NEW a \in Int, NEW w \in Nat \ {0}
  PROVE  a = w * (a \div w) + (a % w) /\ (a \div w) \in Int
BY SMT

LEMMA Multiple ==
  ASSUME NEW w \in Nat \ {0}, NEW q \in Int
  PROVE  (w * q) % w = 0
BY SMT

LEMMA NextMultiple == \A w, q \in Int : w * (q + 1) = w * q + w /\ w * (q - 1) = w * q - w
OBVIOUS

\* The address behind the last of a word is aligned.
LEMMA BehindWord ==
  ASSUME NEW a \in Int, NEW w \in Nat \ {0}, a % w = w - 1
  PROVE  (a + 1) % w = 0
<1> DEFINE q == a \div w
<1>1. a = w * q + (w - 1) /\ q \in Int /\ w * q \in Int
  BY Division
<1> HIDE DEF q
<1>2. a + 1 = w * (q + 1) /\ q + 1 \in Int
  BY <1>1, NextMultiple
<1> QED
  BY <1>2, Multiple

\* A word further, either way, is aligned again.
LEMMA WordFurther ==
  ASSUME NEW a \in Int, NEW w \in Nat \ {0}, a % w = 0
  PROVE  (a + w) % w = 0 /\ (a - w) % w = 0
<1> DEFINE q == a \div w
<1>1. a = w * q + 0 /\ q \in Int /\ w * q \in Int
  BY Division
<1> HIDE DEF q
<1>2. a + w = w * (q + 1) /\ a - w = w * (q - 1) /\ q + 1 \in Int /\ q - 1 \in Int
  BY <1>1, NextMultiple
<1> QED
  BY <1>2, Multiple

-----------------------------------------------------------------------------

LEMMA ViewSizes ==
  ASSUME C!TypeOK
  PROVE  /\ C!Size \in Nat /\ i \in -1..C!Size
         /\ Word \in Nat \ {0} /\ address \in Nat
<1>1. view \in Seq(ViewChars)
  BY ViewsAssumption DEF C!TypeOK
<1>2. C!Size \in Nat
  BY <1>1 DEF C!Size
<1> QED
  BY <1>2, ViewsAssumption DEF C!TypeOK

LEMMA InitSearched == C!Init => SearchInv
<1> SUFFICES ASSUME C!Init PROVE SearchInv
  OBVIOUS
<1>1. C!Size \in Nat
  <2>1. view \in Seq(ViewChars)
    BY ViewsAssumption DEF C!Init
  <2> QED
    BY <2>1 DEF C!Size
<1>2. found = -1 /\ ((phase = "head" /\ i = 0) \/ (phase = "lastHead" /\ i = C!Size - 1))
  BY DEF C!Init
<1>3. i \in -1..C!Size /\ found \in -1..C!Size - 1
  BY <1>1, <1>2
<1>4. C!TypeOK
  BY <1>2, <1>3 DEF C!Init, C!TypeOK, C!Forward, C!Backward
<1>5. Passed
  BY <1>1, <1>2 DEF Passed, C!Forward, C!Backward
<1>6. Aligned
  BY <1>2 DEF Aligned
<1> QED
  BY <1>4, <1>5, <1>6 DEF SearchInv

\* A return leaves the types as they are.
LEMMA Returned ==
  ASSUME C!TypeOK, C!Search, NEW n \in -1..C!Size - 1, C!Return(n)
  PROVE  SearchInv'
<1>1. C!Size' = C!Size
  BY DEF C!Search, C!Size
<1>2. C!TypeOK'
  BY <1>1 DEF C!TypeOK, C!Search, C!Return
<1>3. Passed'
  BY DEF C!Return, Passed, C!Forward, C!Backward
<1>4. Aligned'
  BY DEF C!Return, Aligned
<1> QED
  BY <1>2, <1>3, <1>4 DEF SearchInv

\* Going on past what has none of the characters.
LEMMA WentForward ==
  ASSUME C!TypeOK, C!Search, NEW next \in C!Forward, NEW n \in 0..C!Size, C!GoTo(next, n),
         \A m \in 0..n - 1 : ~C!Wanted(m),
         next = "words" => (address + n) % Word = 0
  PROVE  SearchInv'
<1>1. C!Size' = C!Size /\ C!Size \in Nat /\ view' = view /\ wanted' = wanted
  BY ViewSizes DEF C!Search, C!Size
<1>2. n \in -1..C!Size /\ i' = n /\ phase' = next
  BY <1>1 DEF C!GoTo
<1>3. C!TypeOK'
  BY <1>1, <1>2 DEF C!TypeOK, C!Search, C!GoTo
<1>4. \A m : C!Wanted(m)' <=> C!Wanted(m)
  BY <1>1 DEF C!Wanted
<1>5. Passed'
  BY <1>1, <1>2, <1>4 DEF Passed, C!Forward, C!Backward
<1>6. Aligned'
  BY <1>2 DEF Aligned, C!Search, C!Forward, C!Backward
<1> QED
  BY <1>3, <1>5, <1>6 DEF SearchInv

LEMMA WentBackward ==
  ASSUME C!TypeOK, C!Search, NEW next \in C!Backward, NEW n \in -1..C!Size - 1, C!GoTo(next, n),
         \A m \in n + 1..C!Size - 1 : ~C!Wanted(m),
         next = "lastWords" => n >= 0 /\ ~C!Wanted(n) /\ (address + n) % Word = 0
  PROVE  SearchInv'
<1>1. C!Size' = C!Size /\ C!Size \in Nat /\ view' = view /\ wanted' = wanted
  BY ViewSizes DEF C!Search, C!Size
<1>2. n \in -1..C!Size /\ i' = n /\ phase' = next
  BY <1>1 DEF C!GoTo
<1>3. C!TypeOK'
  BY <1>1, <1>2 DEF C!TypeOK, C!Search, C!GoTo
<1>4. \A m : C!Wanted(m)' <=> C!Wanted(m)
  BY <1>1 DEF C!Wanted
<1>5. Passed'
  BY <1>1, <1>2, <1>4 DEF Passed, C!Forward, C!Backward
<1>6. Aligned'
  BY <1>2 DEF Aligned, C!Search, C!Forward, C!Backward
<1> QED
  BY <1>3, <1>5, <1>6 DEF SearchInv

LEMMA FirstBytesKeeps == SearchInv /\ C!FirstBytes => SearchInv'
<1> SUFFICES ASSUME SearchInv, C!FirstBytes PROVE SearchInv'
  OBVIOUS
<1>0. C!TypeOK /\ Passed /\ Aligned /\ C!Size \in Nat /\ i \in -1..C!Size /\ Word \in Nat \ {0}
  BY ViewSizes DEF SearchInv
<1>1. i \in 0..C!Size /\ \A m \in 0..i - 1 : ~C!Wanted(m)
  BY <1>0 DEF C!FirstBytes, Passed, C!Forward, C!TypeOK
<1>2. CASE (address + i) % Word = 0 /\ C!GoTo("words", i)
  BY <1>0, <1>1, <1>2, WentForward DEF C!FirstBytes, C!Forward
<1>3. CASE i >= C!Size /\ C!Return(-1)
  BY <1>0, <1>3, Returned DEF C!FirstBytes
<1>4. CASE i < C!Size /\ C!Return(i)
  BY <1>0, <1>1, <1>4, Returned DEF C!FirstBytes
<1>5. CASE i < C!Size /\ ~C!Wanted(i) /\ C!GoTo("head", i + 1)
  <2>1. \A m \in 0..i + 1 - 1 : ~C!Wanted(m)
    BY <1>0, <1>1, <1>5
  <2> QED
    BY <1>0, <1>1, <1>5, <2>1, WentForward DEF C!FirstBytes, C!Forward
<1> QED
  BY <1>0, <1>2, <1>3, <1>4, <1>5 DEF C!FirstBytes

LEMMA FirstWordsKeeps == SearchInv /\ C!FirstWords => SearchInv'
<1> SUFFICES ASSUME SearchInv, C!FirstWords PROVE SearchInv'
  OBVIOUS
<1>0. C!TypeOK /\ Passed /\ Aligned /\ C!Size \in Nat /\ i \in -1..C!Size /\ Word \in Nat \ {0}
  BY ViewSizes DEF SearchInv
<1>1. i \in 0..C!Size /\ \A m \in 0..i - 1 : ~C!Wanted(m)
  BY <1>0 DEF C!FirstWords, Passed, C!Forward, C!TypeOK
<1>2. CASE C!GoTo("tail", i)
  BY <1>0, <1>1, <1>2, WentForward DEF C!FirstWords, C!Forward
<1>3. CASE i + Word < C!Size /\ ~C!WordHasOne(i) /\ C!GoTo("words", i + Word)
  <2>1. \A m \in 0..i + Word - 1 : ~C!Wanted(m)
    BY <1>0, <1>1, <1>3 DEF C!WordHasOne
  <2>2. (address + (i + Word)) % Word = 0
    <3>1. (address + i) % Word = 0 /\ address + i \in Int
      BY <1>0, ViewSizes DEF C!FirstWords, Aligned
    <3>2. address + (i + Word) = (address + i) + Word
      BY <1>0, ViewSizes
    <3> QED
      BY <1>0, <3>1, <3>2, WordFurther
  <2> QED
    BY <1>0, <1>1, <1>3, <2>1, <2>2, WentForward DEF C!FirstWords, C!Forward
<1> QED
  BY <1>0, <1>2, <1>3 DEF C!FirstWords

LEMMA FirstRestKeeps == SearchInv /\ C!FirstRest => SearchInv'
<1> SUFFICES ASSUME SearchInv, C!FirstRest PROVE SearchInv'
  OBVIOUS
<1>0. C!TypeOK /\ Passed /\ Aligned /\ C!Size \in Nat /\ i \in -1..C!Size /\ Word \in Nat \ {0}
  BY ViewSizes DEF SearchInv
<1>1. i \in 0..C!Size /\ \A m \in 0..i - 1 : ~C!Wanted(m)
  BY <1>0 DEF C!FirstRest, Passed, C!Forward, C!TypeOK
<1>2. CASE C!Return(-1)
  BY <1>0, <1>2, Returned DEF C!FirstRest
<1>3. CASE i < C!Size /\ C!Return(i)
  BY <1>0, <1>1, <1>3, Returned DEF C!FirstRest
<1>4. CASE i < C!Size /\ ~C!Wanted(i) /\ C!GoTo("tail", i + 1)
  <2>1. \A m \in 0..i + 1 - 1 : ~C!Wanted(m)
    BY <1>0, <1>1, <1>4
  <2> QED
    BY <1>0, <1>1, <1>4, <2>1, WentForward DEF C!FirstRest, C!Forward
<1> QED
  BY <1>0, <1>2, <1>3, <1>4 DEF C!FirstRest

LEMMA LastBytesKeeps == SearchInv /\ C!LastBytes => SearchInv'
<1> SUFFICES ASSUME SearchInv, C!LastBytes PROVE SearchInv'
  OBVIOUS
<1>0. C!TypeOK /\ Passed /\ Aligned /\ C!Size \in Nat /\ i \in -1..C!Size /\ Word \in Nat \ {0}
  BY ViewSizes DEF SearchInv
<1>1. i \in -1..C!Size - 1 /\ \A m \in i + 1..C!Size - 1 : ~C!Wanted(m)
  BY <1>0 DEF C!LastBytes, Passed, C!Backward, C!TypeOK
<1>2. CASE C!Return(-1)
  BY <1>0, <1>2, Returned DEF C!LastBytes
<1>3. CASE i >= 0 /\ C!Return(i)
  BY <1>0, <1>1, <1>3, Returned DEF C!LastBytes
<1>4. CASE i >= 0 /\ ~C!Wanted(i) /\ C!GoTo("lastHead", i - 1)
  <2>1. \A m \in i - 1 + 1..C!Size - 1 : ~C!Wanted(m)
    BY <1>0, <1>1, <1>4
  <2> QED
    BY <1>0, <1>1, <1>4, <2>1, WentBackward DEF C!LastBytes, C!Backward
<1>5. CASE /\ i >= 0 /\ ~C!Wanted(i)
           /\ (address + i - 1) % Word = Word - 1 /\ C!GoTo("lastWords", i)
  <2>1. address + i - 1 \in Int /\ address + i = (address + i - 1) + 1
    BY <1>0, ViewSizes
  <2>2. (address + i) % Word = 0
    BY <1>0, <1>5, <2>1, BehindWord
  <2> QED
    BY <1>0, <1>1, <1>5, <2>2, WentBackward DEF C!LastBytes, C!Backward
<1> QED
  BY <1>0, <1>2, <1>3, <1>4, <1>5 DEF C!LastBytes

LEMMA LastWordsKeeps == SearchInv /\ C!LastWords => SearchInv'
<1> SUFFICES ASSUME SearchInv, C!LastWords PROVE SearchInv'
  OBVIOUS
<1>0. C!TypeOK /\ Passed /\ Aligned /\ C!Size \in Nat /\ i \in -1..C!Size /\ Word \in Nat \ {0}
  BY ViewSizes DEF SearchInv
<1>1. i \in -1..C!Size - 1 /\ \A m \in i + 1..C!Size - 1 : ~C!Wanted(m)
  BY <1>0 DEF C!LastWords, Passed, C!Backward, C!TypeOK
<1>4. i >= 0 /\ ~C!Wanted(i)
  BY <1>0 DEF C!LastWords, Passed
<1>2. CASE C!GoTo("lastTail", i)
  BY <1>0, <1>1, <1>2, WentBackward DEF C!LastWords, C!Backward
<1>3. CASE i >= Word /\ ~C!WordHasOne(i - Word) /\ C!GoTo("lastWords", i - Word)
  <2>1. \A m \in i - Word..C!Size - 1 : m <= i - 1 => ~C!Wanted(m)
    BY <1>0, <1>1, <1>3 DEF C!WordHasOne
  <2>2. \A m \in i - Word + 1..C!Size - 1 : ~C!Wanted(m)
    BY <1>0, <1>1, <1>3, <1>4, <2>1
  <2>3. i - Word >= 0 /\ ~C!Wanted(i - Word)
    BY <1>0, <1>3 DEF C!WordHasOne
  <2>4. (address + (i - Word)) % Word = 0
    <3>1. (address + i) % Word = 0 /\ address + i \in Int
      BY <1>0, ViewSizes DEF C!LastWords, Aligned
    <3>2. address + (i - Word) = (address + i) - Word
      BY <1>0, ViewSizes
    <3> QED
      BY <1>0, <3>1, <3>2, WordFurther
  <2> QED
    BY <1>0, <1>1, <1>3, <2>2, <2>3, <2>4, WentBackward DEF C!LastWords, C!Backward
<1> QED
  BY <1>0, <1>2, <1>3 DEF C!LastWords

LEMMA LastRestKeeps == SearchInv /\ C!LastRest => SearchInv'
<1> SUFFICES ASSUME SearchInv, C!LastRest PROVE SearchInv'
  OBVIOUS
<1>0. C!TypeOK /\ Passed /\ Aligned /\ C!Size \in Nat /\ i \in -1..C!Size /\ Word \in Nat \ {0}
  BY ViewSizes DEF SearchInv
<1>1. i \in -1..C!Size - 1 /\ \A m \in i + 1..C!Size - 1 : ~C!Wanted(m)
  BY <1>0 DEF C!LastRest, Passed, C!Backward, C!TypeOK
<1>2. CASE C!Return(-1)
  BY <1>0, <1>2, Returned DEF C!LastRest
<1>3. CASE i >= 0 /\ C!Return(i)
  BY <1>0, <1>1, <1>3, Returned DEF C!LastRest
<1>4. CASE i >= 0 /\ ~C!Wanted(i) /\ C!GoTo("lastTail", i - 1)
  <2>1. \A m \in i - 1 + 1..C!Size - 1 : ~C!Wanted(m)
    BY <1>0, <1>1, <1>4
  <2> QED
    BY <1>0, <1>1, <1>4, <2>1, WentBackward DEF C!LastRest, C!Backward
<1> QED
  BY <1>0, <1>2, <1>3, <1>4 DEF C!LastRest

LEMMA SearchKeeps == SearchInv /\ [C!Next]_C!vars => SearchInv'
<1>1. SearchInv /\ UNCHANGED C!vars => SearchInv'
  BY DEF SearchInv, C!TypeOK, Passed, Aligned, C!Size, C!Wanted, C!vars
<1> QED
  BY <1>1, FirstBytesKeeps, FirstWordsKeeps, FirstRestKeeps,
     LastBytesKeeps, LastWordsKeeps, LastRestKeeps DEF C!Next

LEMMA SearchInvariance == C!Spec => []SearchInv
  BY InitSearched, SearchKeeps, PTL DEF C!Spec

\* The counter stays within the view, and so does what is returned.
THEOREM SearchTypes == C!Spec => []C!TypeOK
<1>1. SearchInv => C!TypeOK
  BY DEF SearchInv
<1> QED
  BY <1>1, SearchInvariance, PTL

\* Every word that is read lies in the view and at an aligned address, for every view,
\* wherever it begins, and every word size.
THEOREM ReadsInside == C!Spec => []WordsInside
<1>1. SearchInv => WordsInside
  <2> SUFFICES ASSUME SearchInv PROVE WordsInside
    OBVIOUS
  <2>1. Aligned /\ C!Size \in Nat /\ i \in -1..C!Size /\ Word \in Nat \ {0} /\ address \in Nat
    BY ViewSizes DEF SearchInv
  <2>2. phase = "words" => (address + i) % Word = 0
    BY <2>1 DEF Aligned
  <2>3. phase = "lastWords" => (address + i - Word) % Word = 0
    <3>1. address + i \in Int
      BY <2>1
    <3>2. (address + i) % Word = 0 => ((address + i) - Word) % Word = 0
      BY <2>1, <3>1, WordFurther
    <3> QED
      BY <2>1, <3>2 DEF Aligned
  <2> QED
    BY <2>1, <2>2, <2>3 DEF WordsInside, C!WordsInside
<1> QED
  BY <1>1, SearchInvariance, PTL

\* What the searches return is the first, or the last, of the characters, or -1 where
\* there is none, for every view and every word size.
THEOREM SearchesFind == C!Spec => FindsIt
<1>1. SearchInv /\ [C!Next]_C!vars =>
        [/\ phase \in C!Forward /\ phase' = "done" => C!IsFirst(found')
         /\ phase \in C!Backward /\ phase' = "done" => C!IsLast(found')]_C!vars
  <2> SUFFICES ASSUME SearchInv, C!Next, phase \in C!Forward \cup C!Backward, phase' = "done"
      PROVE  /\ phase \in C!Forward => C!IsFirst(found')
             /\ phase \in C!Backward => C!IsLast(found')
    BY DEF C!Forward, C!Backward
  <2>0. C!TypeOK /\ Passed /\ C!Size \in Nat /\ i \in -1..C!Size
    BY ViewSizes DEF SearchInv
  <2>1. CASE C!FirstBytes \/ C!FirstRest
    <3>1. /\ phase \in C!Forward /\ phase \notin C!Backward
          /\ \A m \in 0..i - 1 : ~C!Wanted(m)
          /\ i >= 0
      BY <2>0, <2>1 DEF C!FirstBytes, C!FirstRest, C!Forward, C!Backward, Passed
    <3>2. \/ i >= C!Size /\ found' = -1
          \/ i < C!Size /\ C!Wanted(i) /\ found' = i
      BY <2>1 DEF C!FirstBytes, C!FirstRest, C!GoTo, C!Return
    <3> QED
      BY <2>0, <3>1, <3>2 DEF C!IsFirst
  <2>2. CASE C!LastBytes \/ C!LastRest
    <3>1. /\ phase \in C!Backward /\ phase \notin C!Forward
          /\ \A m \in i + 1..C!Size - 1 : ~C!Wanted(m)
      BY <2>0, <2>2 DEF C!LastBytes, C!LastRest, C!Forward, C!Backward, Passed
    <3>2. \/ i < 0 /\ found' = -1
          \/ i >= 0 /\ C!Wanted(i) /\ found' = i
      BY <2>2 DEF C!LastBytes, C!LastRest, C!GoTo, C!Return
    <3> QED
      BY <2>0, <3>1, <3>2 DEF C!IsLast, Passed, C!Backward, C!LastBytes, C!LastRest
  <2>3. CASE C!FirstWords \/ C!LastWords
    BY <2>3 DEF C!FirstWords, C!LastWords, C!GoTo
  <2> QED
    BY <2>1, <2>2, <2>3 DEF C!Next
<1> QED
  BY <1>1, SearchInvariance, PTL DEF C!Spec, FindsIt, C!FindsIt

-----------------------------------------------------------------------------
(* Sets of numbers.                                                        *)

LEMMA MinIsIn ==
  ASSUME NEW S, S # {}, \A m \in S : m \in Nat
  PROVE  Min(S) \in S /\ \A m \in S : Min(S) <= m
<1>1. PICK n \in S : \A m \in S : ~ (<<m, n>> \in OpToRel(<, Nat))
  BY WFMin, NatLessThanWellFounded
<1>2. \A m \in S : ~ (m < n)
  BY <1>1, Zenon DEF OpToRel
<1>3. \A m \in S : n <= m
  BY <1>2
<1> QED
  BY <1>3 DEF Min

\* The largest of some numbers up to n is the one that leaves least to n.
LEMMA MaxIsIn ==
  ASSUME NEW n \in Nat, NEW S, S # {}, \A m \in S : m \in Nat /\ m <= n
  PROVE  Max(S) \in S /\ \A m \in S : m <= Max(S)
<1> DEFINE left == {n - m : m \in S}
<1>1. (\A l \in left : l \in Nat) /\ left # {}
  OBVIOUS
<1> HIDE DEF left
<1>2. Min(left) \in left /\ \A k \in left : Min(left) <= k
  BY <1>1, MinIsIn
<1> USE DEF left
<1>3. PICK x \in S : Min(left) = n - x
  BY <1>2
<1>4. \A m \in S : m <= x
  <2> TAKE m \in S
  <2>1. n - m \in left
    OBVIOUS
  <2>2. n - x <= n - m
    BY <1>2, <1>3, <2>1
  <2>3. m \in Nat /\ x \in Nat
    OBVIOUS
  <2> HIDE DEF left
  <2> QED
    BY <2>2, <2>3
<1>5. \E y \in S : \A m \in S : y >= m
  BY <1>4
<1> QED
  BY <1>5 DEF Max

\* A number is the least, or the greatest, of a set if it is in it and none is less.
LEMMA MinIs ==
  ASSUME NEW S, \A m \in S : m \in Nat, NEW n \in S, \A m \in S : n <= m
  PROVE  Min(S) = n
<1>1. Min(S) \in S /\ \A m \in S : Min(S) <= m
  BY MinIsIn
<1> QED
  BY <1>1

LEMMA MaxIs ==
  ASSUME NEW S, \A m \in S : m \in Nat, NEW n \in S, \A m \in S : m <= n
  PROVE  Max(S) = n
<1>1. Max(S) \in S /\ \A m \in S : m <= Max(S)
  BY MaxIsIn
<1> QED
  BY <1>1

LEMMA OfOne == ASSUME NEW n \in Nat PROVE Min({n}) = n /\ Max({n}) = n
<1>1. n \in {n} /\ \A m \in {n} : m \in Nat /\ n <= m /\ m <= n
  OBVIOUS
<1> QED
  BY <1>1, MinIs, MaxIs

LEMMA NumbersFinite ==
  ASSUME NEW n \in Nat, NEW S, \A m \in S : m \in Nat /\ m <= n
  PROVE  IsFiniteSet(S) /\ Cardinality(S) \in Nat
<1>1. S \in SUBSET (0..n) /\ IsFiniteSet(0..n)
  BY FS_Interval
<1>2. IsFiniteSet(S)
  BY <1>1, FS_Subset
<1> QED
  BY <1>2, FS_CardinalityType

\* Another number, larger than those that are there, comes last and leaves their ranks.
LEMMA RankMore ==
  ASSUME NEW n \in Nat, NEW S, \A m \in S : m \in Nat /\ m < n
  PROVE  LET T == S \cup {n}
         IN  /\ Cardinality(S) \in Nat
             /\ Cardinality(T) = Cardinality(S) + 1
             /\ Rank(n, T) = Cardinality(S) + 1
             /\ \A m \in S : Rank(m, T) = Rank(m, S) /\ Rank(m, S) \in 1..Cardinality(S)
<1> DEFINE T == S \cup {n}
<1>1. IsFiniteSet(S) /\ Cardinality(S) \in Nat
  BY NumbersFinite
<1>2. n \notin S
  OBVIOUS
<1>3. Cardinality(T) = Cardinality(S) + 1
  BY <1>1, <1>2, FS_AddElement
<1>4. {m \in T : m <= n} = T
  OBVIOUS
<1>5. Rank(n, T) = Cardinality(S) + 1
  BY <1>3, <1>4 DEF Rank
<1>6. ASSUME NEW m \in S
      PROVE  Rank(m, T) = Rank(m, S) /\ Rank(m, S) \in 1..Cardinality(S)
  <2> DEFINE below == {k \in S : k <= m}
  <2>1. {k \in T : k <= m} = below
    OBVIOUS
  <2>2. below \in SUBSET S /\ m \in below
    OBVIOUS
  <2> HIDE DEF below
  <2>3. IsFiniteSet(below) /\ Cardinality(below) <= Cardinality(S)
    BY <1>1, <2>2, FS_Subset
  <2>4. Cardinality(below) \in Nat /\ Cardinality(below) # 0
    BY <2>2, <2>3, FS_CardinalityType, FS_EmptySet
  <2>5. Rank(m, T) = Cardinality(below) /\ Rank(m, S) = Cardinality(below)
    BY <2>1 DEF Rank, below
  <2> QED
    BY <1>1, <2>3, <2>4, <2>5
<1> QED
  BY <1>1, <1>3, <1>5, <1>6

-----------------------------------------------------------------------------
(* Pieces of a text.                                                       *)

LEMMA PartOf ==
  ASSUME NEW S, NEW s \in Seq(S), NEW m \in Nat, NEW n \in 0..Len(s), m >= 1
  PROVE  /\ SubSeq(s, m, n) \in Seq(S)
         /\ Len(SubSeq(s, m, n)) = IF m <= n THEN n - m + 1 ELSE 0
         /\ \A k \in 1..n - m + 1 : SubSeq(s, m, n)[k] = s[m + k - 1]
<1>1. \A k \in m..n : s[k] \in S
  OBVIOUS
<1> QED
  BY <1>1, SubSeqProperties

LEMMA PartOfPart ==
  ASSUME NEW S, NEW s \in Seq(S), NEW f \in Nat, NEW t \in 0..Len(s), f <= t,
         NEW m \in Nat, NEW n \in Nat, m >= 1, n <= t - f
  PROVE  SubSeq(SubSeq(s, f + 1, t), m, n) = SubSeq(s, f + m, f + n)
<1> DEFINE cut == SubSeq(s, f + 1, t)
<1>1. cut \in Seq(S) /\ Len(cut) = t - f /\ \A k \in 1..t - f : cut[k] = s[f + k]
  <2>1. /\ cut \in Seq(S)
        /\ Len(cut) = IF f + 1 <= t THEN t - (f + 1) + 1 ELSE 0
        /\ \A k \in 1..t - (f + 1) + 1 : cut[k] = s[f + 1 + k - 1]
    BY PartOf
  <2> HIDE DEF cut
  <2> QED
    BY <2>1
<1> HIDE DEF cut
<1>2. /\ SubSeq(cut, m, n) \in Seq(S)
      /\ Len(SubSeq(cut, m, n)) = IF m <= n THEN n - m + 1 ELSE 0
      /\ \A k \in 1..n - m + 1 : SubSeq(cut, m, n)[k] = cut[m + k - 1]
  BY <1>1, PartOf
<1>3. f + m \in Nat /\ f + m >= 1 /\ f + n \in 0..Len(s)
  OBVIOUS
<1>4. /\ SubSeq(s, f + m, f + n) \in Seq(S)
      /\ Len(SubSeq(s, f + m, f + n)) = IF f + m <= f + n THEN (f + n) - (f + m) + 1 ELSE 0
      /\ \A k \in 1..(f + n) - (f + m) + 1 : SubSeq(s, f + m, f + n)[k] = s[(f + m) + k - 1]
  BY <1>3, PartOf
<1> DEFINE a == SubSeq(cut, m, n)
           b == SubSeq(s, f + m, f + n)
<1>5. Len(a) = Len(b) /\ a \in Seq(S) /\ b \in Seq(S)
  BY <1>2, <1>4
<1>6. \A k \in 1..Len(a) : a[k] = b[k]
  <2> TAKE k \in 1..Len(a)
  <2>1. k \in 1..n - m + 1 /\ m <= n
    BY <1>2
  <2>2. a[k] = cut[m + k - 1] /\ m + k - 1 \in 1..t - f
    BY <1>2, <2>1
  <2>3. cut[m + k - 1] = s[f + (m + k - 1)]
    BY <1>1, <2>2
  <2>4. b[k] = s[(f + m) + k - 1]
    BY <1>4, <2>1
  <2>5. f + (m + k - 1) = (f + m) + k - 1
    BY <2>1
  <2> QED
    BY <2>2, <2>3, <2>4, <2>5
<1> HIDE DEF a, b
<1>7. a = b
  BY <1>5, <1>6
<1> QED
  BY <1>7 DEF a, b, cut

LEMMA NoPart ==
  ASSUME NEW S, NEW s \in Seq(S), NEW m \in Nat, NEW n \in 0..Len(s), m >= 1
  PROVE  SubSeq(s, m, n) = <<>> <=> m > n
<1>1. SubSeq(s, m, n) \in Seq(S) /\ Len(SubSeq(s, m, n)) = IF m <= n THEN n - m + 1 ELSE 0
  BY PartOf
<1> QED
  BY <1>1

LEMMA TrimLeftIs ==
  ASSUME NEW f, NEW t
  PROVE  TrimLeft(Piece(f, t)) = Piece(Min({t} \cup {n \in f..t - 1 : ~Space(n)}), t)
BY DEF TrimLeft, Piece

LEMMA TrimRightIs ==
  ASSUME NEW f, NEW t
  PROVE  TrimRight(Piece(f, t)) =
           Piece(f, IF t = f THEN t ELSE Max({f} \cup {n \in f..t - 1 : ~Space(n)}) + 1)
BY DEF TrimRight, Piece

\* A piece read and trimmed is the piece trimmed and read, and trimming keeps it within
\* itself.
LEMMA TrimIs ==
  ASSUME text \in Seq(Chars), NEW f \in Nat, NEW t \in 0..Size, f <= t
  PROVE  /\ Read(Trim(Piece(f, t))) = Trimmed(Read(Piece(f, t)))
         /\ Trim(Piece(f, t)) \in [from : f..t, to : f..t]
         /\ Trim(Piece(f, t)).from <= Trim(Piece(f, t)).to
<1>1. Size \in Nat /\ t \in Nat
  BY DEF Size
<1> DEFINE whole == Piece(f, t)
           s == Read(whole)
           there == {n \in f..t - 1 : ~Space(n)}
           kept == {k \in 1..Len(s) : s[k] \notin Spaces}
<1>2. whole.from = f /\ whole.to = t /\ s = SubSeq(text, f + 1, t)
  BY DEF Piece, Read
<1>3. Len(s) = t - f /\ \A k \in 1..t - f : s[k] = text[f + k]
  <2>1. /\ SubSeq(text, f + 1, t) \in Seq(Chars)
        /\ Len(SubSeq(text, f + 1, t)) = IF f + 1 <= t THEN t - (f + 1) + 1 ELSE 0
        /\ \A k \in 1..t - (f + 1) + 1 : SubSeq(text, f + 1, t)[k] = text[f + 1 + k - 1]
    BY <1>1, PartOf DEF Size
  <2> HIDE DEF s
  <2> QED
    BY <1>1, <1>2, <2>1
<1> HIDE DEF s
<1>4. \A n \in there : n - f + 1 \in kept
  <2> TAKE n \in there
  <2>1. n \in f..t - 1 /\ text[n + 1] \notin Spaces
    BY DEF Space
  <2>2. n - f + 1 \in 1..t - f /\ f + (n - f + 1) = n + 1
    BY <1>1, <2>1
  <2> QED
    BY <1>3, <2>1, <2>2
<1>5. \A k \in kept : f + k - 1 \in there
  <2> TAKE k \in kept
  <2>1. k \in 1..t - f /\ text[f + k] \notin Spaces
    BY <1>3
  <2>2. f + k - 1 \in f..t - 1 /\ (f + k - 1) + 1 = f + k
    BY <1>1, <2>1
  <2> QED
    BY <2>1, <2>2 DEF Space
<1>6. (\A n \in there : n \in Nat /\ n >= f /\ n < t) /\ (\A k \in kept : k \in Nat /\ k >= 1 /\ k <= t - f)
  BY <1>1, <1>3
<1> HIDE DEF there, kept
<1>7. CASE f = t
  <2>1. TrimRight(whole) = Piece(f, t)
    BY <1>7, TrimRightIs
  <2>2. {n \in f..t - 1 : ~Space(n)} = {}
    BY <1>1, <1>7
  <2>3. {t} \cup {n \in f..t - 1 : ~Space(n)} = {t} /\ Min({t}) = t
    BY <1>1, <2>2, OfOne
  <2>4. Trim(whole) = Piece(t, t)
    BY <2>1, <2>3, TrimLeftIs DEF Trim
  <2>5. s = <<>> /\ kept = {}
    <3>1. s = SubSeq(text, f + 1, t) /\ f + 1 > t
      BY <1>1, <1>2, <1>7
    <3> QED
      BY <1>1, <1>6, <1>7, <3>1, NoPart DEF Size
  <2>6. Trimmed(s) = <<>>
    BY <2>5 DEF Trimmed, kept
  <2>7. Read(Piece(t, t)) = <<>>
    BY <1>2, <1>7, <2>5 DEF Read, Piece
  <2> QED
    BY <1>1, <1>7, <2>4, <2>6, <2>7 DEF s, Piece
<1>8. CASE f < t /\ there = {}
  <2>1. TrimRight(whole) = Piece(f, f + 1)
    <3>1. {f} \cup {n \in f..t - 1 : ~Space(n)} = {f} /\ Max({f}) = f
      BY <1>8, OfOne DEF there
    <3>2. t # f
      BY <1>8
    <3> QED
      BY <3>1, <3>2, TrimRightIs
  <2>2. {n \in f..f + 1 - 1 : ~Space(n)} = {}
    <3>1. f..f + 1 - 1 \subseteq f..t - 1
      BY <1>1, <1>8
    <3> QED
      BY <1>8, <3>1 DEF there
  <2>3. {f + 1} \cup {n \in f..f + 1 - 1 : ~Space(n)} = {f + 1} /\ Min({f + 1}) = f + 1
    BY <2>2, OfOne
  <2>4. Trim(whole) = Piece(f + 1, f + 1)
    BY <2>1, <2>3, TrimLeftIs DEF Trim
  <2>5. kept = {}
    BY <1>5, <1>8
  <2>6. Trimmed(s) = <<>>
    BY <2>5 DEF Trimmed, kept
  <2>7. Read(Piece(f + 1, f + 1)) = <<>>
    <3>1. f + 1 \in 0..Len(text) /\ f + 1 + 1 > f + 1 /\ f + 1 + 1 \in Nat
      BY <1>1, <1>8 DEF Size
    <3>2. SubSeq(text, f + 1 + 1, f + 1) = <<>>
      BY <3>1, NoPart
    <3> QED
      BY <3>2 DEF Read, Piece
  <2> QED
    BY <1>1, <1>8, <2>4, <2>6, <2>7 DEF s, Piece
<1>9. CASE f < t /\ there # {}
  <2> DEFINE a == Min(there)
             b == Max(there)
  <2>1. a \in there /\ (\A n \in there : a <= n) /\ b \in there /\ (\A n \in there : n <= b)
    <3>1. a \in there /\ \A n \in there : a <= n
      BY <1>6, <1>9, MinIsIn
    <3>2. \A n \in there : n \in Nat /\ n <= t
      BY <1>1, <1>6
    <3>3. b \in there /\ \A n \in there : n <= b
      BY <1>1, <1>9, <3>2, MaxIsIn
    <3> QED
      BY <3>1, <3>3
  <2>2. a \in Nat /\ b \in Nat /\ f <= a /\ a <= b /\ b < t
    BY <1>1, <1>6, <2>1
  <2> HIDE DEF a, b
  <2> DEFINE c == b + 1
  <2> HIDE DEF c
  <2>3. TrimRight(whole) = Piece(f, c)
    <3>1. Max({f} \cup there) = b
      <4>1. \A n \in {f} \cup there : n \in Nat /\ n <= b
        BY <1>6, <2>1, <2>2
      <4>2. b \in {f} \cup there
        BY <2>1
      <4> QED
        BY <4>1, <4>2, MaxIs
    <3> QED
      BY <1>9, <3>1, TrimRightIs DEF there, c
  <2>4. Min({c} \cup {n \in f..c - 1 : ~Space(n)}) = a
    <3> DEFINE left == {n \in f..c - 1 : ~Space(n)}
    <3>0. c \in Nat /\ a <= c /\ c <= t /\ a \in f..c - 1
      BY <1>1, <2>2 DEF c
    <3>1. left \subseteq there
      BY <1>1, <3>0 DEF there
    <3>2. a \in left
      BY <2>1, <3>0 DEF there
    <3> HIDE DEF left
    <3>3. \A n \in {c} \cup left : n \in Nat /\ a <= n
      BY <1>6, <2>1, <2>2, <3>0, <3>1
    <3> QED
      BY <3>2, <3>3, MinIs DEF left
  <2>5. Trim(whole) = Piece(a, b + 1)
    <3>1. TrimLeft(Piece(f, c)) = Piece(Min({c} \cup {n \in f..c - 1 : ~Space(n)}), c)
      BY TrimLeftIs
    <3>2. Trim(whole) = TrimLeft(Piece(f, c))
      BY <2>3 DEF Trim
    <3>3. Trim(whole) = Piece(a, c)
      BY <2>4, <3>1, <3>2
    <3> QED
      BY <3>3 DEF c
  <2>6. Min(kept) = a - f + 1
    <3>1. a - f + 1 \in kept
      BY <1>4, <2>1
    <3>2. \A k \in kept : k \in Nat /\ a - f + 1 <= k
      <4> TAKE k \in kept
      <4>1. f + k - 1 \in there
        BY <1>5
      <4>2. a <= f + k - 1 /\ k \in Nat
        BY <1>6, <2>1, <4>1
      <4> QED
        BY <2>2, <4>2
    <3> QED
      BY <3>1, <3>2, MinIs
  <2>7. Max(kept) = b - f + 1
    <3>1. b - f + 1 \in kept
      BY <1>4, <2>1
    <3>2. \A k \in kept : k \in Nat /\ k <= b - f + 1
      <4> TAKE k \in kept
      <4>1. f + k - 1 \in there
        BY <1>5
      <4>2. f + k - 1 <= b /\ k \in Nat
        BY <1>6, <2>1, <4>1
      <4> QED
        BY <2>2, <4>2
    <3> QED
      BY <3>1, <3>2, MaxIs
  <2>8. Trimmed(s) = SubSeq(s, a - f + 1, b - f + 1)
    <3>1. kept # {}
      BY <1>4, <2>1
    <3> QED
      BY <2>6, <2>7, <3>1 DEF Trimmed, kept
  <2>9. SubSeq(s, a - f + 1, b - f + 1) = SubSeq(text, a + 1, b + 1)
    <3>1. /\ a - f + 1 \in Nat /\ b - f + 1 \in Nat /\ a - f + 1 >= 1 /\ b - f + 1 <= t - f
          /\ f + (a - f + 1) = a + 1 /\ f + (b - f + 1) = b + 1
      BY <1>1, <2>2
    <3>2. SubSeq(SubSeq(text, f + 1, t), a - f + 1, b - f + 1)
            = SubSeq(text, f + (a - f + 1), f + (b - f + 1))
      <4> DEFINE m == a - f + 1
                 n == b - f + 1
      <4>1. m \in Nat /\ n \in Nat /\ m >= 1 /\ n <= t - f /\ t \in 0..Len(text)
        BY <3>1 DEF Size
      <4> HIDE DEF m, n
      <4>2. SubSeq(SubSeq(text, f + 1, t), m, n) = SubSeq(text, f + m, f + n)
        BY <4>1, PartOfPart
      <4> QED
        BY <4>2 DEF m, n
    <3> QED
      BY <1>2, <3>1, <3>2
  <2>10. Read(Piece(a, b + 1)) = SubSeq(text, a + 1, b + 1)
    BY DEF Read, Piece
  <2>11. Piece(a, b + 1) \in [from : f..t, to : f..t] /\ a <= b + 1
    BY <1>1, <2>2 DEF Piece
  <2>12. Piece(a, b + 1).from = a /\ Piece(a, b + 1).to = b + 1
    BY DEF Piece
  <2>13. Read(Trim(whole)) = Trimmed(s)
    BY <2>5, <2>8, <2>9, <2>10
  <2> HIDE DEF whole
  <2>14. Trim(whole) \in [from : f..t, to : f..t] /\ Trim(whole).from <= Trim(whole).to
    BY <2>5, <2>11, <2>12
  <2> QED
    BY <2>13, <2>14 DEF s, whole
<1> QED
  BY <1>7, <1>8, <1>9

LEMMA NextIs ==
  ASSUME NEW from \in Nat, NEW to \in Nat, NEW chars
  PROVE  LET n == NextOf(from, to, chars)
         IN  \/ n = -1 /\ \A m \in from..to - 1 : text[m + 1] \notin chars
             \/ /\ n \in from..to - 1 /\ text[n + 1] \in chars
                /\ \A m \in from..n - 1 : text[m + 1] \notin chars
<1> DEFINE here == {n \in from..to - 1 : text[n + 1] \in chars}
<1>1. \A n \in here : n \in Nat
  OBVIOUS
<1>2. CASE here = {}
  BY <1>2 DEF NextOf
<1>3. CASE here # {}
  <2> HIDE DEF here
  <2>1. Min(here) \in here /\ \A m \in here : Min(here) <= m
    BY <1>1, <1>3, MinIsIn
  <2>2. NextOf(from, to, chars) = Min(here)
    BY <1>3 DEF NextOf, here
  <2> USE DEF here
  <2> DEFINE n == Min(here)
  <2>3. n \in from..to - 1 /\ text[n + 1] \in chars
    BY <2>1
  <2>4. ASSUME NEW m \in from..n - 1 PROVE text[m + 1] \notin chars
    <3>1. m \in from..to - 1 /\ ~(n <= m)
      BY <2>3
    <3>2. m \notin here
      BY <2>1, <3>1
    <3> QED
      BY <3>1, <3>2
  <2> HIDE DEF here
  <2> QED
    BY <2>2, <2>3, <2>4
<1> QED
  BY <1>2, <1>3

-----------------------------------------------------------------------------
(* Splitting: what has been cut off is what begins before what is left.    *)

WellFormed ==
  /\ text \in Seq(Chars)
  /\ call.op = "capture" => call.offset \in 0..Size
  /\ TypeOK

WantedTo(n) == {m \in Wanted : m < n}

SplitUpTo(list, n) ==
  /\ Len(list) = Cardinality(WantedTo(n))
  /\ \A m \in WantedTo(n) : Read(list[Rank(m, WantedTo(n))]) = Between(m)

PieceList(list) ==
  /\ list \in Seq([from : 0..Size, to : 0..Size])
  /\ \A n \in 1..Len(list) : list[n].from <= list[n].to

LEMMA SizeIs == WellFormed => Size \in Nat /\ at \in 0..Size /\ PieceList(pieces)
BY DEF WellFormed, TypeOK, Size, PieceList

LEMMA BeginsNat == WellFormed => \A n \in Wanted : n \in Nat /\ n <= Size
<1> SUFFICES ASSUME WellFormed PROVE \A n \in Begins : n \in Nat /\ n <= Size
  BY DEF Wanted
<1>1. Size \in Nat
  BY SizeIs
<1> QED
  BY <1>1 DEF Begins, PlacesOf

LEMMA ListMore ==
  ASSUME WellFormed, NEW p \in [from : 0..Size, to : 0..Size], p.from <= p.to
  PROVE  /\ PieceList(Append(pieces, p))
         /\ Len(Append(pieces, p)) = Len(pieces) + 1 /\ Len(pieces) \in Nat
         /\ Append(pieces, p)[Len(pieces) + 1] = p
         /\ \A n \in 1..Len(pieces) : Append(pieces, p)[n] = pieces[n]
<1> DEFINE S == [from : 0..Size, to : 0..Size]
           more == Append(pieces, p)
           l == Len(pieces)
<1>1. pieces \in Seq(S) /\ p \in S /\ \A n \in 1..l : pieces[n].from <= pieces[n].to
  BY SizeIs DEF PieceList
<1> HIDE DEF S
<1>2. more \in Seq(S) /\ Len(more) = l + 1 /\ l \in Nat /\ more[l + 1] = p
      /\ \A n \in 1..l : more[n] = pieces[n]
  BY <1>1
<1> HIDE DEF more, l
<1>3. ASSUME NEW n \in 1..l + 1 PROVE more[n].from <= more[n].to
  <2>1. CASE n = l + 1
    BY <1>2, <2>1
  <2>2. CASE n # l + 1
    <3>1. n \in 1..l
      BY <1>2, <2>2
    <3> QED
      BY <1>1, <1>2, <3>1
  <2> QED
    BY <2>1, <2>2
<1> QED
  BY <1>2, <1>3 DEF PieceList, S, more, l

\* What is cut off, trimmed if asked for.
Cut(piece) == IF call.trim THEN Trim(piece) ELSE piece

LEMMA CutIs ==
  ASSUME WellFormed, NEW f \in Nat, NEW t \in 0..Size, f <= t
  PROVE  LET p == Cut(Piece(f, t))
         IN  /\ Read(p) = IF call.trim THEN Trimmed(SubSeq(text, f + 1, t)) ELSE SubSeq(text, f + 1, t)
             /\ p \in [from : 0..Size, to : 0..Size] /\ p.from <= p.to
             /\ p.from = p.to <=> Read(p) = <<>>
<1> DEFINE p == Cut(Piece(f, t))
<1>1. Size \in Nat /\ t \in Nat /\ t <= Size /\ text \in Seq(Chars)
  BY SizeIs DEF WellFormed
<1>2. Read(Piece(f, t)) = SubSeq(text, f + 1, t)
  BY DEF Read, Piece
<1>3. /\ Read(p) = IF call.trim THEN Trimmed(SubSeq(text, f + 1, t)) ELSE SubSeq(text, f + 1, t)
      /\ p \in [from : f..t, to : f..t] /\ p.from <= p.to
  <2>1. CASE call.trim
    <3>1. p = Trim(Piece(f, t))
      BY <2>1 DEF Cut
    <3>2. /\ Read(Trim(Piece(f, t))) = Trimmed(Read(Piece(f, t)))
          /\ Trim(Piece(f, t)) \in [from : f..t, to : f..t]
          /\ Trim(Piece(f, t)).from <= Trim(Piece(f, t)).to
      BY <1>1, TrimIs
    <3> HIDE DEF p
    <3> QED
      BY <1>2, <2>1, <3>1, <3>2
  <2>2. CASE ~call.trim
    <3>1. p = Piece(f, t)
      BY <2>2 DEF Cut
    <3>2. Piece(f, t) \in [from : f..t, to : f..t] /\ Piece(f, t).from <= Piece(f, t).to
      BY <1>1 DEF Piece
    <3> HIDE DEF p
    <3> QED
      BY <1>2, <2>2, <3>1, <3>2
  <2> QED
    BY <2>1, <2>2
<1> HIDE DEF p
<1>4. p.from \in Nat /\ p.to \in 0..Size /\ p \in [from : 0..Size, to : 0..Size]
  BY <1>1, <1>3
<1>5. p.from = p.to <=> Read(p) = <<>>
  <2>1. p.from + 1 \in Nat /\ p.from + 1 >= 1 /\ p.to \in 0..Len(text)
    BY <1>4 DEF Size
  <2>2. SubSeq(text, p.from + 1, p.to) = <<>> <=> p.from + 1 > p.to
    BY <1>1, <2>1, NoPart
  <2> QED
    BY <1>1, <1>3, <1>4, <2>2 DEF Read
<1> QED
  BY <1>3, <1>4, <1>5 DEF p

\* One more is cut off, up to a separator or the end of the text.
LEMMA SplitMore ==
  ASSUME WellFormed, at \in Begins, SplitUpTo(pieces, at),
         NEW e \in at..Size, NEW u \in Nat, at < u,
         \A n \in Begins : n < u => n <= at,
         SubSeq(text, at + 1, Min({Size} \cup {m \in PlacesOf(call.chars) : m >= at})) = SubSeq(text, at + 1, e)
  PROVE  PieceList(Added(Piece(at, e))) /\ SplitUpTo(Added(Piece(at, e)), u)
<1> DEFINE p == Cut(Piece(at, e))
           S == WantedTo(at)
<1>1. Size \in Nat /\ at \in Nat /\ e \in 0..Size /\ at <= e
  BY SizeIs
<1>2. /\ Read(p) = Between(at)
      /\ p \in [from : 0..Size, to : 0..Size] /\ p.from <= p.to
      /\ p.from = p.to <=> Read(p) = <<>>
  <2>1. /\ Read(p) = IF call.trim THEN Trimmed(SubSeq(text, at + 1, e)) ELSE SubSeq(text, at + 1, e)
        /\ p \in [from : 0..Size, to : 0..Size] /\ p.from <= p.to
        /\ p.from = p.to <=> Read(p) = <<>>
    BY <1>1, CutIs
  <2> HIDE DEF p
  <2> QED
    BY <2>1 DEF Between
<1>3. Added(Piece(at, e)) = IF call.remove_empty /\ p.from = p.to THEN pieces ELSE Append(pieces, p)
  BY DEF Added, Cut
<1> HIDE DEF p
<1>4. \A m \in Wanted : m \in Nat /\ m \in Begins /\ (m < u <=> m <= at)
  BY <1>1, BeginsNat DEF Wanted
<1>5. CASE call.remove_empty /\ p.from = p.to
  <2>1. at \notin Wanted
    BY <1>2, <1>5 DEF Wanted
  <2>2. WantedTo(u) = S
    BY <1>1, <1>4, <2>1 DEF WantedTo
  <2> HIDE DEF S
  <2> QED
    BY <1>3, <1>5, <2>2, SizeIs DEF SplitUpTo, S
<1>6. CASE ~(call.remove_empty /\ p.from = p.to)
  <2>1. at \in Wanted
    BY <1>2, <1>6 DEF Wanted
  <2>2. WantedTo(u) = S \cup {at}
    <3>1. \A m \in Wanted : m < u <=> m < at \/ m = at
      BY <1>1, <1>4
    <3> QED
      BY <2>1, <3>1 DEF WantedTo
  <2>3. \A m \in S : m \in Nat /\ m < at
    BY <1>4 DEF WantedTo
  <2>4. /\ Len(pieces) = Cardinality(S)
        /\ \A m \in S : Read(pieces[Rank(m, S)]) = Between(m)
    BY DEF SplitUpTo
  <2> HIDE DEF S
  <2>5. /\ Cardinality(S) \in Nat
        /\ Cardinality(S \cup {at}) = Cardinality(S) + 1
        /\ Rank(at, S \cup {at}) = Cardinality(S) + 1
        /\ \A m \in S : Rank(m, S \cup {at}) = Rank(m, S) /\ Rank(m, S) \in 1..Cardinality(S)
    BY <1>1, <2>3, RankMore
  <2> DEFINE more == Append(pieces, p)
  <2>6. /\ PieceList(more) /\ Len(more) = Len(pieces) + 1
        /\ more[Len(pieces) + 1] = p
        /\ \A n \in 1..Len(pieces) : more[n] = pieces[n]
    BY <1>2, ListMore
  <2> HIDE DEF more
  <2>7. \A m \in S \cup {at} : Read(more[Rank(m, S \cup {at})]) = Between(m)
    <3> TAKE m \in S \cup {at}
    <3>1. CASE m \in S
      <4>1. more[Rank(m, S \cup {at})] = pieces[Rank(m, S)]
        BY <2>4, <2>5, <2>6, <3>1
      <4> QED
        BY <2>4, <3>1, <4>1
    <3>2. CASE m = at
      <4>1. more[Rank(at, S \cup {at})] = p
        BY <2>4, <2>5, <2>6
      <4> QED
        BY <1>2, <3>2, <4>1
    <3> QED
      BY <3>1, <3>2
  <2>8. Added(Piece(at, e)) = more
    BY <1>3, <1>6 DEF more
  <2> QED
    BY <2>2, <2>4, <2>5, <2>6, <2>7, <2>8 DEF SplitUpTo
<1> QED
  BY <1>5, <1>6

LEMMA BeginsOf ==
  ASSUME WellFormed, NEW n, n \in PlacesOf(call.chars)
  PROVE  n + 1 \in Begins /\ n \in Nat /\ n < Size
BY SizeIs DEF Begins, PlacesOf

LEMMA NoOtherBegins ==
  ASSUME WellFormed, NEW e \in Nat, \A m \in at..e - 1 : m \notin PlacesOf(call.chars)
  PROVE  \A n \in Begins : n <= e => n <= at
<1> SUFFICES ASSUME NEW n \in Begins, n <= e, ~(n <= at) PROVE FALSE
  OBVIOUS
<1>1. n # 0 /\ at \in Nat
  <2>1. at \in Nat /\ ~(0 > at)
    BY SizeIs
  <2> QED
    BY <2>1
<1>2. PICK m \in PlacesOf(call.chars) : n = m + 1
  BY <1>1 DEF Begins
<1>3. m \in Nat
  BY <1>2, SizeIs DEF PlacesOf
<1>4. m \in at..e - 1
  BY <1>1, <1>2, <1>3
<1> QED
  BY <1>2, <1>4

LEMMA SplitKeeps ==
  ASSUME WellFormed, at \in Begins, SplitUpTo(pieces, at), Split
  PROVE  /\ PieceList(pieces') /\ at' \in 0..Size
         /\ \/ state' = "done" /\ SplitUpTo(pieces', Size + 1)
            \/ state' = state /\ at' \in Begins /\ SplitUpTo(pieces', at')
<1>1. Size \in Nat /\ at \in Nat /\ at <= Size
  BY SizeIs
<1> DEFINE index == NextOf(at, Size, call.chars)
           later == {m \in PlacesOf(call.chars) : m >= at}
<1>2. \/ index = -1 /\ \A m \in at..Size - 1 : text[m + 1] \notin call.chars
      \/ /\ index \in at..Size - 1 /\ text[index + 1] \in call.chars
         /\ \A m \in at..index - 1 : text[m + 1] \notin call.chars
  BY <1>1, NextIs
<1>3. \/ index = -1 /\ pieces' = Added(Piece(at, Size)) /\ state' = "done" /\ at' = at
      \/ index # -1 /\ pieces' = Added(Piece(at, index)) /\ at' = index + 1 /\ state' = state
  BY DEF Split, Ended
<1>4. \A m \in later : m \in at..Size - 1 /\ text[m + 1] \in call.chars
  BY <1>1 DEF PlacesOf
<1> HIDE DEF index
<1>5. CASE index = -1
  <2>1. later = {}
    BY <1>1, <1>2, <1>4, <1>5
  <2>2. Min({Size} \cup later) = Size
    <3>1. {Size} \cup later = {Size}
      BY <2>1
    <3> QED
      BY <1>1, <3>1, OfOne
  <2>3. \A m \in at..Size - 1 : m \notin PlacesOf(call.chars)
    BY <1>1, <1>2, <1>5 DEF PlacesOf
  <2>4. \A n \in Begins : n < Size + 1 => n <= at
    <3>1. \A n \in Begins : n <= Size => n <= at
      BY <1>1, <2>3, NoOtherBegins
    <3>2. \A n \in Begins : n \in Nat
      BY <1>1 DEF Begins, PlacesOf
    <3> QED
      BY <1>1, <3>1, <3>2
  <2>5. Size \in at..Size /\ Size + 1 \in Nat /\ at < Size + 1
    BY <1>1
  <2>6. PieceList(Added(Piece(at, Size))) /\ SplitUpTo(Added(Piece(at, Size)), Size + 1)
    BY <2>2, <2>4, <2>5, SplitMore
  <2> HIDE DEF later
  <2> QED
    BY <1>1, <1>3, <1>5, <2>6
<1>6. CASE index # -1
  <2>1. /\ index \in at..Size - 1 /\ text[index + 1] \in call.chars
        /\ \A m \in at..index - 1 : text[m + 1] \notin call.chars
    BY <1>2, <1>6
  <2>2. Min({Size} \cup later) = index
    <3>1. index \in PlacesOf(call.chars) /\ index \in later
      BY <1>1, <2>1 DEF PlacesOf
    <3>2. \A m \in {Size} \cup later : m \in Nat /\ index <= m
      <4> TAKE m \in {Size} \cup later
      <4>1. CASE m = Size
        BY <1>1, <2>1, <4>1
      <4>2. CASE m \in later
        <5>1. m \in at..Size - 1 /\ m \notin at..index - 1
          BY <1>4, <2>1, <4>2
        <5> QED
          BY <1>1, <2>1, <5>1
      <4> QED
        BY <4>1, <4>2
    <3> HIDE DEF later
    <3> QED
      BY <3>1, <3>2, MinIs
  <2>3. index + 1 \in Begins
    BY <1>1, <2>1 DEF Begins, PlacesOf
  <2>4. \A n \in Begins : n < index + 1 => n <= at
    <3>1. \A m \in at..index - 1 : m \notin PlacesOf(call.chars)
      BY <2>1 DEF PlacesOf
    <3>2. \A n \in Begins : n <= index => n <= at
      BY <1>1, <2>1, <3>1, NoOtherBegins
    <3>3. \A n \in Begins : n \in Nat
      BY <1>1 DEF Begins, PlacesOf
    <3> QED
      BY <1>1, <2>1, <3>2, <3>3
  <2>5. index \in at..Size /\ index + 1 \in Nat /\ at < index + 1
    BY <1>1, <2>1
  <2>6. PieceList(Added(Piece(at, index))) /\ SplitUpTo(Added(Piece(at, index)), index + 1)
    BY <2>2, <2>4, <2>5, SplitMore
  <2> HIDE DEF later
  <2> QED
    BY <1>1, <1>3, <1>6, <2>1, <2>3, <2>6
<1> QED
  BY <1>5, <1>6

-----------------------------------------------------------------------------
(* Indexing.                                                               *)

FoundTo(n) == {m \in PlacesOf(call.chars) : m < n}

IndexUpTo(list, n) ==
  /\ Len(list) = Cardinality(FoundTo(n))
  /\ \A m \in FoundTo(n) : list[Rank(m, FoundTo(n))] = Piece(m, m + 1)

LEMMA IndexKeeps ==
  ASSUME WellFormed, IndexUpTo(pieces, at), Index
  PROVE  /\ PieceList(pieces') /\ at' \in 0..Size
         /\ \/ state' = "done" /\ IndexUpTo(pieces', Size + 1)
            \/ state' = state /\ IndexUpTo(pieces', at')
<1>1. Size \in Nat /\ at \in Nat /\ at <= Size
  BY SizeIs
<1> DEFINE index == NextOf(at, Size, call.chars)
           S == FoundTo(at)
<1>2. \/ index = -1 /\ \A m \in at..Size - 1 : text[m + 1] \notin call.chars
      \/ /\ index \in at..Size - 1 /\ text[index + 1] \in call.chars
         /\ \A m \in at..index - 1 : text[m + 1] \notin call.chars
  BY <1>1, NextIs
<1>3. \/ index = -1 /\ pieces' = pieces /\ state' = "done" /\ at' = at
      \/ index # -1 /\ pieces' = Append(pieces, Piece(index, index + 1)) /\ at' = index + 1 /\ state' = state
  BY DEF Index, Ended
<1>4. \A m \in PlacesOf(call.chars) : m \in 0..Size - 1 /\ text[m + 1] \in call.chars
  BY DEF PlacesOf
<1> HIDE DEF index
<1>5. CASE index = -1
  <2>1. \A m \in PlacesOf(call.chars) : m < Size + 1 <=> m < at
    <3> TAKE m \in PlacesOf(call.chars)
    <3>1. m \in 0..Size - 1 /\ m \notin at..Size - 1
      <4>1. \A k \in at..Size - 1 : text[k + 1] \notin call.chars
        BY <1>1, <1>2, <1>5
      <4> QED
        BY <1>4, <4>1
    <3> QED
      BY <1>1, <3>1
  <2>2. FoundTo(Size + 1) = FoundTo(at)
    BY <2>1 DEF FoundTo
  <2> HIDE DEF S
  <2> QED
    BY <1>1, <1>3, <1>5, <2>2, SizeIs DEF IndexUpTo
<1>6. CASE index # -1
  <2>1. /\ index \in at..Size - 1 /\ text[index + 1] \in call.chars
        /\ \A m \in at..index - 1 : text[m + 1] \notin call.chars
    BY <1>2, <1>6
  <2>2. FoundTo(index + 1) = S \cup {index}
    <3>1. index \in PlacesOf(call.chars)
      BY <1>1, <2>1 DEF PlacesOf
    <3>2. \A m \in PlacesOf(call.chars) : m < index + 1 <=> m < at \/ m = index
      <4> TAKE m \in PlacesOf(call.chars)
      <4>1. m \in 0..Size - 1 /\ m \notin at..index - 1
        BY <1>4, <2>1
      <4> QED
        BY <1>1, <2>1, <4>1
    <3> QED
      BY <3>1, <3>2 DEF FoundTo
  <2>3. \A m \in S : m \in Nat /\ m < index
    BY <1>1, <1>4, <2>1 DEF FoundTo
  <2>4. /\ Len(pieces) = Cardinality(S)
        /\ \A m \in S : pieces[Rank(m, S)] = Piece(m, m + 1)
    BY DEF IndexUpTo
  <2> HIDE DEF S
  <2>5. /\ Cardinality(S) \in Nat
        /\ Cardinality(S \cup {index}) = Cardinality(S) + 1
        /\ Rank(index, S \cup {index}) = Cardinality(S) + 1
        /\ \A m \in S : Rank(m, S \cup {index}) = Rank(m, S) /\ Rank(m, S) \in 1..Cardinality(S)
    <3>1. index \in Nat
      BY <1>1, <2>1
    <3> QED
      BY <2>3, <3>1, RankMore
  <2> DEFINE p == Piece(index, index + 1)
             more == Append(pieces, p)
  <2>6. p \in [from : 0..Size, to : 0..Size] /\ p.from <= p.to
    BY <1>1, <2>1 DEF Piece
  <2> HIDE DEF p
  <2>7. /\ PieceList(more) /\ Len(more) = Len(pieces) + 1
        /\ more[Len(pieces) + 1] = p
        /\ \A n \in 1..Len(pieces) : more[n] = pieces[n]
    BY <2>6, ListMore
  <2> HIDE DEF more
  <2>8. \A m \in S \cup {index} : more[Rank(m, S \cup {index})] = Piece(m, m + 1)
    <3> TAKE m \in S \cup {index}
    <3>1. CASE m \in S
      <4>1. more[Rank(m, S \cup {index})] = pieces[Rank(m, S)]
        BY <2>4, <2>5, <2>7, <3>1
      <4> QED
        BY <2>4, <3>1, <4>1
    <3>2. CASE m = index
      <4>1. more[Rank(index, S \cup {index})] = p
        BY <2>4, <2>5, <2>7
      <4> QED
        BY <3>2, <4>1 DEF p
    <3> QED
      BY <3>1, <3>2
  <2>9. IndexUpTo(more, index + 1)
    BY <2>2, <2>4, <2>5, <2>7, <2>8 DEF IndexUpTo
  <2>10. pieces' = more /\ at' = index + 1 /\ at' \in 0..Size /\ state' = state
    BY <1>1, <1>3, <1>6, <2>1 DEF more, p
  <2> QED
    BY <2>7, <2>9, <2>10
<1> QED
  BY <1>5, <1>6

-----------------------------------------------------------------------------
(* Capturing.                                                              *)

Starts == {n \in PlacesOf({call.inc}) : n >= call.offset}
Start == Min(Starts)

OpenedIn(from, to) == {n \in from + 1..to - 1 : text[n + 1] = call.inc /\ call.inc # call.dec}
ClosedIn(from, to) == {n \in from + 1..to - 1 : text[n + 1] = call.dec}

LEMMA DepthIs ==
  ASSUME NEW from \in Nat, NEW to \in Nat
  PROVE  /\ Depth(from, to) = 1 + Cardinality(OpenedIn(from, to)) - Cardinality(ClosedIn(from, to))
         /\ Cardinality(OpenedIn(from, to)) \in Nat /\ IsFiniteSet(OpenedIn(from, to))
         /\ Cardinality(ClosedIn(from, to)) \in Nat /\ IsFiniteSet(ClosedIn(from, to))
<1>1. \A n \in OpenedIn(from, to) : n \in Nat /\ n <= to
  BY DEF OpenedIn
<1>2. \A n \in ClosedIn(from, to) : n \in Nat /\ n <= to
  BY DEF ClosedIn
<1>3. Cardinality(OpenedIn(from, to)) \in Nat /\ IsFiniteSet(OpenedIn(from, to))
  BY <1>1, NumbersFinite
<1>4. Cardinality(ClosedIn(from, to)) \in Nat /\ IsFiniteSet(ClosedIn(from, to))
  BY <1>2, NumbersFinite
<1> QED
  BY <1>3, <1>4 DEF Depth, OpenedIn, ClosedIn

\* What is just behind the character that opens has been opened once.
LEMMA DepthFirst == ASSUME NEW from \in Nat PROVE Depth(from, from + 1) = 1
<1>1. OpenedIn(from, from + 1) = {} /\ ClosedIn(from, from + 1) = {}
  BY DEF OpenedIn, ClosedIn
<1>2. Depth(from, from + 1) =
        1 + Cardinality(OpenedIn(from, from + 1)) - Cardinality(ClosedIn(from, from + 1))
  BY DepthIs
<1>3. Cardinality(OpenedIn(from, from + 1)) = 0 /\ Cardinality(ClosedIn(from, from + 1)) = 0
  BY <1>1, FS_EmptySet
<1> QED
  BY <1>2, <1>3

\* Other characters leave the depth as it is.
LEMMA DepthSame ==
  ASSUME NEW from \in Nat, NEW m \in Nat, NEW n \in Nat, from < m, m <= n,
         \A k \in m..n - 1 : text[k + 1] \notin {call.inc, call.dec}
  PROVE  Depth(from, n) = Depth(from, m)
<1>1. OpenedIn(from, n) = OpenedIn(from, m)
  <2>1. \A k \in from + 1..n - 1 : text[k + 1] = call.inc => k \in from + 1..m - 1
    OBVIOUS
  <2> QED
    BY <2>1 DEF OpenedIn
<1>2. ClosedIn(from, n) = ClosedIn(from, m)
  <2>1. \A k \in from + 1..n - 1 : text[k + 1] = call.dec => k \in from + 1..m - 1
    OBVIOUS
  <2> QED
    BY <2>1 DEF ClosedIn
<1> QED
  BY <1>1, <1>2, DepthIs

\* One that opens or closes makes it one more or less.
LEMMA DepthMore ==
  ASSUME NEW from \in Nat, NEW n \in Nat, from < n, text[n + 1] \in {call.inc, call.dec}
  PROVE  Depth(from, n + 1) =
           IF text[n + 1] = call.dec THEN Depth(from, n) - 1 ELSE Depth(from, n) + 1
<1> DEFINE O == OpenedIn(from, n)
           D == ClosedIn(from, n)
<1>1. \A k \in from + 1..n + 1 - 1 : k \in from + 1..n - 1 \/ k = n
  OBVIOUS
<1>2. n \in from + 1..n + 1 - 1 /\ n \notin from + 1..n - 1
      /\ \A k \in from + 1..n - 1 : k \in from + 1..n + 1 - 1
  OBVIOUS
<1>3. n \notin O /\ n \notin D
  BY <1>2 DEF OpenedIn, ClosedIn
<1>4. /\ Depth(from, n) = 1 + Cardinality(O) - Cardinality(D)
      /\ Cardinality(O) \in Nat /\ IsFiniteSet(O)
      /\ Cardinality(D) \in Nat /\ IsFiniteSet(D)
  BY DepthIs
<1>5. Depth(from, n + 1) =
        1 + Cardinality(OpenedIn(from, n + 1)) - Cardinality(ClosedIn(from, n + 1))
  BY DepthIs
<1>6. CASE text[n + 1] = call.dec
  <2>1. OpenedIn(from, n + 1) = O
    BY <1>1, <1>2, <1>6 DEF OpenedIn
  <2>2. ClosedIn(from, n + 1) = D \cup {n}
    BY <1>1, <1>2, <1>6 DEF ClosedIn
  <2> HIDE DEF O, D
  <2>3. Cardinality(D \cup {n}) = Cardinality(D) + 1
    BY <1>3, <1>4, FS_AddElement
  <2>4. /\ Cardinality(OpenedIn(from, n + 1)) = Cardinality(O)
        /\ Cardinality(ClosedIn(from, n + 1)) = Cardinality(D) + 1
    BY <2>1, <2>2, <2>3
  <2>5. Depth(from, n + 1) = Depth(from, n) - 1
    BY <1>4, <1>5, <2>4
  <2> QED
    BY <1>6, <2>5
<1>7. CASE text[n + 1] # call.dec
  <2>1. OpenedIn(from, n + 1) = O \cup {n}
    BY <1>1, <1>2, <1>7 DEF OpenedIn
  <2>2. ClosedIn(from, n + 1) = D
    BY <1>1, <1>2, <1>7 DEF ClosedIn
  <2> HIDE DEF O, D
  <2>3. Cardinality(O \cup {n}) = Cardinality(O) + 1
    BY <1>3, <1>4, FS_AddElement
  <2>4. /\ Cardinality(OpenedIn(from, n + 1)) = Cardinality(O) + 1
        /\ Cardinality(ClosedIn(from, n + 1)) = Cardinality(D)
    BY <2>1, <2>2, <2>3
  <2>5. Depth(from, n + 1) = Depth(from, n) + 1
    BY <1>4, <1>5, <2>4
  <2> QED
    BY <1>7, <2>5
<1> QED
  BY <1>6, <1>7

\* What has been passed behind the character that opens has been opened more often than
\* closed; in front of the place there is none that opens.
Within(list, n, depth) ==
  /\ Starts # {} /\ n \in Start + 1..Size
  /\ Len(list) = 1 /\ list[1].from = Start
  /\ depth = Depth(Start, n) /\ depth \in 0..n
  /\ \A m \in Start + 1..n - 1 : Depth(Start, m) > 0

Unopened == Starts = {} \/ \A m \in Start + 1..Size : Depth(Start, m) > 0

LEMMA StartIs ==
  ASSUME WellFormed, call.op = "capture", Starts # {}
  PROVE  Start \in Nat /\ Start < Size /\ Start \in Starts /\ \A n \in Starts : Start <= n
<1>1. \A n \in Starts : n \in Nat /\ n < Size
  BY SizeIs DEF Starts, PlacesOf
<1>2. Start \in Starts /\ \A n \in Starts : Start <= n
  BY <1>1, MinIsIn DEF Start
<1> QED
  BY <1>1, <1>2

LEMMA OpenedKeeps ==
  ASSUME WellFormed, Opened
  PROVE  \/ state' = "done" /\ pieces' = <<>> /\ at' = at /\ balance' = balance /\ Starts = {}
         \/ /\ state' = state /\ PieceList(pieces')
            /\ Within(pieces', at', balance') /\ balance' > 0
<1>1. Size \in Nat /\ call.op = "capture" /\ call.offset \in Nat /\ call.offset <= Size
  <2>1. Size \in Nat /\ call.op = "capture"
    BY SizeIs DEF Opened, Running
  <2> QED
    BY <2>1 DEF WellFormed
<1> DEFINE index == NextOf(call.offset, Size, {call.inc})
<1>2. \/ index = -1 /\ \A m \in call.offset..Size - 1 : text[m + 1] \notin {call.inc}
      \/ /\ index \in call.offset..Size - 1 /\ text[index + 1] \in {call.inc}
         /\ \A m \in call.offset..index - 1 : text[m + 1] \notin {call.inc}
  BY <1>1, NextIs
<1>3. \/ index = -1 /\ state' = "done" /\ at' = at /\ pieces' = pieces /\ balance' = balance
      \/ index # -1 /\ pieces' = <<Piece(index, index)>> /\ at' = index + 1 /\ balance' = 1 /\ state' = state
  BY DEF Opened, Ended
<1>4. pieces = <<>>
  BY DEF Opened
<1>5. \A n \in Starts : n \in call.offset..Size - 1 /\ text[n + 1] = call.inc
  BY <1>1 DEF Starts, PlacesOf
<1> HIDE DEF index
<1>6. CASE index = -1
  <2>1. \A m \in call.offset..Size - 1 : text[m + 1] \notin {call.inc}
    BY <1>1, <1>2, <1>6
  <2>2. Starts = {}
    BY <1>5, <2>1
  <2> QED
    BY <1>3, <1>4, <1>6, <2>2
<1>7. CASE index # -1
  <2>1. /\ index \in call.offset..Size - 1 /\ text[index + 1] = call.inc
        /\ \A m \in call.offset..index - 1 : text[m + 1] # call.inc
    BY <1>2, <1>7
  <2>2. index \in Starts
    BY <1>1, <2>1 DEF Starts, PlacesOf
  <2>3. \A n \in Starts : n \in Nat /\ index <= n
    <3> TAKE n \in Starts
    <3>1. n \in call.offset..Size - 1 /\ n \notin call.offset..index - 1
      BY <1>5, <2>1
    <3> QED
      BY <1>1, <2>1, <3>1
  <2>4. Start = index
    BY <2>2, <2>3, MinIs DEF Start
  <2>5. index \in Nat /\ index < Size
    BY <1>1, <2>1
  <2>6. Depth(index, index + 1) = 1
    BY <2>5, DepthFirst
  <2>7. PieceList(<<Piece(index, index)>>)
    <3>1. Piece(index, index) \in [from : 0..Size, to : 0..Size] /\ Piece(index, index).from <= Piece(index, index).to
      BY <1>1, <2>5 DEF Piece
    <3> QED
      BY <3>1 DEF PieceList
  <2>8. Len(<<Piece(index, index)>>) = 1 /\ <<Piece(index, index)>>[1].from = index
    BY DEF Piece
  <2>9. at' \in index + 1..Size /\ 1 \in 0..at' /\ \A m \in index + 1..at' - 1 : FALSE
    BY <1>1, <1>3, <1>7, <2>5
  <2>10. Within(pieces', at', balance')
    BY <1>3, <1>7, <2>2, <2>4, <2>6, <2>8, <2>9 DEF Within
  <2> QED
    BY <1>3, <1>7, <2>7, <2>10
<1> QED
  BY <1>6, <1>7

LEMMA BalancedKeeps ==
  ASSUME WellFormed, Within(pieces, at, balance), Balanced
  PROVE  \/ state' = "done" /\ pieces' = <<>> /\ at' = at /\ balance' = balance /\ (~call.cstr => Unopened)
         \/ /\ PieceList(pieces') /\ Within(pieces', at', balance')
            /\ \/ state' = "done" /\ balance' = 0 /\ pieces'[1].to = at'
               \/ state' = state /\ balance' > 0
<1>1. /\ Size \in Nat /\ at \in Nat /\ at <= Size /\ call.op = "capture"
      /\ balance \in Nat /\ balance > 0 /\ balance <= at
  BY SizeIs DEF WellFormed, TypeOK, Balanced, Running, Within
<1>2. Start \in Nat /\ Start < at /\ balance = Depth(Start, at) /\ Starts # {}
      /\ (\A m \in Start + 1..at - 1 : Depth(Start, m) > 0) /\ pieces[1].from = Start
  BY <1>1, StartIs DEF Within
<1>3. Reach \in Nat /\ Reach <= Size /\ (~call.cstr => Reach = Size)
  <2>1. CASE call.cstr
    <3>1. PointerSize \in Nat
      BY PointerAssumption
    <3> DEFINE S == {Size, at + PointerSize}
    <3>2. \A n \in S : n \in Nat
      BY <1>1, <3>1
    <3>3. S # {} /\ Size \in S
      OBVIOUS
    <3> HIDE DEF S
    <3>4. Min(S) \in S /\ \A n \in S : Min(S) <= n
      BY <3>2, <3>3, MinIsIn
    <3>5. Reach = Min(S)
      BY <2>1 DEF Reach, S
    <3> QED
      BY <2>1, <3>2, <3>3, <3>4, <3>5
  <2>2. CASE ~call.cstr
    BY <1>1, <2>2 DEF Reach
  <2> QED
    BY <2>1, <2>2
<1> DEFINE index == NextOf(at, Reach, {call.inc, call.dec})
<1>4. \/ index = -1 /\ \A m \in at..Reach - 1 : text[m + 1] \notin {call.inc, call.dec}
      \/ /\ index \in at..Reach - 1 /\ text[index + 1] \in {call.inc, call.dec}
         /\ \A m \in at..index - 1 : text[m + 1] \notin {call.inc, call.dec}
  BY <1>1, <1>3, NextIs
<1>5. \/ index = -1 /\ pieces' = <<>> /\ state' = "done" /\ at' = at /\ balance' = balance
      \/ /\ index # -1 /\ at' = index + 1
         /\ balance' = IF text[index + 1] = call.dec THEN balance - 1 ELSE balance + 1
         /\ pieces' = <<Piece(pieces[1].from, at')>>
         /\ IF balance' = 0 THEN state' = "done" ELSE state' = state
  BY DEF Balanced, Ended
<1> HIDE DEF index
<1>6. ASSUME NEW n \in Nat, at <= n, \A m \in at..n - 1 : text[m + 1] \notin {call.inc, call.dec}
      PROVE  Depth(Start, n) = balance
  BY <1>1, <1>2, <1>6, DepthSame
<1>7. CASE index = -1
  <2>1. ASSUME ~call.cstr, NEW n \in Start + 1..Size PROVE Depth(Start, n) > 0
    <3>1. CASE n < at
      BY <1>1, <1>2, <3>1
    <3>2. CASE n >= at
      <4>1. n \in Nat /\ \A m \in at..n - 1 : text[m + 1] \notin {call.inc, call.dec}
        BY <1>1, <1>2, <1>3, <1>4, <1>7, <2>1
      <4>2. Depth(Start, n) = balance
        BY <1>6, <3>2, <4>1
      <4> QED
        BY <1>1, <4>2
    <3> QED
      BY <1>1, <1>2, <3>1, <3>2
  <2> QED
    BY <1>5, <1>7, <2>1 DEF Unopened
<1>8. CASE index # -1
  <2>1. /\ index \in at..Reach - 1 /\ text[index + 1] \in {call.inc, call.dec}
        /\ \A m \in at..index - 1 : text[m + 1] \notin {call.inc, call.dec}
    BY <1>4, <1>8
  <2>2. index \in Nat /\ at <= index /\ index < Size
    BY <1>1, <1>3, <2>1
  <2>3. Depth(Start, index) = balance
    BY <1>6, <2>1, <2>2
  <2>4. Depth(Start, index + 1) = IF text[index + 1] = call.dec THEN balance - 1 ELSE balance + 1
    <3>1. Start < index
      BY <1>1, <1>2, <2>2
    <3> QED
      BY <1>2, <2>1, <2>2, <2>3, <3>1, DepthMore
  <2>5. \A m \in Start + 1..index : Depth(Start, m) > 0
    <3> TAKE m \in Start + 1..index
    <3>1. CASE m < at
      BY <1>1, <1>2, <3>1
    <3>2. CASE m >= at
      <4>1. m \in Nat /\ \A k \in at..m - 1 : text[k + 1] \notin {call.inc, call.dec}
        BY <1>1, <1>2, <2>1, <2>2
      <4>2. Depth(Start, m) = balance
        BY <1>6, <3>2, <4>1
      <4> QED
        BY <1>1, <4>2
    <3> QED
      BY <1>1, <1>2, <3>1, <3>2
  <2> DEFINE p == Piece(Start, index + 1)
  <2>6. p \in [from : 0..Size, to : 0..Size] /\ p.from = Start /\ p.to = index + 1 /\ p.from <= p.to
    BY <1>1, <1>2, <2>2 DEF Piece
  <2> HIDE DEF p
  <2>7. PieceList(<<p>>) /\ Len(<<p>>) = 1 /\ <<p>>[1] = p
    BY <2>6 DEF PieceList
  <2>8. pieces' = <<p>> /\ at' = index + 1
    BY <1>2, <1>5, <1>8 DEF p
  <2>9. balance' = Depth(Start, at') /\ balance' \in 0..at'
    BY <1>1, <1>5, <1>8, <2>2, <2>4, <2>8
  <2>10. at' \in Start + 1..Size /\ \A m \in Start + 1..at' - 1 : m \in Start + 1..index
    BY <1>1, <1>2, <2>2, <2>8
  <2>11. Within(pieces', at', balance')
    BY <1>2, <2>5, <2>6, <2>7, <2>8, <2>9, <2>10 DEF Within
  <2> QED
    BY <1>5, <1>8, <2>6, <2>7, <2>8, <2>9, <2>11
<1> QED
  BY <1>7, <1>8

-----------------------------------------------------------------------------
(* Every loop.                                                             *)

Upto == IF state = "done" THEN Size + 1 ELSE at

SplitSoFar ==
  call.op = "split" => (state # "done" => at \in Begins) /\ SplitUpTo(pieces, Upto)

IndexedSoFar == call.op = "index" => IndexUpTo(pieces, Upto)

CapturedSoFar ==
  call.op = "capture" =>
    \/ pieces = <<>> /\ (state = "done" /\ ~call.cstr => Unopened)
    \/ /\ Within(pieces, at, balance)
       /\ state # "done" => balance > 0
       /\ state = "done" => balance = 0 /\ pieces[1].to = at

CutInv == WellFormed /\ SplitSoFar /\ IndexedSoFar /\ CapturedSoFar /\ TrimsBoth

LEMMA InputStays ==
  ASSUME text' = text, call' = call
  PROVE  /\ Size' = Size /\ Begins' = Begins
         /\ Wanted' = Wanted
         /\ \A n : Between(n)' = Between(n)
         /\ Starts' = Starts /\ Start' = Start
<1>1. Size' = Size
  BY DEF Size
<1>2. Begins' = Begins
  BY <1>1 DEF Begins, PlacesOf
<1>3. \A n : Between(n)' = Between(n)
  BY <1>1 DEF Between, PlacesOf, Trimmed
<1>4. Wanted' = Wanted
  BY <1>2, <1>3 DEF Wanted
<1>5. Starts' = Starts
  BY <1>1 DEF Starts, PlacesOf
<1> QED
  BY <1>1, <1>2, <1>3, <1>4, <1>5 DEF Start

LEMMA StillSplit ==
  ASSUME text' = text, call' = call, SplitUpTo(pieces', IF state' = "done" THEN Size + 1 ELSE at')
  PROVE  SplitUpTo(pieces, Upto)'
<1>1. Size' = Size /\ Wanted' = Wanted /\ \A n : Between(n)' = Between(n)
  BY InputStays
<1>2. Upto' = IF state' = "done" THEN Size + 1 ELSE at'
  BY <1>1 DEF Upto
<1>3. WantedTo(Upto)' = WantedTo(Upto')
  BY <1>1 DEF WantedTo
<1>4. \A p : Read(p)' = Read(p)
  BY DEF Read
<1>5. \A m, S : Rank(m, S)' = Rank(m, S)
  BY DEF Rank
<1> QED
  BY <1>1, <1>2, <1>3, <1>4, <1>5 DEF SplitUpTo, Read, Rank

LEMMA StillIndexed ==
  ASSUME text' = text, call' = call, IndexUpTo(pieces', IF state' = "done" THEN Size + 1 ELSE at')
  PROVE  IndexUpTo(pieces, Upto)'
<1>1. Size' = Size
  BY InputStays
<1>2. Upto' = IF state' = "done" THEN Size + 1 ELSE at'
  BY <1>1 DEF Upto
<1>3. FoundTo(Upto)' = FoundTo(Upto')
  BY <1>1 DEF FoundTo, PlacesOf
<1> QED
  BY <1>2, <1>3 DEF IndexUpTo, Rank, Piece

LEMMA DepthStays ==
  ASSUME text' = text, call' = call
  PROVE  \A m, n : Depth(m, n)' = Depth(m, n)
BY DEF Depth

LEMMA StillWithin ==
  ASSUME text' = text, call' = call, Within(pieces', at', balance')
  PROVE  Within(pieces, at, balance)'
<1>1. Size' = Size /\ Starts' = Starts /\ Start' = Start
  BY InputStays
<1>2. Depth(Start, at)' = Depth(Start, at')
  BY <1>1 DEF Depth
<1>3. \A m : Depth(Start, m)' = Depth(Start, m)
  BY <1>1 DEF Depth
<1> QED
  BY <1>1, <1>2, <1>3 DEF Within

LEMMA StillUnopened ==
  ASSUME text' = text, call' = call, Unopened
  PROVE  Unopened'
<1>1. Size' = Size /\ Starts' = Starts /\ Start' = Start
  BY InputStays
<1>2. \A m : Depth(Start, m)' = Depth(Start, m)
  BY <1>1 DEF Depth
<1> QED
  BY <1>1, <1>2 DEF Unopened

LEMMA StillWellFormed ==
  ASSUME WellFormed, text' = text, call' = call, PieceList(pieces'), at' \in 0..Size,
         balance' \in 0..Size, state' \in {"running", "done"}
  PROVE  WellFormed'
<1>1. Size' = Size
  BY InputStays
<1> QED
  BY <1>1 DEF WellFormed, TypeOK, PieceList

LEMMA StartsWell == Init => CutInv
<1> SUFFICES ASSUME Init PROVE CutInv
  OBVIOUS
<1>1. PICK input \in Inputs : text = input.text /\ call = input.call
  BY DEF Init
<1>2. text \in Seq(Chars) /\ Size \in Nat
  BY <1>1, ConstantsAssumption DEF Size
<1>3. call.op = "capture" => call.offset \in 0..Size
  BY <1>1, <1>2, ConstantsAssumption DEF Init
<1>4. at = 0 /\ pieces = <<>> /\ balance = 0 /\ state = "running" /\ 0 \in 0..Size
  BY <1>2 DEF Init
<1>5. WellFormed
  BY <1>2, <1>3, <1>4 DEF WellFormed, TypeOK
<1>6. Upto = 0
  BY <1>4 DEF Upto
<1>7. WantedTo(0) = {} /\ FoundTo(0) = {}
  BY <1>5, BeginsNat DEF WantedTo, FoundTo, PlacesOf
<1>8. SplitUpTo(pieces, Upto) /\ IndexUpTo(pieces, Upto)
  BY <1>4, <1>6, <1>7, FS_EmptySet DEF SplitUpTo, IndexUpTo
<1>9. at \in Begins
  BY <1>4 DEF Begins
<1>10. CapturedSoFar /\ TrimsBoth
  BY <1>4 DEF CapturedSoFar, TrimsBoth, Done
<1> QED
  BY <1>5, <1>8, <1>9, <1>10 DEF CutInv, SplitSoFar, IndexedSoFar

LEMMA SplitStep == CutInv /\ Split => CutInv'
<1> SUFFICES ASSUME CutInv, Split PROVE CutInv'
  OBVIOUS
<1>1. /\ state = "running" /\ call.op = "split" /\ text' = text /\ call' = call /\ balance' = balance
      /\ WellFormed /\ at \in Begins /\ SplitUpTo(pieces, at)
  BY DEF CutInv, SplitSoFar, Split, Running, Upto
<1>2. /\ PieceList(pieces') /\ at' \in 0..Size
      /\ \/ state' = "done" /\ SplitUpTo(pieces', Size + 1)
         \/ state' = state /\ at' \in Begins /\ SplitUpTo(pieces', at')
  BY <1>1, SplitKeeps
<1>3. SplitUpTo(pieces, Upto)'
  BY <1>1, <1>2, StillSplit
<1>4. state' # "done" => (at \in Begins)'
  BY <1>1, <1>2, InputStays
<1>5. WellFormed'
  <2>1. balance' \in 0..Size /\ state' \in {"running", "done"}
    BY <1>1, <1>2 DEF WellFormed, TypeOK
  <2> QED
    BY <1>1, <1>2, <2>1, StillWellFormed
<1> QED
  BY <1>1, <1>3, <1>4, <1>5
  DEF CutInv, SplitSoFar, IndexedSoFar, CapturedSoFar, TrimsBoth, Done

LEMMA IndexStep == CutInv /\ Index => CutInv'
<1> SUFFICES ASSUME CutInv, Index PROVE CutInv'
  OBVIOUS
<1>1. /\ state = "running" /\ call.op = "index" /\ text' = text /\ call' = call /\ balance' = balance
      /\ WellFormed /\ IndexUpTo(pieces, at)
  BY DEF CutInv, IndexedSoFar, Index, Running, Upto
<1>2. /\ PieceList(pieces') /\ at' \in 0..Size
      /\ \/ state' = "done" /\ IndexUpTo(pieces', Size + 1)
         \/ state' = state /\ IndexUpTo(pieces', at')
  BY <1>1, IndexKeeps
<1>3. IndexUpTo(pieces, Upto)'
  BY <1>1, <1>2, StillIndexed
<1>4. WellFormed'
  <2>1. balance' \in 0..Size /\ state' \in {"running", "done"}
    BY <1>1, <1>2 DEF WellFormed, TypeOK
  <2> QED
    BY <1>1, <1>2, <2>1, StillWellFormed
<1> QED
  BY <1>1, <1>3, <1>4 DEF CutInv, SplitSoFar, IndexedSoFar, CapturedSoFar, TrimsBoth, Done

LEMMA OpenedStep == CutInv /\ Opened => CutInv'
<1> SUFFICES ASSUME CutInv, Opened PROVE CutInv'
  OBVIOUS
<1>1. /\ state = "running" /\ call.op = "capture" /\ text' = text /\ call' = call
      /\ WellFormed /\ Size \in Nat /\ at \in 0..Size /\ PieceList(pieces) /\ balance \in 0..Size
      /\ pieces = <<>>
  BY SizeIs DEF CutInv, Opened, Running, WellFormed, TypeOK
<1>2. \/ state' = "done" /\ pieces' = <<>> /\ at' = at /\ balance' = balance /\ Starts = {}
      \/ /\ state' = state /\ PieceList(pieces')
         /\ Within(pieces', at', balance') /\ balance' > 0
  BY <1>1, OpenedKeeps
<1>3. WellFormed' /\ CapturedSoFar'
  <2>1. CASE state' = "done" /\ pieces' = <<>> /\ at' = at /\ balance' = balance /\ Starts = {}
    <3>1. WellFormed'
      BY <1>1, <2>1, StillWellFormed
    <3>2. Unopened'
      BY <1>1, <2>1, StillUnopened DEF Unopened
    <3> QED
      BY <2>1, <3>1, <3>2 DEF CapturedSoFar
  <2>2. CASE state' = state /\ PieceList(pieces') /\ Within(pieces', at', balance') /\ balance' > 0
    <3>1. at' \in 0..Size /\ balance' \in 0..Size
      <4>1. at' \in Start + 1..Size /\ balance' \in 0..at' /\ Start \in Nat
        BY <1>1, <2>2, StartIs DEF Within
      <4> QED
        BY <1>1, <4>1
    <3>2. WellFormed'
      BY <1>1, <2>2, <3>1, StillWellFormed
    <3>3. Within(pieces, at, balance)'
      BY <1>1, <2>2, StillWithin
    <3> QED
      BY <1>1, <2>2, <3>2, <3>3 DEF CapturedSoFar
  <2> QED
    BY <1>2, <2>1, <2>2
<1> QED
  BY <1>1, <1>3 DEF CutInv, SplitSoFar, IndexedSoFar, TrimsBoth, Done

LEMMA BalancedStep == CutInv /\ Balanced => CutInv'
<1> SUFFICES ASSUME CutInv, Balanced PROVE CutInv'
  OBVIOUS
<1>1. /\ state = "running" /\ call.op = "capture" /\ text' = text /\ call' = call
      /\ WellFormed /\ Size \in Nat /\ at \in 0..Size /\ PieceList(pieces) /\ balance \in 0..Size
      /\ Within(pieces, at, balance)
  BY SizeIs DEF CutInv, CapturedSoFar, Balanced, Running, WellFormed, TypeOK
<1>2. \/ state' = "done" /\ pieces' = <<>> /\ at' = at /\ balance' = balance /\ (~call.cstr => Unopened)
      \/ /\ PieceList(pieces') /\ Within(pieces', at', balance')
         /\ \/ state' = "done" /\ balance' = 0 /\ pieces'[1].to = at'
            \/ state' = state /\ balance' > 0
  BY <1>1, BalancedKeeps
<1>3. WellFormed' /\ CapturedSoFar'
  <2>1. CASE /\ state' = "done" /\ pieces' = <<>> /\ at' = at /\ balance' = balance
             /\ (~call.cstr => Unopened)
    <3>1. WellFormed'
      <4>1. PieceList(pieces')
        BY <2>1 DEF PieceList
      <4> QED
        BY <1>1, <2>1, <4>1, StillWellFormed
    <3>2. ~call'.cstr => Unopened'
      BY <1>1, <2>1, StillUnopened
    <3> QED
      BY <2>1, <3>1, <3>2 DEF CapturedSoFar
  <2>2. CASE /\ PieceList(pieces') /\ Within(pieces', at', balance')
             /\ \/ state' = "done" /\ balance' = 0 /\ pieces'[1].to = at'
                \/ state' = state /\ balance' > 0
    <3>1. at' \in 0..Size /\ balance' \in 0..Size
      <4>1. at' \in Start + 1..Size /\ balance' \in 0..at' /\ Start \in Nat
        BY <1>1, <2>2, StartIs DEF Within
      <4> QED
        BY <1>1, <4>1
    <3>2. WellFormed'
      BY <1>1, <2>2, <3>1, StillWellFormed
    <3>3. Within(pieces, at, balance)'
      BY <1>1, <2>2, StillWithin
    <3> QED
      BY <1>1, <2>2, <3>2, <3>3 DEF CapturedSoFar
  <2> QED
    BY <1>2, <2>1, <2>2
<1> QED
  BY <1>1, <1>3 DEF CutInv, SplitSoFar, IndexedSoFar, TrimsBoth, Done

LEMMA TrimStep == CutInv /\ TrimAll => CutInv'
<1> SUFFICES ASSUME CutInv, TrimAll PROVE CutInv'
  OBVIOUS
<1>1. /\ call.op = "trim" /\ text' = text /\ call' = call /\ at' = at /\ balance' = balance
      /\ state' = "done" /\ pieces' = <<Trim(Piece(0, Size))>>
      /\ WellFormed /\ Size \in Nat /\ at \in 0..Size /\ balance \in 0..Size
  BY SizeIs DEF CutInv, TrimAll, Running, Ended, WellFormed, TypeOK
<1> DEFINE p == Trim(Piece(0, Size))
<1>2. /\ Read(p) = Trimmed(Read(Piece(0, Size)))
      /\ p \in [from : 0..Size, to : 0..Size] /\ p.from <= p.to
  BY <1>1, TrimIs DEF WellFormed
<1>3. Read(Piece(0, Size)) = text
  <2>1. text \in Seq(Chars) /\ Size = Len(text)
    BY <1>1 DEF WellFormed, Size
  <2>2. SubSeq(text, 0 + 1, Size) = text
    BY <2>1
  <2> QED
    BY <2>2 DEF Read, Piece
<1> HIDE DEF p
<1>4. PieceList(<<p>>) /\ <<p>>[1] = p
  BY <1>2 DEF PieceList
<1>5. pieces' = <<p>>
  BY <1>1 DEF p
<1>6. WellFormed'
  BY <1>1, <1>4, <1>5, StillWellFormed
<1>7. Read(pieces[1])' = Trimmed(text)'
  <2>1. Read(p) = Trimmed(text)
    BY <1>2, <1>3
  <2>2. Trimmed(text)' = Trimmed(text)
    BY <1>1 DEF Trimmed
  <2>3. Read(pieces[1])' = Read(p)
    BY <1>1, <1>4, <1>5 DEF Read
  <2> QED
    BY <2>1, <2>2, <2>3
<1> QED
  BY <1>1, <1>6, <1>7 DEF CutInv, SplitSoFar, IndexedSoFar, CapturedSoFar, TrimsBoth, Done

LEMMA CutStill == CutInv /\ UNCHANGED vars => CutInv'
<1> SUFFICES ASSUME CutInv, UNCHANGED vars PROVE CutInv'
  OBVIOUS
<1>1. text' = text /\ call' = call /\ at' = at /\ pieces' = pieces /\ balance' = balance /\ state' = state
  BY DEF vars
<1>2. WellFormed /\ Size \in Nat /\ at \in 0..Size /\ balance \in 0..Size /\ PieceList(pieces)
      /\ state \in {"running", "done"}
  BY SizeIs DEF CutInv, WellFormed, TypeOK
<1>3. WellFormed'
  BY <1>1, <1>2, StillWellFormed
<1>4. SplitSoFar'
  <2>1. call.op = "split" => SplitUpTo(pieces', IF state' = "done" THEN Size + 1 ELSE at')
    BY <1>1 DEF CutInv, SplitSoFar, Upto
  <2>2. call.op = "split" => SplitUpTo(pieces, Upto)'
    BY <1>1, <2>1, StillSplit
  <2> QED
    BY <1>1, <2>2, InputStays DEF CutInv, SplitSoFar
<1>5. IndexedSoFar'
  <2>1. call.op = "index" => IndexUpTo(pieces', IF state' = "done" THEN Size + 1 ELSE at')
    BY <1>1 DEF CutInv, IndexedSoFar, Upto
  <2>2. call.op = "index" => IndexUpTo(pieces, Upto)'
    BY <1>1, <2>1, StillIndexed
  <2> QED
    BY <1>1, <2>2 DEF IndexedSoFar
<1>6. CapturedSoFar'
  <2>1. Unopened => Unopened'
    BY <1>1, StillUnopened
  <2>2. Within(pieces, at, balance) => Within(pieces, at, balance)'
    <3>1. Within(pieces, at, balance) => Within(pieces', at', balance')
      BY <1>1
    <3> QED
      BY <1>1, <3>1, StillWithin
  <2> QED
    BY <1>1, <2>1, <2>2 DEF CutInv, CapturedSoFar
<1>7. TrimsBoth'
  BY <1>1 DEF CutInv, TrimsBoth, Done, Read, Trimmed
<1> QED
  BY <1>3, <1>4, <1>5, <1>6, <1>7 DEF CutInv

LEMMA CutInvariance == Spec => []CutInv
<1>1. CutInv /\ [Next]_vars => CutInv'
  BY SplitStep, IndexStep, OpenedStep, BalancedStep, TrimStep, CutStill DEF Next
<1> QED
  BY <1>1, StartsWell, PTL DEF Spec

\* Every part of the text that a loop keeps lies within the text, whatever the call.
THEOREM TypeCorrect == Spec => []TypeOK
<1>1. CutInv => TypeOK
  BY DEF CutInv, WellFormed
<1> QED
  BY <1>1, CutInvariance, PTL

\* Trimming leaves what is between the first and the last that is no space; the splits
\* are what is between the separators, in order and none left out but those asked for;
\* the indices are all the places of the characters, in order: for every text, every
\* characters and options.
THEOREM CutsAreAsAsked == Spec => []CutsAsAsked
<1>1. CutInv => CutsAsAsked
  <2> SUFFICES ASSUME CutInv PROVE CutsAsAsked
    OBVIOUS
  <2>1. WellFormed /\ Size \in Nat
    BY SizeIs DEF CutInv
  <2>2. SplitsAreBetween
    <3> SUFFICES ASSUME Done("split")
        PROVE  /\ Len(pieces) = Cardinality(Wanted)
               /\ \A n \in Wanted : Read(pieces[Rank(n, Wanted)]) = Between(n)
      BY DEF SplitsAreBetween
    <3>1. SplitUpTo(pieces, Size + 1)
      BY DEF CutInv, SplitSoFar, Done, Upto
    <3>2. WantedTo(Size + 1) = Wanted
      <4>1. \A n \in Wanted : n < Size + 1
        BY <2>1, BeginsNat
      <4> QED
        BY <4>1 DEF WantedTo
    <3> QED
      BY <3>1, <3>2 DEF SplitUpTo
  <2>3. IndexesAll
    <3> SUFFICES ASSUME Done("index")
        PROVE  /\ Len(pieces) = Cardinality(PlacesOf(call.chars))
               /\ \A n \in PlacesOf(call.chars) :
                    pieces[Rank(n, PlacesOf(call.chars))] = Piece(n, n + 1)
      BY DEF IndexesAll
    <3>1. IndexUpTo(pieces, Size + 1)
      BY DEF CutInv, IndexedSoFar, Done, Upto
    <3>2. FoundTo(Size + 1) = PlacesOf(call.chars)
      <4>1. \A n \in PlacesOf(call.chars) : n < Size + 1
        BY <2>1 DEF PlacesOf
      <4> QED
        BY <4>1 DEF FoundTo
    <3> QED
      BY <3>1, <3>2 DEF IndexUpTo
  <2> QED
    BY <2>2, <2>3 DEF CutsAsAsked, CutInv
<1> QED
  BY <1>1, CutInvariance, PTL

\* What is captured runs from the first character that opens to the first that balances
\* it, for every text, offset and pair of characters, equal ones included; in a view
\* nothing is captured only where nothing balances.
THEOREM CapturesAreBalanced == Spec => []CapturesBalanced
<1>1. CutInv => CapturesBalanced
  <2> SUFFICES ASSUME CutInv, Done("capture")
      PROVE  LET ends == {n \in Start + 1..Size : Depth(Start, n) = 0}
             IN  IF pieces # <<>>
                 THEN pieces[1].from = Start /\ pieces[1].to \in ends
                      /\ \A n \in ends : n >= pieces[1].to
                 ELSE call.cstr \/ Starts = {} \/ ends = {}
    BY DEF CapturesBalanced, Starts, Start
  <2> DEFINE ends == {n \in Start + 1..Size : Depth(Start, n) = 0}
  <2>1. WellFormed /\ Size \in Nat /\ call.op = "capture" /\ state = "done"
    BY SizeIs DEF CutInv, Done
  <2>2. CASE pieces = <<>> /\ (~call.cstr => Unopened)
    <3>1. Unopened => Starts = {} \/ ends = {}
      <4>1. ASSUME Unopened, Starts # {}, NEW n \in ends PROVE FALSE
        <5>1. Depth(Start, n) > 0 /\ Depth(Start, n) = 0
          BY <4>1 DEF Unopened
        <5> QED
          BY <5>1
      <4> QED
        BY <4>1
    <3> HIDE DEF ends
    <3> QED
      BY <2>2, <3>1 DEF ends
  <2>3. CASE Within(pieces, at, balance) /\ balance = 0 /\ pieces[1].to = at
    <3>1. /\ Start \in Nat /\ at \in Start + 1..Size /\ Depth(Start, at) = 0
          /\ pieces # <<>> /\ pieces[1].from = Start
          /\ \A m \in Start + 1..at - 1 : Depth(Start, m) > 0
      <4>1. Start \in Nat
        BY <2>1, <2>3, StartIs DEF Within
      <4>2. pieces # <<>>
        BY <2>3 DEF Within
      <4> QED
        BY <2>3, <4>1, <4>2 DEF Within
    <3>2. \A n \in ends : n >= at
      <4> SUFFICES ASSUME NEW n \in ends, ~(n >= at) PROVE FALSE
        OBVIOUS
      <4>1. n \in Start + 1..at - 1 /\ Depth(Start, n) = 0
        BY <2>1, <3>1
      <4>2. Depth(Start, n) > 0
        BY <3>1, <4>1
      <4> QED
        BY <4>1, <4>2
    <3>3. at \in ends
      BY <3>1
    <3> HIDE DEF ends
    <3> QED
      BY <2>3, <3>1, <3>2, <3>3 DEF ends
  <2> QED
    BY <2>1, <2>2, <2>3 DEF CutInv, CapturedSoFar
<1> QED
  BY <1>1, CutInvariance, PTL

-----------------------------------------------------------------------------
(* Recursion over the places of a text, each time from one further on.     *)

IsLoop(f, low, top, more, glued, head, next, last) ==
  f = [n \in low..top |->
         IF n \notin more THEN last[n]
         ELSE IF n \in glued THEN head[n] \o f[next[n]] ELSE f[next[n]]]

Onward(low, top, more, next) == \A n \in more : n \in low..top => next[n] \in n + 1..top

\* What is in G where the recursion ends is in G on the way back.
Keeps(G, low, top, more, glued, head, last) ==
  /\ \A n \in low..top : n \notin more => last[n] \in G
  /\ \A n \in more : n \in low..top =>
       \A g \in G : (IF n \in glued THEN head[n] \o g ELSE g) \in G

LEMMA LoopExists ==
  ASSUME NEW low \in Nat, NEW top \in Nat, low <= top, NEW more, NEW glued, NEW head, NEW next, NEW last,
         Onward(low, top, more, next)
  PROVE  \E f : IsLoop(f, low, top, more, glued, head, next, last)
<1> DEFINE none == {k \in Nat : k <= top - low /\
                      ~\E f : IsLoop(f, top - k, top, more, glued, head, next, last)}
<1>1. ASSUME none # {} PROVE FALSE
  <2>1. PICK k \in none : \A j \in none : ~(<<j, k>> \in OpToRel(<, Nat))
    BY <1>1, WFMin, NatLessThanWellFounded
  <2>2. \A j \in none : ~(j < k)
    BY <2>1, Zenon DEF OpToRel
  <2> DEFINE m == top - k
  <2>3. /\ k \in Nat /\ m \in low..top
        /\ ~\E f : IsLoop(f, m, top, more, glued, head, next, last)
    OBVIOUS
  <2>4. \E f : \A n \in m + 1..top :
          f[n] = IF n \notin more THEN last[n]
                 ELSE IF n \in glued THEN head[n] \o f[next[n]] ELSE f[next[n]]
    <3>1. CASE k = 0
      <4>1. m + 1..top = {}
        BY <3>1
      <4> QED
        BY <4>1
    <3>2. CASE k # 0
      <4>1. k - 1 \in Nat /\ k - 1 <= top - low /\ k - 1 < k /\ top - (k - 1) = m + 1
        BY <2>3, <3>2
      <4>2. k - 1 \notin none
        BY <2>2, <4>1
      <4>3. PICK f : IsLoop(f, top - (k - 1), top, more, glued, head, next, last)
        BY <4>1, <4>2
      <4> HIDE DEF m
      <4>4. IsLoop(f, m + 1, top, more, glued, head, next, last)
        BY <4>1, <4>3
      <4> QED
        BY <4>4 DEF IsLoop
    <3> QED
      BY <3>1, <3>2
  <2>5. PICK f : \A n \in m + 1..top :
          f[n] = IF n \notin more THEN last[n]
                 ELSE IF n \in glued THEN head[n] \o f[next[n]] ELSE f[next[n]]
    BY <2>4
  <2> HIDE DEF m
  <2> DEFINE here == IF m \notin more THEN last[m]
                     ELSE IF m \in glued THEN head[m] \o f[next[m]] ELSE f[next[m]]
             g == [n \in m..top |-> IF n = m THEN here ELSE f[n]]
  <2>6. ASSUME NEW n \in m..top
        PROVE  g[n] = IF n \notin more THEN last[n]
                      ELSE IF n \in glued THEN head[n] \o g[next[n]] ELSE g[next[n]]
    <3>1. n \in more => next[n] \in m..top /\ next[n] # m /\ g[next[n]] = f[next[n]]
      <4> SUFFICES ASSUME n \in more
                   PROVE  next[n] \in m..top /\ next[n] # m /\ g[next[n]] = f[next[n]]
        OBVIOUS
      <4>1. next[n] \in n + 1..top
        BY <2>3 DEF Onward
      <4>2. next[n] \in m..top /\ next[n] # m
        BY <2>3, <4>1
      <4> HIDE DEF here
      <4> QED
        BY <4>2
    <3>2. CASE n = m
      <4>1. g[n] = here
        BY <3>2
      <4> HIDE DEF g
      <4> QED
        BY <3>1, <3>2, <4>1
    <3>3. CASE n # m
      <4>1. g[n] = f[n] /\ n \in m + 1..top
        BY <2>3, <3>3
      <4> HIDE DEF g
      <4> QED
        BY <2>5, <3>1, <4>1
    <3> QED
      BY <3>2, <3>3
  <2>7. IsLoop(g, m, top, more, glued, head, next, last)
    BY <2>6 DEF IsLoop
  <2> QED
    BY <2>3, <2>7
<1>2. top - low \in Nat /\ top - (top - low) = low
  OBVIOUS
<1>3. top - low \notin none
  BY <1>1
<1> QED
  BY <1>2, <1>3

LEMMA LoopGives ==
  ASSUME NEW low \in Nat, NEW top \in Nat, NEW more, NEW glued, NEW head, NEW next, NEW last,
         Onward(low, top, more, next),
         NEW f, IsLoop(f, low, top, more, glued, head, next, last),
         NEW G, Keeps(G, low, top, more, glued, head, last)
  PROVE  \A n \in low..top : f[n] \in G
<1> DEFINE none == {k \in Nat : top - k \in low..top /\ f[top - k] \notin G}
<1>1. ASSUME none # {} PROVE FALSE
  <2>1. PICK k \in none : \A j \in none : ~(<<j, k>> \in OpToRel(<, Nat))
    BY <1>1, WFMin, NatLessThanWellFounded
  <2>2. \A j \in none : ~(j < k)
    BY <2>1, Zenon DEF OpToRel
  <2> DEFINE m == top - k
  <2>3. k \in Nat /\ m \in low..top /\ f[m] \notin G
    OBVIOUS
  <2>4. f[m] = IF m \notin more THEN last[m]
               ELSE IF m \in glued THEN head[m] \o f[next[m]] ELSE f[next[m]]
    BY <2>3 DEF IsLoop
  <2>5. m \in more
    BY <2>3, <2>4 DEF Keeps
  <2>6. next[m] \in m + 1..top
    BY <2>3, <2>5 DEF Onward
  <2>7. f[next[m]] \in G
    <3> DEFINE j == top - next[m]
    <3>1. j \in Nat /\ j < k /\ top - j = next[m] /\ next[m] \in low..top
      BY <2>3, <2>6
    <3> QED
      BY <2>2, <3>1
  <2> HIDE DEF m
  <2>8. (IF m \in glued THEN head[m] \o f[next[m]] ELSE f[next[m]]) \in G
    BY <2>3, <2>5, <2>7 DEF Keeps
  <2> QED
    BY <2>3, <2>4, <2>5, <2>8
<1> SUFFICES ASSUME NEW n \in low..top, f[n] \notin G PROVE FALSE
  OBVIOUS
<1>2. top - n \in Nat /\ top - (top - n) = n
  OBVIOUS
<1> QED
  BY <1>1, <1>2

-----------------------------------------------------------------------------
(* Texts, and the first place of a character in them.                      *)

LEMMA LeastIs ==
  ASSUME NEW places \in SUBSET Nat
  PROVE  \/ places = {} /\ Least(places) = None
         \/ Least(places) \in places /\ \A n \in places : Least(places) <= n
<1>1. CASE places = {}
  BY <1>1 DEF Least
<1>2. CASE places # {}
  <2>1. PICK m \in places : \A n \in places : ~(<<n, m>> \in OpToRel(<, Nat))
    BY <1>2, WFMin, NatLessThanWellFounded
  <2>2. \A n \in places : ~(n < m)
    BY <2>1, Zenon DEF OpToRel
  <2>3. \A n \in places : m <= n
    BY <2>2
  <2>4. Min(places) \in places /\ \A n \in places : Min(places) <= n
    BY <2>3 DEF Min
  <2> QED
    BY <1>2, <2>4 DEF Least
<1> QED
  BY <1>1, <1>2

LEMMA OffsetIs ==
  ASSUME NEW S, NEW s \in Seq(S), NEW n \in 0..Len(s)
  PROVE  /\ Offset(s, n) \in Seq(S) /\ Len(Offset(s, n)) = Len(s) - n
         /\ \A m \in 1..Len(s) - n : Offset(s, n)[m] = s[n + m]
BY DEF Offset

LEMMA OffsetBehind ==
  ASSUME NEW S, NEW s \in Seq(S), NEW n \in Nat, n >= Len(s)
  PROVE  Offset(s, n) = <<>>
BY DEF Offset

LEMMA SliceIs ==
  ASSUME NEW S, NEW s \in Seq(S), NEW n \in 0..Len(s)
  PROVE  /\ Slice(s, 0, n) = SubSeq(s, 1, n)
         /\ SubSeq(s, 1, n) \in Seq(S) /\ Len(SubSeq(s, 1, n)) = n
         /\ \A m \in 1..n : SubSeq(s, 1, n)[m] = s[m]
BY DEF Slice, None

LEMMA SliceAll ==
  ASSUME NEW S, NEW s \in Seq(S)
  PROVE  Slice(s, 0, None) = s
BY DEF Slice

LEMMA CharIndexIs ==
  ASSUME NEW S, NEW s \in Seq(S), NEW c
  PROVE  \/ CharIndex(s, c) = None /\ \A m \in 1..Len(s) : s[m] # c
         \/ /\ CharIndex(s, c) \in 0..Len(s) - 1 /\ s[CharIndex(s, c) + 1] = c
            /\ \A m \in 1..CharIndex(s, c) : s[m] # c
<1> DEFINE places == {n \in 0..Len(s) - 1 : s[n + 1] \in {c}}
<1>1. places \in SUBSET Nat /\ CharIndex(s, c) = Least(places)
  BY DEF CharIndex, FirstCharIndex
<1>2. \A m \in 1..Len(s) : s[m] = c <=> m - 1 \in places
  <2> SUFFICES ASSUME NEW m \in 1..Len(s) PROVE s[m] = c <=> m - 1 \in places
    OBVIOUS
  <2>1. m - 1 \in 0..Len(s) - 1 /\ m - 1 + 1 = m
    OBVIOUS
  <2> QED
    BY <2>1
<1>3. \A n \in places : n \in 0..Len(s) - 1 /\ s[n + 1] = c
  OBVIOUS
<1> HIDE DEF places
<1> DEFINE first == Least(places)
<1>4. CASE places = {} /\ first = None
  BY <1>1, <1>2, <1>4
<1>5. CASE first \in places /\ \A n \in places : first <= n
  <2>1. first \in 0..Len(s) - 1 /\ s[first + 1] = c
    BY <1>3, <1>5
  <2>2. ASSUME NEW m \in 1..first, s[m] = c PROVE FALSE
    <3>1. m \in 1..Len(s)
      BY <2>1
    <3>2. m - 1 \in places
      BY <1>2, <2>2, <3>1
    <3> QED
      BY <1>5, <2>1, <3>2
  <2> QED
    BY <1>1, <2>1, <2>2
<1> QED
  BY <1>1, <1>4, <1>5, LeastIs

\* The same behind the first n characters.
LEMMA NextCharIs ==
  ASSUME NEW S, NEW s \in Seq(S), NEW n \in 0..Len(s), NEW c,
         NEW idx, idx = CharIndex(Offset(s, n), c)
  PROVE  \/ /\ idx = None /\ \A m \in n + 1..Len(s) : s[m] # c
            /\ Slice(Offset(s, n), 0, idx) = Offset(s, n)
         \/ /\ idx \in Nat /\ n + idx < Len(s) /\ s[n + idx + 1] = c
            /\ \A m \in n + 1..n + idx : s[m] # c
            /\ Slice(Offset(s, n), 0, idx) \in Seq(S) /\ Len(Slice(Offset(s, n), 0, idx)) = idx
            /\ \A m \in 1..idx : Slice(Offset(s, n), 0, idx)[m] = s[n + m]
<1> DEFINE rest == Offset(s, n)
<1>1. /\ rest \in Seq(S) /\ Len(rest) = Len(s) - n
      /\ \A m \in 1..Len(s) - n : rest[m] = s[n + m]
  BY OffsetIs
<1>2. idx = CharIndex(rest, c)
  OBVIOUS
<1> HIDE DEF rest
<1>3. CASE idx = None /\ \A m \in 1..Len(rest) : rest[m] # c
  <2>1. ASSUME NEW m \in n + 1..Len(s) PROVE s[m] # c
    <3>1. m - n \in 1..Len(s) - n /\ n + (m - n) = m
      OBVIOUS
    <3> QED
      BY <1>1, <1>3, <3>1
  <2>2. Slice(rest, 0, None) = rest
    BY <1>1, SliceAll
  <2> QED
    BY <1>3, <2>1, <2>2 DEF rest
<1>4. CASE /\ idx \in 0..Len(rest) - 1 /\ rest[idx + 1] = c
           /\ \A m \in 1..idx : rest[m] # c
  <2>1. idx \in Nat /\ n + idx < Len(s) /\ idx + 1 \in 1..Len(s) - n /\ n + (idx + 1) = n + idx + 1
        /\ idx \in 0..Len(rest)
    BY <1>1, <1>4
  <2>2. s[n + idx + 1] = c
    BY <1>1, <1>4, <2>1
  <2>3. ASSUME NEW m \in n + 1..n + idx PROVE s[m] # c
    <3>1. m - n \in 1..idx /\ m - n \in 1..Len(s) - n /\ n + (m - n) = m
      BY <2>1
    <3> QED
      BY <1>1, <1>4, <3>1
  <2> DEFINE cut == Slice(rest, 0, idx)
  <2>4. /\ cut \in Seq(S) /\ Len(cut) = idx /\ \A m \in 1..idx : cut[m] = rest[m]
    <3>1. rest \in Seq(S) /\ idx \in 0..Len(rest)
      BY <1>1, <2>1
    <3>2. /\ cut = SubSeq(rest, 1, idx)
          /\ SubSeq(rest, 1, idx) \in Seq(S) /\ Len(SubSeq(rest, 1, idx)) = idx
          /\ \A m \in 1..idx : SubSeq(rest, 1, idx)[m] = rest[m]
      BY <3>1, SliceIs
    <3> HIDE DEF cut
    <3> QED
      BY <3>2
  <2> HIDE DEF cut
  <2>5. \A m \in 1..idx : cut[m] = s[n + m]
    <3> SUFFICES ASSUME NEW m \in 1..idx PROVE cut[m] = s[n + m]
      OBVIOUS
    <3>1. m \in 1..Len(s) - n
      BY <2>1
    <3> QED
      BY <1>1, <2>4, <3>1
  <2> QED
    BY <2>1, <2>2, <2>3, <2>4, <2>5 DEF rest, cut
<1> QED
  BY <1>1, <1>2, <1>3, <1>4, CharIndexIs

\* A word in a text, from the place n on.
At(s, n, word) == n + Len(word) <= Len(s) /\ \A m \in 1..Len(word) : s[n + m] = word[m]

LEMMA StartsIs ==
  ASSUME NEW S, NEW s \in Seq(S), NEW T, NEW word \in Seq(T), NEW n \in 0..Len(s)
  PROVE  StartsWith(Offset(s, n), word) <=> At(s, n, word)
<1> DEFINE rest == Offset(s, n)
<1>1. /\ rest \in Seq(S) /\ Len(rest) = Len(s) - n
      /\ \A m \in 1..Len(s) - n : rest[m] = s[n + m]
  BY OffsetIs
<1> HIDE DEF rest
<1>2. StartsWith(rest, word) <=> Len(word) <= Len(rest) /\ \A m \in 1..Len(word) : word[m] = rest[m]
  BY <1>1 DEF StartsWith, IsPrefix
<1>3. Len(word) \in Nat /\ Len(s) \in Nat
  BY LenProperties
<1>4. Len(word) <= Len(s) - n => \A m \in 1..Len(word) : m \in 1..Len(s) - n
  BY <1>3
<1>5. StartsWith(rest, word) <=> At(s, n, word)
  <2>1. CASE Len(word) <= Len(s) - n
    <3>1. \A m \in 1..Len(word) : rest[m] = s[n + m]
      BY <1>1, <1>4, <2>1
    <3>2. n + Len(word) <= Len(s)
      BY <1>3, <2>1
    <3> QED
      BY <1>1, <1>2, <2>1, <3>1, <3>2 DEF At
  <2>2. CASE ~(Len(word) <= Len(s) - n)
    <3>1. ~(n + Len(word) <= Len(s))
      BY <1>3, <2>2
    <3> QED
      BY <1>1, <1>2, <2>2, <3>1 DEF At
  <2> QED
    BY <2>1, <2>2
<1> QED
  BY <1>5 DEF rest

-----------------------------------------------------------------------------

-----------------------------------------------------------------------------
(* Splitting by a character.                                               *)

IsCharSplits(f, s, c, options) ==
  f = [n \in 0..Len(s) + 1 |->
         Kept(Slice(Offset(s, n), 0, CharIndex(Offset(s, n), c)), options)
           \o (IF CharIndex(Offset(s, n), c) = None THEN <<>>
               ELSE f[n + CharIndex(Offset(s, n), c) + 1])]

\* From the place n on: what is up to the first c, and what is behind it.
Splitting(f, s, c, options) ==
  \A n \in 0..Len(s) :
    /\ (\A m \in n + 1..Len(s) : s[m] # c) => f[n] = Kept(Offset(s, n), options)
    /\ \A m \in n..Len(s) - 1 :
         s[m + 1] = c /\ (\A k \in n + 1..m : s[k] # c)
           => f[n] = Kept(SubSeq(s, n + 1, m), options) \o f[m + 1]

Untrimmed == {NoOptions, RemoveEmpty}

LEMMA KeptIs ==
  ASSUME NEW S, NEW s \in Seq(S), NEW options \in Untrimmed
  PROVE  /\ Kept(s, options) \in Seq(Seq(S))
         /\ Kept(s, options) = IF options = RemoveEmpty /\ s = <<>> THEN <<>> ELSE <<s>>
<1>1. NoOptions # RemoveEmpty
  BY DEF NoOptions, RemoveEmpty
<1>2. Kept(s, options) = IF options = RemoveEmpty /\ s = <<>> THEN <<>> ELSE <<s>>
  BY <1>1 DEF Kept, Untrimmed, NoOptions, RemoveEmpty
<1>3. <<>> \in Seq(Seq(S)) /\ <<s>> \in Seq(Seq(S))
  OBVIOUS
<1> QED
  BY <1>2, <1>3

LEMMA CharSplitsExist ==
  ASSUME NEW S, NEW s \in Seq(S), NEW c, NEW options \in Untrimmed
  PROVE  /\ \E f : IsCharSplits(f, s, c, options)
         /\ \A f : IsCharSplits(f, s, c, options) => \A n \in 0..Len(s) : f[n] \in Seq(Seq(S))
<1> DEFINE top == Len(s) + 1
           index(n) == CharIndex(Offset(s, n), c)
           cut(n) == Slice(Offset(s, n), 0, index(n))
           more == {n \in 0..top : index(n) # None}
           next == [n \in 0..top |-> n + index(n) + 1]
           head == [n \in 0..top |-> Kept(cut(n), options)]
           G == Seq(Seq(S))
<1>1. Len(s) \in Nat /\ top \in Nat /\ 0 \in Nat /\ 0 <= top
  BY LenProperties
<1>2. ASSUME NEW n \in 0..top
      PROVE  cut(n) \in Seq(S) /\ (index(n) # None => index(n) \in Nat /\ n + index(n) < Len(s))
  <2>1. CASE n <= Len(s)
    <3>1. n \in 0..Len(s)
      BY <1>1, <2>1
    <3>2. Offset(s, n) \in Seq(S)
      BY <3>1, OffsetIs
    <3> DEFINE idx == index(n)
    <3>3. idx = CharIndex(Offset(s, n), c)
      OBVIOUS
    <3> HIDE DEF idx
    <3>4. Slice(Offset(s, n), 0, idx) \in Seq(S) /\ (idx # None => idx \in Nat /\ n + idx < Len(s))
      BY <3>1, <3>2, <3>3, NextCharIs
    <3> QED
      BY <3>4 DEF idx
  <2>2. CASE ~(n <= Len(s))
    <3>1. Offset(s, n) = <<>>
      BY <1>1, <2>2, OffsetBehind
    <3>2. <<>> \in Seq(S) /\ Len(<<>>) = 0
      OBVIOUS
    <3>3. CharIndex(<<>>, c) = None
      BY <3>2 DEF CharIndex, FirstCharIndex, Least
    <3>4. Slice(<<>>, 0, None) = <<>>
      BY <3>2, SliceAll
    <3> QED
      BY <3>1, <3>2, <3>3, <3>4
  <2> QED
    BY <2>1, <2>2
<1>3. \A n \in 0..top : Kept(cut(n), options) \in G
  <2> SUFFICES ASSUME NEW n \in 0..top PROVE Kept(cut(n), options) \in G
    OBVIOUS
  <2>1. cut(n) \in Seq(S)
    BY <1>2
  <2> HIDE DEF cut
  <2> QED
    BY <2>1, KeptIs
<1>4. Onward(0, top, more, next)
  <2> SUFFICES ASSUME NEW n \in more PROVE next[n] \in n + 1..top
    BY DEF Onward
  <2>1. n \in 0..top /\ index(n) \in Nat /\ n + index(n) < Len(s)
    BY <1>2
  <2>2. next[n] = n + index(n) + 1
    BY <2>1
  <2> HIDE DEF next, index
  <2> QED
    BY <1>1, <2>1, <2>2
<1>5. ASSUME NEW f
      PROVE  IsLoop(f, 0, top, more, more, head, next, head) <=> IsCharSplits(f, s, c, options)
  <2> DEFINE value(n) == IF n \notin more THEN head[n]
                         ELSE IF n \in more THEN head[n] \o f[next[n]] ELSE f[next[n]]
             other(n) == Kept(cut(n), options) \o (IF index(n) = None THEN <<>> ELSE f[n + index(n) + 1])
  <2>1. ASSUME NEW n \in 0..top PROVE value(n) = other(n)
    <3>1. Kept(cut(n), options) \in Seq(Seq(S))
      BY <1>3
    <3> HIDE DEF cut
    <3>2. Kept(cut(n), options) \o <<>> = Kept(cut(n), options)
      BY <3>1, ConcatEmptySeq
    <3>3. head[n] = Kept(cut(n), options) /\ next[n] = n + index(n) + 1 /\ (n \in more <=> index(n) # None)
      OBVIOUS
    <3> HIDE DEF index, head, next, more
    <3> QED
      BY <3>2, <3>3
  <2>2. IsLoop(f, 0, top, more, more, head, next, head) <=> f = [n \in 0..top |-> value(n)]
    BY DEF IsLoop
  <2>3. IsCharSplits(f, s, c, options) <=> f = [n \in 0..top |-> other(n)]
    BY DEF IsCharSplits
  <2> HIDE DEF value, other
  <2>4. [n \in 0..top |-> value(n)] = [n \in 0..top |-> other(n)]
    BY <2>1
  <2> QED
    BY <2>2, <2>3, <2>4
<1>6. Keeps(G, 0, top, more, more, head, head)
  <2>1. ASSUME NEW n \in 0..top PROVE head[n] \in G /\ \A g \in G : head[n] \o g \in G
    <3>1. head[n] \in G
      BY <1>3
    <3> HIDE DEF head
    <3> QED
      BY <3>1, ConcatProperties
  <2> HIDE DEF more, head, G, top
  <2> QED
    BY <2>1 DEF Keeps
<1> HIDE DEF more, next, head, G
<1>7. \E f : IsLoop(f, 0, top, more, more, head, next, head)
  BY <1>1, <1>4, LoopExists
<1>8. ASSUME NEW f, IsCharSplits(f, s, c, options) PROVE \A n \in 0..Len(s) : f[n] \in G
  <2>1. IsLoop(f, 0, top, more, more, head, next, head)
    BY <1>5, <1>8
  <2>2. \A n \in 0..top : f[n] \in G
    BY <1>1, <1>4, <1>6, <2>1, LoopGives
  <2> QED
    BY <1>1, <2>2
<1> QED
  BY <1>5, <1>7, <1>8 DEF G

LEMMA SplittingIs ==
  ASSUME NEW S, NEW s \in Seq(S), NEW c, NEW options \in Untrimmed,
         NEW f, IsCharSplits(f, s, c, options)
  PROVE  Splitting(f, s, c, options)
<1> SUFFICES ASSUME NEW n \in 0..Len(s)
             PROVE  /\ (\A m \in n + 1..Len(s) : s[m] # c) => f[n] = Kept(Offset(s, n), options)
                    /\ \A m \in n..Len(s) - 1 :
                         s[m + 1] = c /\ (\A k \in n + 1..m : s[k] # c)
                           => f[n] = Kept(SubSeq(s, n + 1, m), options) \o f[m + 1]
  BY DEF Splitting
<1> DEFINE idx == CharIndex(Offset(s, n), c)
           cut == Slice(Offset(s, n), 0, idx)
<1>1. Len(s) \in Nat /\ n \in 0..Len(s) + 1
  BY LenProperties
<1>2. f[n] = Kept(cut, options) \o (IF idx = None THEN <<>> ELSE f[n + idx + 1])
  BY <1>1 DEF IsCharSplits
<1>3. idx = CharIndex(Offset(s, n), c) /\ cut = Slice(Offset(s, n), 0, idx) /\ Offset(s, n) \in Seq(S)
  BY OffsetIs
<1> HIDE DEF idx
<1>4. \/ /\ idx = None /\ \A m \in n + 1..Len(s) : s[m] # c
         /\ cut = Offset(s, n)
      \/ /\ idx \in Nat /\ n + idx < Len(s) /\ s[n + idx + 1] = c
         /\ \A m \in n + 1..n + idx : s[m] # c
         /\ cut \in Seq(S) /\ Len(cut) = idx
         /\ \A m \in 1..idx : cut[m] = s[n + m]
  BY <1>3, NextCharIs
<1> HIDE DEF cut
<1>5. CASE idx = None
  <2>1. Kept(Offset(s, n), options) \o <<>> = Kept(Offset(s, n), options)
    BY <1>3, KeptIs, ConcatEmptySeq
  <2>2. f[n] = Kept(Offset(s, n), options)
    BY <1>2, <1>4, <1>5, <2>1 DEF None
  <2>3. \A m \in n + 1..Len(s) : s[m] # c
    BY <1>4, <1>5 DEF None
  <2>4. \A m \in n..Len(s) - 1 : m + 1 \in n + 1..Len(s)
    BY <1>1
  <2> QED
    BY <2>2, <2>3, <2>4
<1>6. CASE idx # None
  <2>1. /\ idx \in Nat /\ n + idx < Len(s) /\ s[n + idx + 1] = c
        /\ \A m \in n + 1..n + idx : s[m] # c
        /\ cut \in Seq(S) /\ Len(cut) = idx
        /\ \A m \in 1..idx : cut[m] = s[n + m]
    BY <1>4, <1>6
  <2>2. ~\A m \in n + 1..Len(s) : s[m] # c
    <3>1. n + idx + 1 \in n + 1..Len(s)
      BY <1>1, <2>1
    <3> QED
      BY <2>1, <3>1
  <2>3. ASSUME NEW m \in n..Len(s) - 1, s[m + 1] = c, \A k \in n + 1..m : s[k] # c
        PROVE  f[n] = Kept(SubSeq(s, n + 1, m), options) \o f[m + 1]
    <3>1. m = n + idx
      <4>1. CASE m < n + idx
        <5>1. m + 1 \in n + 1..n + idx
          BY <1>1, <2>1, <4>1
        <5> QED
          BY <2>1, <2>3, <5>1
      <4>2. CASE m > n + idx
        <5>1. n + idx + 1 \in n + 1..m
          BY <1>1, <2>1, <4>2
        <5> QED
          BY <2>1, <2>3, <5>1
      <4> QED
        BY <2>1, <4>1, <4>2
    <3>2. /\ SubSeq(s, n + 1, m) \in Seq(S) /\ Len(SubSeq(s, n + 1, m)) = idx
          /\ \A k \in 1..idx : SubSeq(s, n + 1, m)[k] = s[n + k]
      BY <1>1, <2>1, <3>1
    <3>3. cut = SubSeq(s, n + 1, m)
      <4> DEFINE part == SubSeq(s, n + 1, m)
      <4> HIDE DEF part
      <4>1. part \in Seq(S) /\ Len(part) = idx /\ \A k \in 1..idx : part[k] = s[n + k]
        BY <3>2 DEF part
      <4>2. Len(cut) = Len(part) /\ \A k \in 1..Len(cut) : cut[k] = part[k]
        BY <2>1, <4>1
      <4>3. cut = part
        BY <2>1, <4>1, <4>2, SeqEqual
      <4> QED
        BY <4>3 DEF part
    <3> QED
      BY <1>2, <1>6, <3>1, <3>3
  <2> QED
    BY <2>2, <2>3
<1> QED
  BY <1>5, <1>6

LEMMA SplitByCharIs ==
  ASSUME NEW S, NEW s \in Seq(S), NEW c, NEW options \in Untrimmed
  PROVE  \E f : /\ f[0] = SplitByChar(s, c, options)
                /\ \A n \in 0..Len(s) : f[n] \in Seq(Seq(S))
                /\ Splitting(f, s, c, options)
<1> DEFINE from == CHOOSE f : IsCharSplits(f, s, c, options)
<1>1. SplitByChar(s, c, options) = from[0]
  BY DEF SplitByChar, Splits, IsCharSplits
<1>2. IsCharSplits(from, s, c, options)
  BY CharSplitsExist
<1> HIDE DEF from
<1> QED
  BY <1>1, <1>2, CharSplitsExist, SplittingIs

\* The text s from n on is the text t from m on.
Alike(s, n, t, m) == Len(s) - n = Len(t) - m /\ \A k \in 1..Len(s) - n : s[n + k] = t[m + k]

SameFrom(f, s, g, t) ==
  \A n \in 0..Len(s), m \in 0..Len(t) : Alike(s, n, t, m) => f[n] = g[m]

\* Two texts are split alike as far as they are alike.
LEMMA SplitsAlike ==
  ASSUME NEW S, NEW s \in Seq(S), NEW t \in Seq(S), NEW c, NEW options \in Untrimmed,
         NEW f, Splitting(f, s, c, options), NEW g, Splitting(g, t, c, options)
  PROVE  SameFrom(f, s, g, t)
<1> SUFFICES ASSUME NEW n \in 0..Len(s), NEW m \in 0..Len(t), Alike(s, n, t, m)
             PROVE  f[n] = g[m]
  BY DEF SameFrom
<1> DEFINE bad == {k \in Nat : \E p \in 0..Len(s), q \in 0..Len(t) :
                      Len(s) - p = k /\ Alike(s, p, t, q) /\ f[p] # g[q]}
<1>1. ASSUME bad # {} PROVE FALSE
  <2>1. PICK k \in bad : \A j \in bad : ~(<<j, k>> \in OpToRel(<, Nat))
    BY <1>1, WFMin, NatLessThanWellFounded
  <2>2. \A j \in bad : ~(j < k)
    BY <2>1, Zenon DEF OpToRel
  <2>3. PICK p \in 0..Len(s), q \in 0..Len(t) :
          Len(s) - p = k /\ Alike(s, p, t, q) /\ f[p] # g[q]
    OBVIOUS
  <2>4. Len(s) \in Nat /\ Len(t) \in Nat /\ Len(t) - q = k /\ k \in Nat
    BY <2>3, LenProperties DEF Alike
  <2>5. \A j \in 1..k : s[p + j] = t[q + j]
    BY <2>3 DEF Alike
  <2>6. CASE \A j \in 1..k : s[p + j] # c
    <3>1. \A j \in p + 1..Len(s) : s[j] # c
      <4> SUFFICES ASSUME NEW j \in p + 1..Len(s) PROVE s[j] # c
        OBVIOUS
      <4>1. j - p \in 1..k /\ p + (j - p) = j
        BY <2>3, <2>4
      <4> QED
        BY <2>6, <4>1
    <3>2. \A j \in q + 1..Len(t) : t[j] # c
      <4> SUFFICES ASSUME NEW j \in q + 1..Len(t) PROVE t[j] # c
        OBVIOUS
      <4>1. j - q \in 1..k /\ q + (j - q) = j
        BY <2>3, <2>4
      <4> QED
        BY <2>5, <2>6, <4>1
    <3>3. Offset(s, p) = Offset(t, q)
      <4> DEFINE a == Offset(s, p)
                 b == Offset(t, q)
      <4>1. /\ a \in Seq(S) /\ Len(a) = k /\ \A j \in 1..k : a[j] = s[p + j]
            /\ b \in Seq(S) /\ Len(b) = k /\ \A j \in 1..k : b[j] = t[q + j]
        <5>1. a \in Seq(S) /\ Len(a) = Len(s) - p /\ \A j \in 1..Len(s) - p : a[j] = s[p + j]
          BY OffsetIs
        <5>2. b \in Seq(S) /\ Len(b) = Len(t) - q /\ \A j \in 1..Len(t) - q : b[j] = t[q + j]
          BY OffsetIs
        <5> QED
          BY <2>3, <2>4, <5>1, <5>2
      <4> HIDE DEF a, b
      <4>2. Len(a) = Len(b) /\ \A j \in 1..Len(a) : a[j] = b[j]
        BY <2>5, <4>1
      <4>3. a = b
        BY <4>1, <4>2, SeqEqual
      <4> QED
        BY <4>3 DEF a, b
    <3> QED
      BY <2>3, <3>1, <3>2, <3>3 DEF Splitting
  <2>7. CASE ~\A j \in 1..k : s[p + j] # c
    <3> DEFINE here == {j \in 1..k : s[p + j] = c}
    <3>1. here # {} /\ \A j \in here : j \in Nat
      <4>1. PICK j \in 1..k : s[p + j] = c
        BY <2>7
      <4>2. j \in here
        BY <4>1
      <4>3. \A j2 \in 1..k : j2 \in Nat
        BY <2>4
      <4> QED
        BY <4>2, <4>3
    <3> DEFINE e == Min(here)
    <3>2. e \in here /\ \A j \in here : e <= j
      BY <3>1, MinIsIn
    <3> HIDE DEF e
    <3>3. e \in 1..k /\ s[p + e] = c /\ t[q + e] = c
      BY <2>5, <3>2
    <3>4. \A j \in 1..e - 1 : s[p + j] # c /\ t[q + j] # c
      <4> SUFFICES ASSUME NEW j \in 1..e - 1 PROVE s[p + j] # c /\ t[q + j] # c
        OBVIOUS
      <4>1. j \in 1..k /\ ~(e <= j)
        BY <2>4, <3>3
      <4>2. j \notin here
        BY <3>2, <4>1
      <4> QED
        BY <2>5, <4>1, <4>2
    <3> HIDE DEF here
    <3> DEFINE x == p + e - 1
               y == q + e - 1
    <3>5. /\ x \in p..Len(s) - 1 /\ y \in q..Len(t) - 1
          /\ x + 1 = p + e /\ y + 1 = q + e
      BY <2>3, <2>4, <3>3
    <3>6. \A j \in p + 1..x : s[j] # c
      <4> SUFFICES ASSUME NEW j \in p + 1..x PROVE s[j] # c
        OBVIOUS
      <4>1. j - p \in 1..e - 1 /\ p + (j - p) = j
        BY <3>3
      <4> QED
        BY <3>4, <4>1
    <3>7. \A j \in q + 1..y : t[j] # c
      <4> SUFFICES ASSUME NEW j \in q + 1..y PROVE t[j] # c
        OBVIOUS
      <4>1. j - q \in 1..e - 1 /\ q + (j - q) = j
        BY <3>3
      <4> QED
        BY <3>4, <4>1
    <3>8. SubSeq(s, p + 1, x) = SubSeq(t, q + 1, y)
      <4> DEFINE a == SubSeq(s, p + 1, x)
                 b == SubSeq(t, q + 1, y)
      <4>1. a \in Seq(S) /\ Len(a) = e - 1 /\ \A j \in 1..e - 1 : a[j] = s[p + j]
        BY <2>4, <3>3, <3>5
      <4>2. b \in Seq(S) /\ Len(b) = e - 1 /\ \A j \in 1..e - 1 : b[j] = t[q + j]
        BY <2>4, <3>3, <3>5
      <4>3. \A j \in 1..e - 1 : j \in 1..k
        BY <2>4, <3>3
      <4> HIDE DEF a, b
      <4>4. Len(a) = Len(b) /\ \A j \in 1..Len(a) : a[j] = b[j]
        BY <2>5, <4>1, <4>2, <4>3
      <4>5. a = b
        BY <4>1, <4>2, <4>4, SeqEqual
      <4> QED
        BY <4>5 DEF a, b
    <3>9. f[x + 1] = g[y + 1]
      <4>1. x + 1 \in 0..Len(s) /\ y + 1 \in 0..Len(t) /\ k - e \in Nat /\ k - e < k
            /\ Len(s) - (x + 1) = k - e /\ Len(t) - (y + 1) = k - e
        BY <2>3, <2>4, <3>3, <3>5
      <4>2. \A j \in 1..k - e : s[x + 1 + j] = t[y + 1 + j]
        <5> SUFFICES ASSUME NEW j \in 1..k - e PROVE s[x + 1 + j] = t[y + 1 + j]
          OBVIOUS
        <5>1. e + j \in 1..k /\ p + (e + j) = x + 1 + j /\ q + (e + j) = y + 1 + j
          BY <2>4, <3>3, <3>5
        <5> QED
          BY <2>5, <5>1
      <4>3. Alike(s, x + 1, t, y + 1)
        BY <4>1, <4>2 DEF Alike
      <4>4. k - e \notin bad
        BY <2>2, <4>1
      <4> HIDE DEF x, y
      <4> QED
        BY <4>1, <4>3, <4>4
    <3> HIDE DEF x, y
    <3>10. f[p] = Kept(SubSeq(s, p + 1, x), options) \o f[x + 1]
      BY <2>3, <3>3, <3>5, <3>6 DEF Splitting
    <3>11. g[q] = Kept(SubSeq(t, q + 1, y), options) \o g[y + 1]
      BY <2>3, <3>3, <3>5, <3>7 DEF Splitting
    <3> QED
      BY <2>3, <3>8, <3>9, <3>10, <3>11
  <2> QED
    BY <2>6, <2>7
<1>2. Len(s) - n \in Nat
  BY LenProperties
<1> QED
  BY <1>1, <1>2

Without(s, c) == \A m \in 1..Len(s) : s[m] # c

LEMMA SplitNone ==
  ASSUME NEW S, NEW s \in Seq(S), NEW c, NEW options \in Untrimmed, Without(s, c)
  PROVE  SplitByChar(s, c, options) = Kept(s, options)
<1>1. PICK f : f[0] = SplitByChar(s, c, options) /\ Splitting(f, s, c, options)
  BY SplitByCharIs
<1>2. 0 \in 0..Len(s) /\ \A m \in 0 + 1..Len(s) : s[m] # c
  BY LenProperties DEF Without
<1>3. Offset(s, 0) = s
  BY SubSeqFull DEF Offset
<1>4. f[0] = Kept(Offset(s, 0), options)
  BY <1>1, <1>2 DEF Splitting
<1> QED
  BY <1>1, <1>3, <1>4

LEMMA SplitType ==
  ASSUME NEW S, NEW s \in Seq(S), NEW c, NEW options \in Untrimmed
  PROVE  SplitByChar(s, c, options) \in Seq(Seq(S))
<1>1. 0 \in 0..Len(s)
  BY LenProperties
<1> QED
  BY <1>1, SplitByCharIs

\* A text with a separator in it.
Around(a, c, b) == a \o <<c>> \o b
IsAround(s, a, c, b) ==
  /\ Len(s) = Len(a) + 1 + Len(b) /\ Len(a) \in Nat /\ Len(b) \in Nat
  /\ s[Len(a) + 1] = c
  /\ \A n \in 1..Len(a) : s[n] = a[n]
  /\ \A n \in 1..Len(b) : s[Len(a) + 1 + n] = b[n]

LEMMA AroundIs ==
  ASSUME NEW S, NEW a \in Seq(S), NEW b \in Seq(S), NEW c \in S, NEW s, s = Around(a, c, b)
  PROVE  s \in Seq(S) /\ IsAround(s, a, c, b)
<1>1. a \o <<c>> \in Seq(S) /\ Len(a \o <<c>>) = Len(a) + 1 /\ Len(a) \in Nat /\ Len(b) \in Nat
      /\ (a \o <<c>>)[Len(a) + 1] = c /\ \A n \in 1..Len(a) : (a \o <<c>>)[n] = a[n]
  OBVIOUS
<1> DEFINE h == a \o <<c>>
<1> HIDE DEF h
<1>2. h \in Seq(S) /\ Len(h) = Len(a) + 1 /\ h[Len(a) + 1] = c /\ \A n \in 1..Len(a) : h[n] = a[n]
  BY <1>1 DEF h
<1>3. /\ h \o b \in Seq(S) /\ Len(h \o b) = Len(a) + 1 + Len(b)
      /\ \A n \in 1..Len(a) + 1 : (h \o b)[n] = h[n]
      /\ \A n \in 1..Len(b) : (h \o b)[Len(a) + 1 + n] = b[n]
  <2>1. h \o b \in Seq(S) /\ Len(h \o b) = Len(h) + Len(b)
        /\ \A n \in 1..Len(h) + Len(b) : (h \o b)[n] = IF n <= Len(h) THEN h[n] ELSE b[n - Len(h)]
    BY <1>2, ConcatProperties
  <2> HIDE DEF h
  <2>2. ASSUME NEW n \in 1..Len(b) PROVE (h \o b)[Len(a) + 1 + n] = b[n]
    <3>1. Len(a) + 1 + n \in 1..Len(h) + Len(b) /\ ~(Len(a) + 1 + n <= Len(h))
          /\ Len(a) + 1 + n - Len(h) = n
      BY <1>1, <1>2
    <3> QED
      BY <2>1, <3>1
  <2>3. ASSUME NEW n \in 1..Len(a) + 1 PROVE (h \o b)[n] = h[n]
    <3>1. n \in 1..Len(h) + Len(b) /\ n <= Len(h)
      BY <1>1, <1>2
    <3> QED
      BY <2>1, <3>1
  <2> QED
    BY <1>1, <1>2, <2>1, <2>2, <2>3
<1>4. Around(a, c, b) = h \o b
  BY DEF Around, h
<1>5. Len(a) + 1 \in 1..Len(a) + 1 /\ \A n \in 1..Len(a) : n \in 1..Len(a) + 1
  BY <1>1
<1> QED
  BY <1>1, <1>2, <1>3, <1>4, <1>5 DEF IsAround

LEMMA SplitFirst ==
  ASSUME NEW S, NEW a \in Seq(S), NEW b \in Seq(S), NEW c \in S, NEW options \in Untrimmed,
         Without(a, c)
  PROVE  SplitByChar(Around(a, c, b), c, options) = Kept(a, options) \o SplitByChar(b, c, options)
<1> SUFFICES ASSUME NEW s, s = Around(a, c, b)
             PROVE  SplitByChar(s, c, options) = Kept(a, options) \o SplitByChar(b, c, options)
  OBVIOUS
<1>1. /\ s \in Seq(S) /\ Len(s) = Len(a) + 1 + Len(b) /\ Len(a) \in Nat /\ Len(b) \in Nat
      /\ s[Len(a) + 1] = c
      /\ \A n \in 1..Len(a) : s[n] = a[n]
      /\ \A n \in 1..Len(b) : s[Len(a) + 1 + n] = b[n]
  <2>1. s \in Seq(S) /\ IsAround(s, a, c, b)
    BY AroundIs
  <2> QED
    BY <2>1 DEF IsAround
<1>2. PICK f : f[0] = SplitByChar(s, c, options) /\ Splitting(f, s, c, options)
  BY <1>1, SplitByCharIs
<1>3. PICK g : g[0] = SplitByChar(b, c, options) /\ Splitting(g, b, c, options)
  BY SplitByCharIs
<1>4. f[Len(a) + 1] = g[0]
  <2>1. Len(a) + 1 \in 0..Len(s) /\ 0 \in 0..Len(b) /\ Len(s) - (Len(a) + 1) = Len(b)
    BY <1>1
  <2>2. \A k \in 1..Len(s) - (Len(a) + 1) : s[Len(a) + 1 + k] = b[0 + k]
    <3> SUFFICES ASSUME NEW k \in 1..Len(s) - (Len(a) + 1) PROVE s[Len(a) + 1 + k] = b[0 + k]
      OBVIOUS
    <3>1. k \in 1..Len(b) /\ 0 + k = k
      BY <2>1
    <3> QED
      BY <1>1, <3>1
  <2>3. Alike(s, Len(a) + 1, b, 0)
    BY <1>1, <2>1, <2>2 DEF Alike
  <2>4. SameFrom(f, s, g, b)
    BY <1>1, <1>2, <1>3, SplitsAlike
  <2> QED
    BY <2>1, <2>3, <2>4 DEF SameFrom
<1>5. SubSeq(s, 0 + 1, Len(a)) = a
  <2> DEFINE p == SubSeq(s, 0 + 1, Len(a))
  <2>1. p \in Seq(S) /\ Len(p) = Len(a) /\ \A n \in 1..Len(a) : p[n] = s[n]
    BY <1>1
  <2> HIDE DEF p
  <2>2. Len(p) = Len(a) /\ \A n \in 1..Len(p) : p[n] = a[n]
    BY <1>1, <2>1
  <2>3. p = a
    BY <2>1, <2>2, SeqEqual
  <2> QED
    BY <2>3 DEF p
<1>6. 0 \in 0..Len(s) /\ Len(a) \in 0..Len(s) - 1 /\ \A k \in 0 + 1..Len(a) : s[k] # c
  BY <1>1 DEF Without
<1>7. f[0] = Kept(SubSeq(s, 0 + 1, Len(a)), options) \o f[Len(a) + 1]
  BY <1>1, <1>2, <1>6 DEF Splitting
<1> QED
  BY <1>2, <1>3, <1>4, <1>5, <1>7

\* A text is what is before the first c in it, and what is behind that.
LEMMA AroundFirst ==
  ASSUME NEW S, NEW x \in Seq(S), NEW c, ~Without(x, c)
  PROVE  \E y, z \in Seq(S) :
           x = Around(y, c, z) /\ c \in S /\ Len(z) < Len(x) /\ Without(y, c)
<1> DEFINE idx == CharIndex(x, c)
<1>1. idx \in 0..Len(x) - 1 /\ x[idx + 1] = c /\ \A m \in 1..idx : x[m] # c
  BY CharIndexIs DEF Without
<1> HIDE DEF idx
<1> DEFINE y == SubSeq(x, 1, idx)
           z == SubSeq(x, idx + 2, Len(x))
<1>2. Len(x) \in Nat /\ idx + 1 \in 1..Len(x)
  BY <1>1, LenProperties
<1>3. y \in Seq(S) /\ Len(y) = idx /\ \A m \in 1..idx : y[m] = x[m]
  BY <1>1, <1>2
<1>4. z \in Seq(S) /\ Len(z) = Len(x) - idx - 1 /\ \A m \in 1..Len(x) - idx - 1 : z[m] = x[idx + 1 + m]
  BY <1>1, <1>2
<1>5. c \in S
  BY <1>1, <1>2, ElementOfSeq
<1> HIDE DEF y, z
<1> DEFINE s == Around(y, c, z)
<1>6. s \in Seq(S) /\ IsAround(s, y, c, z)
  BY <1>3, <1>4, <1>5, AroundIs
<1> HIDE DEF s
<1>7. Len(s) = Len(x) /\ \A m \in 1..Len(s) : s[m] = x[m]
  <2>1. /\ Len(s) = Len(y) + 1 + Len(z) /\ s[Len(y) + 1] = c
        /\ \A n \in 1..Len(y) : s[n] = y[n]
        /\ \A n \in 1..Len(z) : s[Len(y) + 1 + n] = z[n]
    BY <1>6 DEF IsAround
  <2>2. Len(s) = Len(x)
    BY <1>1, <1>2, <1>3, <1>4, <2>1
  <2> SUFFICES ASSUME NEW m \in 1..Len(x) PROVE s[m] = x[m]
    BY <2>2
  <2>3. CASE m <= idx
    BY <1>1, <1>2, <1>3, <2>1, <2>3
  <2>4. CASE m = idx + 1
    BY <1>1, <1>2, <1>3, <2>1, <2>4
  <2>5. CASE m > idx + 1
    <3> DEFINE n == m - idx - 1
    <3>1. n \in 1..Len(x) - idx - 1 /\ idx + 1 + n = m /\ Len(y) + 1 + n = m /\ n \in 1..Len(z)
      BY <1>1, <1>2, <1>3, <1>4, <2>5
    <3> HIDE DEF n
    <3>2. s[Len(y) + 1 + n] = z[n] /\ z[n] = x[idx + 1 + n]
      BY <1>4, <2>1, <3>1
    <3> QED
      BY <3>1, <3>2
  <2> QED
    BY <1>1, <2>3, <2>4, <2>5
<1>8. s = x
  BY <1>6, <1>7, SeqEqual
<1>9. x = Around(y, c, z) /\ c \in S /\ Len(z) < Len(x) /\ Without(y, c)
  <2>1. x = Around(y, c, z)
    BY <1>8 DEF s
  <2>2. c \in S
    BY <1>5
  <2>3. Len(z) < Len(x)
    BY <1>1, <1>2, <1>4
  <2>4. Without(y, c)
    BY <1>1, <1>3 DEF Without
  <2> QED
    BY <2>1, <2>2, <2>3, <2>4
<1> QED
  BY <1>3, <1>4, <1>9

LEMMA AroundTwice ==
  ASSUME NEW S, NEW y \in Seq(S), NEW z \in Seq(S), NEW b \in Seq(S), NEW c \in S
  PROVE  Around(Around(y, c, z), c, b) = Around(y, c, Around(z, c, b))
<1> DEFINE h == y \o <<c>>
           t == <<c>> \o b
<1>1. <<c>> \in Seq(S)
  OBVIOUS
<1>2. h \in Seq(S) /\ t \in Seq(S) /\ z \o <<c>> \in Seq(S) /\ h \o z \in Seq(S)
  BY <1>1, ConcatProperties
<1> HIDE DEF h
<1>3. ((h \o z) \o <<c>>) \o b = (h \o z) \o t
  BY <1>1, <1>2, ConcatAssociative
<1>4. (z \o <<c>>) \o b = z \o t
  BY <1>1, <1>2, ConcatAssociative
<1> HIDE DEF t
<1>5. (h \o z) \o t = h \o (z \o t)
  BY <1>1, <1>2, ConcatAssociative
<1> QED
  BY <1>3, <1>4, <1>5 DEF Around, h

LEMMA SplitConcat ==
  ASSUME NEW S, NEW a \in Seq(S), NEW b \in Seq(S), NEW c \in S, NEW options \in Untrimmed
  PROVE  SplitByChar(Around(a, c, b), c, options)
           = SplitByChar(a, c, options) \o SplitByChar(b, c, options)
<1>0. \A p, q, r \in Seq(Seq(S)) : (p \o q) \o r = p \o (q \o r)
  BY ConcatAssociative
<1> DEFINE bad == {k \in Nat : \E x \in Seq(S) : Len(x) = k /\
                      SplitByChar(Around(x, c, b), c, options) # SplitByChar(x, c, options) \o SplitByChar(b, c, options)}
<1>1. ASSUME bad # {} PROVE FALSE
  <2>1. PICK k \in bad : \A j \in bad : ~(<<j, k>> \in OpToRel(<, Nat))
    BY <1>1, WFMin, NatLessThanWellFounded
  <2>2. \A j \in bad : ~(j < k)
    BY <2>1, Zenon DEF OpToRel
  <2>3. PICK x \in Seq(S) : Len(x) = k /\ SplitByChar(Around(x, c, b), c, options) # SplitByChar(x, c, options) \o SplitByChar(b, c, options)
    OBVIOUS
  <2>4. ~Without(x, c)
    <3>1. Without(x, c) => SplitByChar(x, c, options) = Kept(x, options)
      BY SplitNone
    <3>2. Without(x, c) => SplitByChar(Around(x, c, b), c, options)
                             = Kept(x, options) \o SplitByChar(b, c, options)
      BY SplitFirst
    <3> QED
      BY <2>3, <3>1, <3>2
  <2>5. PICK y, z \in Seq(S) :
          x = Around(y, c, z) /\ c \in S /\ Len(z) < Len(x) /\ Without(y, c)
    BY <2>4, AroundFirst
  <2>6. SplitByChar(Around(z, c, b), c, options) = SplitByChar(z, c, options) \o SplitByChar(b, c, options)
    BY <2>2, <2>3, <2>5, LenProperties
  <2> DEFINE w == Around(z, c, b)
  <2>7. w \in Seq(S)
    BY AroundIs
  <2>8. SplitByChar(Around(y, c, z), c, options) = Kept(y, options) \o SplitByChar(z, c, options)
    <3>1. Without(y, c)
      BY <2>5
    <3> QED
      BY <3>1, SplitFirst
  <2>9. Around(x, c, b) = Around(y, c, w)
    BY <2>5, AroundTwice
  <2> HIDE DEF w
  <2>10. SplitByChar(Around(y, c, w), c, options) = Kept(y, options) \o SplitByChar(w, c, options)
    BY <2>5, <2>7, SplitFirst
  <2> DEFINE first == Kept(y, options)
             second == SplitByChar(z, c, options)
             third == SplitByChar(b, c, options)
  <2>11. first \in Seq(Seq(S)) /\ second \in Seq(Seq(S)) /\ third \in Seq(Seq(S))
    BY KeptIs, SplitType
  <2>12. SplitByChar(w, c, options) = second \o third
    BY <2>6 DEF w
  <2>13. SplitByChar(x, c, options) = first \o second
    BY <2>5, <2>8
  <2>14. SplitByChar(Around(x, c, b), c, options) # (first \o second) \o third
    BY <2>3, <2>13
  <2>15. SplitByChar(Around(x, c, b), c, options) = first \o (second \o third)
    BY <2>9, <2>10, <2>12
  <2> HIDE DEF first, second, third
  <2>16. (first \o second) \o third = first \o (second \o third)
    BY <1>0, <2>11
  <2> QED
    BY <2>14, <2>15, <2>16
<1>2. Len(a) \in Nat
  BY LenProperties
<1> QED
  BY <1>1, <1>2

-----------------------------------------------------------------------------
(* Lines.  A line of s is given by the place of the break before it (or 0) *)
(* and the place of the one that ends it.                                  *)

LF == "lf"

IsLine(s, a, b) ==
  /\ b \in 1..Len(s) /\ s[b] = LF
  /\ a \in 0..b - 1 /\ (a = 0 \/ s[a] = LF)
  /\ \A n \in a + 1..b - 1 : s[n] # LF

LineAt(s, a, b) == SubSeq(s, a + 1, b - 1)

\* Every line of s but what is behind the last break, in order.
LinesAre(s, lines) ==
  /\ Len(lines) \in Nat /\ Len(lines) >= 2 /\ lines[Len(lines)] = <<>>
  /\ \A n \in 1..Len(lines) - 1 :
       \E a, b \in 0..Len(s) : /\ IsLine(s, a, b) /\ lines[n] = LineAt(s, a, b)
                               /\ b = Len(s) <=> n = Len(lines) - 1

LEMMA NoOptionsUntrimmed == NoOptions \in Untrimmed
BY DEF Untrimmed

LEMMA KeptAlways ==
  ASSUME NEW S, NEW s \in Seq(S)
  PROVE  Kept(s, NoOptions) = <<s>>
BY DEF Kept, NoOptions

\* The first line of s.
LEMMA LineFirst ==
  ASSUME NEW S, NEW y \in Seq(S), NEW s \in Seq(S), Without(y, LF), NEW z, IsAround(s, y, LF, z)
  PROVE  IsLine(s, 0, Len(y) + 1) /\ LineAt(s, 0, Len(y) + 1) = y
<1>1. /\ Len(s) = Len(y) + 1 + Len(z) /\ Len(y) \in Nat /\ Len(z) \in Nat
      /\ s[Len(y) + 1] = LF /\ \A n \in 1..Len(y) : s[n] = y[n]
  BY DEF IsAround
<1>2. LineAt(s, 0, Len(y) + 1) = y
  <2> DEFINE p == SubSeq(s, 0 + 1, Len(y) + 1 - 1)
  <2>1. p \in Seq(S) /\ Len(p) = Len(y) /\ \A n \in 1..Len(y) : p[n] = s[n]
    BY <1>1
  <2> HIDE DEF p
  <2>2. Len(p) = Len(y) /\ \A n \in 1..Len(p) : p[n] = y[n]
    BY <1>1, <2>1
  <2>3. p = y
    BY <2>1, <2>2, SeqEqual
  <2> QED
    BY <2>3 DEF p, LineAt
<1>3. \A n \in 0 + 1..Len(y) + 1 - 1 : n \in 1..Len(y)
  BY <1>1
<1> QED
  BY <1>1, <1>2, <1>3 DEF IsLine, Without

\* The lines behind it.
LEMMA LineFurther ==
  ASSUME NEW S, NEW y \in Seq(S), NEW z \in Seq(S), NEW s \in Seq(S), IsAround(s, y, LF, z),
         NEW a \in Nat, NEW b \in Nat, IsLine(z, a, b),
         NEW c \in Nat, c = a + Len(y) + 1, NEW d \in Nat, d = b + Len(y) + 1
  PROVE  IsLine(s, c, d) /\ LineAt(s, c, d) = LineAt(z, a, b)
<1> DEFINE k == Len(y) + 1
<1>1. /\ Len(s) = k + Len(z) /\ k \in Nat /\ Len(z) \in Nat
      /\ s[k] = LF /\ \A n \in 1..Len(z) : s[k + n] = z[n]
  BY DEF IsAround
<1>2. c = a + k /\ d = b + k
  BY LenProperties DEF IsLine
<1> HIDE DEF k
<1>3. /\ b \in 1..Len(z) /\ z[b] = LF
      /\ a \in 0..b - 1 /\ (a = 0 \/ z[a] = LF)
      /\ \A n \in a + 1..b - 1 : z[n] # LF
  BY DEF IsLine
<1>4. d \in 1..Len(s) /\ c \in 0..d - 1 /\ a \in Nat /\ b \in Nat /\ c = k + a /\ d = k + b
  <2>1. a \in Nat /\ b \in Nat /\ a < b /\ 1 <= b /\ b <= Len(z)
    BY <1>1, <1>3
  <2>2. k \in Nat /\ Len(z) \in Nat /\ Len(s) = k + Len(z)
    BY <1>1
  <2> HIDE DEF k
  <2>3. c = k + a
    <3>1. a + k = k + a
      BY <2>1, <2>2
    <3> QED
      BY <1>2, <3>1, Zenon
  <2>4. d = k + b
    <3>1. b + k = k + b
      BY <2>1, <2>2
    <3> QED
      BY <1>2, <3>1, Zenon
  <2>7. d \in 1..Len(s)
    BY <2>1, <2>2, <2>3, <2>4
  <2>8. c \in 0..d - 1
    BY <2>1, <2>2, <2>3, <2>4
  <2> QED
    BY <2>1, <2>3, <2>4, <2>7, <2>8
<1>5. s[d] = LF
  BY <1>1, <1>3, <1>4
<1>6. s[c] = LF
  <2>1. a # 0 => a \in 1..Len(z)
    BY <1>1, <1>3, <1>4
  <2>2. CASE a = 0
    BY <1>1, <1>4, <2>1, <2>2
  <2>3. CASE a # 0
    BY <1>1, <1>3, <1>4, <2>1, <2>3
  <2> QED
    BY <2>2, <2>3
<1>7. \A n \in c + 1..d - 1 : s[n] # LF
  <2> SUFFICES ASSUME NEW n \in c + 1..d - 1 PROVE s[n] # LF
    OBVIOUS
  <2>1. n - k \in a + 1..b - 1 /\ n - k \in 1..Len(z) /\ k + (n - k) = n
    BY <1>1, <1>3, <1>4
  <2> QED
    BY <1>1, <1>3, <2>1
<1>8. IsLine(s, c, d)
  BY <1>4, <1>5, <1>6, <1>7 DEF IsLine
<1>9. LineAt(s, c, d) = LineAt(z, a, b)
  <2> DEFINE p == SubSeq(s, c + 1, d - 1)
             q == SubSeq(z, a + 1, b - 1)
  <2>1. p \in Seq(S) /\ Len(p) = b - 1 - a /\ \A n \in 1..b - 1 - a : p[n] = s[c + n]
    <3>0. d \in 1..Len(s) /\ c \in 0..d - 1 /\ c = k + a /\ d = k + b /\ k \in Nat
      BY <1>1, <1>4
    <3>1. c \in Nat /\ d - 1 \in 0..Len(s) /\ c <= d - 1
      BY <3>0, LenProperties
    <3>5. d - 1 - c = b - 1 - a
      BY <3>0
    <3>2. c + 1 \in Nat /\ c + 1 >= 1
      BY <3>1
    <3>3. /\ p \in Seq(S) /\ Len(p) = IF c + 1 <= d - 1 THEN d - 1 - (c + 1) + 1 ELSE 0
          /\ \A n \in 1..d - 1 - (c + 1) + 1 : p[n] = s[c + 1 + n - 1]
      BY <3>1, <3>2, PartOf
    <3> HIDE DEF p
    <3>4. d - 1 - (c + 1) + 1 = b - 1 - a /\ \A n \in 1..b - 1 - a : c + 1 + n - 1 = c + n
      BY <1>4, <3>1, <3>5
    <3> QED
      BY <3>1, <3>3, <3>4, <3>5
  <2>2. q \in Seq(S) /\ Len(q) = b - 1 - a /\ \A n \in 1..b - 1 - a : q[n] = z[a + n]
    BY <1>1, <1>3, <1>4
  <2>3. \A n \in 1..b - 1 - a : s[c + n] = z[a + n]
    <3> SUFFICES ASSUME NEW n \in 1..b - 1 - a PROVE s[c + n] = z[a + n]
      OBVIOUS
    <3>0. c = k + a /\ k \in Nat /\ Len(z) \in Nat
      BY <1>1, <1>4
    <3>2. b <= Len(z)
      BY <1>1, <1>3
    <3>3. a + n \in 1..Len(z)
      BY <3>0, <3>2
    <3>4. n \in Int /\ \A u, v, w \in Int : u + (v + w) = (u + v) + w
      OBVIOUS
    <3>5. k + (a + n) = (k + a) + n
      BY <3>0, <3>4
    <3>1. a + n \in 1..Len(z) /\ k + (a + n) = c + n
      BY <3>0, <3>3, <3>5, Zenon
    <3> QED
      BY <1>1, <3>1
  <2>6. LineAt(s, c, d) = p /\ LineAt(z, a, b) = q
    BY DEF LineAt
  <2> HIDE DEF p, q
  <2>4. Len(p) = Len(q) /\ \A n \in 1..Len(p) : p[n] = q[n]
    BY <2>1, <2>2, <2>3
  <2>5. p = q
    BY <2>1, <2>2, <2>4, SeqEqual
  <2> QED
    BY <2>5, <2>6
<1> QED
  BY <1>8, <1>9

LEMMA LinesLater ==
  ASSUME NEW S, NEW y \in Seq(S), NEW z \in Seq(S), LF \in S, Without(y, LF),
         NEW rest \in Seq(Seq(S)), LinesAre(z, rest), NEW s, s = Around(y, LF, z)
  PROVE  LinesAre(s, <<y>> \o rest)
<1>1. s \in Seq(S) /\ IsAround(s, y, LF, z)
  BY AroundIs
<1>2. Len(s) = Len(y) + 1 + Len(z) /\ Len(y) \in Nat /\ Len(z) \in Nat
  BY <1>1 DEF IsAround
<1> DEFINE lines == <<y>> \o rest
<1>3. Len(rest) \in Nat /\ Len(rest) >= 2 /\ rest[Len(rest)] = <<>>
  BY DEF LinesAre
<1>4. Len(lines) = 1 + Len(rest) /\ lines[1] = y /\ \A n \in 1..Len(rest) : lines[n + 1] = rest[n]
  <2>1. <<y>> \in Seq(Seq(S)) /\ Len(<<y>>) = 1
    OBVIOUS
  <2>2. /\ Len(lines) = Len(<<y>>) + Len(rest)
        /\ \A n \in 1..Len(<<y>>) + Len(rest) :
             lines[n] = IF n <= Len(<<y>>) THEN <<y>>[n] ELSE rest[n - Len(<<y>>)]
    BY <2>1, ConcatProperties
  <2> HIDE DEF lines
  <2>3. 1 \in 1..1 + Len(rest) /\ \A n \in 1..Len(rest) : n + 1 \in 1..1 + Len(rest) /\ ~(n + 1 <= 1) /\ n + 1 - 1 = n
    BY <1>3
  <2> QED
    BY <2>1, <2>2, <2>3
<1> HIDE DEF lines
<1>5. ASSUME NEW n \in 1..Len(rest) - 1
      PROVE  \E a, b \in 0..Len(s) : /\ IsLine(s, a, b) /\ lines[n + 1] = LineAt(s, a, b)
                                     /\ b = Len(s) <=> n + 1 = Len(lines) - 1
  <2>1. PICK a, b \in 0..Len(z) : /\ IsLine(z, a, b) /\ rest[n] = LineAt(z, a, b)
                                  /\ b = Len(z) <=> n = Len(rest) - 1
    BY DEF LinesAre
  <2> DEFINE c == a + Len(y) + 1
             d == b + Len(y) + 1
  <2>0. c \in Nat /\ d \in Nat /\ a \in Nat /\ b \in Nat
    BY <1>2
  <2>2. IsLine(s, c, d) /\ LineAt(s, c, d) = LineAt(z, a, b)
    BY <1>1, <2>0, <2>1, LineFurther
  <2>3. c \in 0..Len(s) /\ d \in 0..Len(s)
    BY <1>2
  <2>5. d = Len(s) <=> b = Len(z)
    <3>1. b \in Int /\ Len(z) \in Int /\ Len(y) \in Int
      BY <1>2
    <3>2. d = b + Len(y) + 1 /\ Len(s) = Len(y) + 1 + Len(z)
      BY <1>2
    <3> HIDE DEF d
    <3>3. CASE b = Len(z)
      BY <3>1, <3>2, <3>3
    <3>4. CASE b # Len(z)
      <4>1. b < Len(z)
        BY <1>2, <3>4
      <4>2. d < Len(s)
        BY <3>1, <3>2, <4>1
      <4> QED
        BY <3>1, <3>2, <3>4, <4>2
    <3> QED
      BY <3>3, <3>4
  <2>4. lines[n + 1] = rest[n] /\ (n + 1 = Len(lines) - 1 <=> n = Len(rest) - 1)
    <3>1. n \in 1..Len(rest)
      BY <1>3
    <3>2. n + 1 = Len(lines) - 1 <=> n = Len(rest) - 1
      <4>1. \A u, v \in Int : u + 1 = (1 + v) - 1 <=> u = v - 1
        OBVIOUS
      <4> QED
        BY <1>3, <1>4, <4>1
    <3> QED
      BY <1>4, <3>1, <3>2
  <2> HIDE DEF c, d
  <2> QED
    BY <2>1, <2>2, <2>3, <2>4, <2>5
<1>6. \E a, b \in 0..Len(s) : /\ IsLine(s, a, b) /\ lines[1] = LineAt(s, a, b)
                              /\ b = Len(s) <=> 1 = Len(lines) - 1
  <2>1. Len(z) # 0
    <3>1. 1 \in 1..Len(rest) - 1
      BY <1>3
    <3>2. PICK a, b \in 0..Len(z) : IsLine(z, a, b)
      BY <3>1 DEF LinesAre
    <3> QED
      BY <3>2 DEF IsLine
  <2>2. IsLine(s, 0, Len(y) + 1) /\ LineAt(s, 0, Len(y) + 1) = y
    BY <1>1, LineFirst
  <2>3. 0 \in 0..Len(s) /\ Len(y) + 1 \in 0..Len(s) /\ Len(y) + 1 # Len(s) /\ 1 # Len(lines) - 1
    BY <1>2, <1>3, <1>4, <2>1
  <2> QED
    BY <1>4, <2>2, <2>3
<1>7. ASSUME NEW n \in 1..Len(lines) - 1
      PROVE  \E a, b \in 0..Len(s) : /\ IsLine(s, a, b) /\ lines[n] = LineAt(s, a, b)
                                     /\ b = Len(s) <=> n = Len(lines) - 1
  <2>1. CASE n = 1
    BY <1>6, <2>1
  <2>2. CASE n # 1
    <3> DEFINE m == n - 1
    <3>1. m \in 1..Len(rest) - 1 /\ m + 1 = n
      BY <1>3, <1>4, <2>2
    <3> HIDE DEF m
    <3> QED
      BY <1>5, <3>1
  <2> QED
    BY <2>1, <2>2
<1>8. Len(lines) \in Nat /\ Len(lines) >= 2 /\ lines[Len(lines)] = <<>>
  <2>1. Len(rest) \in 1..Len(rest) /\ Len(lines) = Len(rest) + 1
    BY <1>3, <1>4
  <2>2. lines[Len(rest) + 1] = rest[Len(rest)]
    BY <1>4, <2>1
  <2>3. Len(lines) \in Nat /\ Len(lines) >= 2
    BY <1>3, <2>1
  <2> QED
    BY <1>3, <2>1, <2>2, <2>3
<1>9. LinesAre(s, lines)
  BY <1>7, <1>8 DEF LinesAre
<1> QED
  BY <1>9 DEF lines

LEMMA LinesOf ==
  ASSUME NEW S, NEW s \in Seq(S), s # <<>>, s[Len(s)] = LF
  PROVE  LinesAre(s, SplitByChar(s, LF, NoOptions))
<1> DEFINE bad == {k \in Nat : \E x \in Seq(S) :
                      /\ Len(x) = k /\ x # <<>> /\ x[Len(x)] = LF
                      /\ ~LinesAre(x, SplitByChar(x, LF, NoOptions))}
<1>0. NoOptions \in Untrimmed
  BY NoOptionsUntrimmed
<1>1. ASSUME bad # {} PROVE FALSE
  <2>1. PICK k \in bad : \A j \in bad : ~(<<j, k>> \in OpToRel(<, Nat))
    BY <1>1, WFMin, NatLessThanWellFounded
  <2>2. \A j \in bad : ~(j < k)
    BY <2>1, Zenon DEF OpToRel
  <2>3. PICK x \in Seq(S) :
          /\ Len(x) = k /\ x # <<>> /\ x[Len(x)] = LF
          /\ ~LinesAre(x, SplitByChar(x, LF, NoOptions))
    OBVIOUS
  <2>4. Len(x) \in 1..Len(x)
    BY <2>3, EmptySeq, LenProperties
  <2>5. ~Without(x, LF)
    BY <2>3, <2>4 DEF Without
  <2>6. PICK y, z \in Seq(S) :
          x = Around(y, LF, z) /\ LF \in S /\ Len(z) < Len(x) /\ Without(y, LF)
    BY <2>5, AroundFirst
  <2>7. Without(y, LF) /\ LF \in S
    BY <2>6
  <2>8. IsAround(x, y, LF, z)
    BY <2>6, AroundIs
  <2>9. SplitByChar(Around(y, LF, z), LF, NoOptions) = Kept(y, NoOptions) \o SplitByChar(z, LF, NoOptions)
    <3> HIDE DEF bad
    <3> QED
      BY <1>0, <2>7, SplitFirst
  <2>10. SplitByChar(x, LF, NoOptions) = <<y>> \o SplitByChar(z, LF, NoOptions)
    BY <2>6, <2>9, KeptAlways
  <2>11. CASE z = <<>>
    <3>1. Without(z, LF)
      BY <2>11 DEF Without
    <3>2. SplitByChar(z, LF, NoOptions) = Kept(z, NoOptions)
      BY <1>0, <3>1, SplitNone
    <3>3. SplitByChar(x, LF, NoOptions) = <<y>> \o << <<>> >>
      BY <2>10, <2>11, <3>2, KeptAlways
    <3> DEFINE lines == <<y>> \o << <<>> >>
    <3>5. Len(lines) = 2 /\ lines[1] = y /\ lines[2] = <<>>
      <4>1. <<y>> \in Seq(Seq(S)) /\ << <<>> >> \in Seq(Seq(S)) /\ Len(<<y>>) = 1 /\ Len(<< <<>> >>) = 1
        OBVIOUS
      <4>2. /\ Len(lines) = Len(<<y>>) + Len(<< <<>> >>)
            /\ \A n \in 1..Len(<<y>>) + Len(<< <<>> >>) :
                 lines[n] = IF n <= Len(<<y>>) THEN <<y>>[n] ELSE << <<>> >>[n - Len(<<y>>)]
        BY <4>1, ConcatProperties
      <4> HIDE DEF lines
      <4> QED
        BY <4>1, <4>2
    <3> HIDE DEF lines
    <3>6. /\ Len(x) = Len(y) + 1 /\ Len(y) \in Nat
          /\ \A n \in 1..Len(y) : x[n] = y[n]
      BY <2>8, <2>11 DEF IsAround
    <3>7. y = LineAt(x, 0, Len(x))
      <4> DEFINE p == SubSeq(x, 0 + 1, Len(x) - 1)
      <4>1. p \in Seq(S) /\ Len(p) = Len(y) /\ \A n \in 1..Len(y) : p[n] = x[n]
        BY <3>6
      <4> HIDE DEF p
      <4>2. Len(p) = Len(y) /\ \A n \in 1..Len(p) : p[n] = y[n]
        BY <3>6, <4>1
      <4>3. p = y
        BY <4>1, <4>2, SeqEqual
      <4> QED
        BY <4>3 DEF p, LineAt
    <3>8. IsLine(x, 0, Len(x))
      <4>1. \A n \in 0 + 1..Len(x) - 1 : n \in 1..Len(y)
        BY <3>6
      <4> QED
        BY <2>3, <2>4, <2>7, <3>6, <4>1 DEF IsLine, Without
    <3>9. 0 \in 0..Len(x) /\ Len(x) \in 0..Len(x)
      BY <3>6
    <3>10. LinesAre(x, lines)
      <4>1. 1..Len(lines) - 1 = {1}
        BY <3>5
      <4>2. lines[1] = LineAt(x, 0, Len(x)) /\ Len(lines) - 1 = 1
        BY <3>5, <3>7
      <4> QED
        BY <3>5, <3>8, <3>9, <4>1, <4>2 DEF LinesAre
    <3> QED
      BY <2>3, <3>3, <3>10 DEF lines
  <2>12. CASE z # <<>>
    <3>1. Len(z) \in Nat /\ Len(z) \in 1..Len(z)
      BY <2>12, EmptySeq, LenProperties
    <3>2. z[Len(z)] = LF
      <4>1. x[Len(y) + 1 + Len(z)] = z[Len(z)] /\ Len(x) = Len(y) + 1 + Len(z)
        BY <2>8, <3>1 DEF IsAround
      <4> QED
        BY <2>3, <4>1
    <3>3. LinesAre(z, SplitByChar(z, LF, NoOptions))
      BY <2>2, <2>3, <2>6, <2>12, <3>1, <3>2
    <3>4. LinesAre(x, <<y>> \o SplitByChar(z, LF, NoOptions))
      <4>1. SplitByChar(z, LF, NoOptions) \in Seq(Seq(S))
        BY <1>0, SplitType
      <4> QED
        BY <2>6, <3>3, <4>1, LinesLater
    <3> QED
      BY <2>3, <2>10, <3>4
  <2> QED
    BY <2>11, <2>12
<1> QED
  BY <1>1, LenProperties

-----------------------------------------------------------------------------
(* The console's functions are those of the strings.                       *)

LEMMA SameFunctions ==
  /\ K!None = None
  /\ \A s, n : K!Offset(s, n) = Offset(s, n)
  /\ \A s, c : K!CharIndex(s, c) = CharIndex(s, c)
  /\ \A s, n, m : K!Slice(s, n, m) = Slice(s, n, m)
  /\ \A s, w : K!StartsWith(s, w) = StartsWith(s, w)
<1>1. K!None = None
  BY DEF K!None, None
<1>2. \A s, n : K!Offset(s, n) = Offset(s, n)
  BY DEF K!Offset, Offset
<1>3. \A S : K!Min(S) = Min(S)
  BY DEF K!Min, Min
<1>4. \A s, c : K!CharIndex(s, c) = CharIndex(s, c)
  BY <1>1, <1>3 DEF K!CharIndex, CharIndex, K!FirstCharIndex, FirstCharIndex, K!Least, Least
<1>5. \A s, n, m : K!Slice(s, n, m) = Slice(s, n, m)
  BY <1>1 DEF K!Slice, Slice
<1>6. \A s, w : K!StartsWith(s, w) = StartsWith(s, w)
  BY DEF K!StartsWith, StartsWith, K!IsPrefix, IsPrefix
<1> QED
  BY <1>1, <1>2, <1>4, <1>5, <1>6

LEMMA SameLines ==
  ASSUME NEW s
  PROVE  K!LinesOf(s) = SplitByChar(s, LF, NoOptions)
<1>1. \A t : K!Trimmed(t) = Trimmed(t)
  BY DEF K!Trimmed, Trimmed, K!Min, Min, K!Max, Max
<1>2. K!NoOptions = NoOptions
  BY DEF K!NoOptions, NoOptions
<1>3. \A t, o : K!Kept(t, o) = Kept(t, o)
  BY <1>1 DEF K!Kept, Kept
<1>4. \A t, o : K!SplitByChar(t, LF, o) = SplitByChar(t, LF, o)
  BY <1>3, SameFunctions DEF K!SplitByChar, SplitByChar, K!Splits, Splits
<1> QED
  BY <1>2, <1>4 DEF K!LinesOf, LF

-----------------------------------------------------------------------------
(* What an int has of a number.                                            *)

LEMMA NegativeMultiple == \A w, q \in Int : -(w * q) = w * (-q) /\ -q \in Int
OBVIOUS

LEMMA MultipleDifference == \A w, p, q \in Int : w * p - w * q = w * (p - q)
OBVIOUS

LEMMA MultipleLarge ==
  ASSUME NEW w \in Nat \ {0}, NEW r \in Int, r >= 1
  PROVE  w * r \in Int /\ w * r >= w
BY SMT

LEMMA Residue ==
  ASSUME NEW m \in Nat \ {0}, NEW least \in Int, NEW v \in Int,
         NEW bits, bits = least + ((v - least) % m)
  PROVE  bits \in least..least + m - 1 /\ (bits - v) % m = 0
<1> DEFINE x == v - least
           q == x \div m
           r == x % m
<1>1. x \in Int
  OBVIOUS
<1>2. x = m * q + r /\ q \in Int
  BY <1>1, Division
<1>3. r \in 0..m - 1
  BY <1>1
<1>4. bits = least + r
  OBVIOUS
<1>5. m * q \in Int /\ m \in Int
  BY <1>2
<1> HIDE DEF q, r
<1>6. bits - v = -(m * q)
  BY <1>2, <1>3, <1>4, <1>5
<1>7. -(m * q) = m * (-q) /\ -q \in Int
  BY <1>2, <1>5, NegativeMultiple
<1>8. (m * (-q)) % m = 0
  BY <1>7, Multiple
<1> QED
  BY <1>3, <1>4, <1>6, <1>7, <1>8

LEMMA OneResidue ==
  ASSUME NEW m \in Nat \ {0}, NEW v \in Int, NEW a \in 0..m - 1, NEW b \in 0..m - 1,
         (a - v) % m = 0, (b - v) % m = 0
  PROVE  a = b
<1> DEFINE p == (a - v) \div m
           q == (b - v) \div m
<1>1. a - v \in Int /\ b - v \in Int
  OBVIOUS
<1>2. a - v = m * p + 0 /\ p \in Int /\ b - v = m * q + 0 /\ q \in Int
  BY <1>1, Division
<1>3. m * p \in Int /\ m * q \in Int /\ m \in Int
  BY <1>2
<1> HIDE DEF p, q
<1>4. a - b = m * p - m * q /\ b - a = m * q - m * p
  BY <1>2, <1>3
<1>5. m * p - m * q = m * (p - q) /\ m * q - m * p = m * (q - p)
  BY <1>2, <1>3, MultipleDifference
<1>6. ~(p - q >= 1)
  <2>1. p - q \in Int
    BY <1>2
  <2>2. p - q >= 1 => m * (p - q) >= m
    BY <2>1, MultipleLarge
  <2>3. a - b < m
    OBVIOUS
  <2> QED
    BY <1>3, <1>4, <1>5, <2>1, <2>2, <2>3
<1>7. ~(q - p >= 1)
  <2>1. q - p \in Int
    BY <1>2
  <2>2. q - p >= 1 => m * (q - p) >= m
    BY <2>1, MultipleLarge
  <2>3. b - a < m
    OBVIOUS
  <2> QED
    BY <1>3, <1>4, <1>5, <2>1, <2>2, <2>3
<1>8. p = q
  BY <1>2, <1>6, <1>7
<1> QED
  BY <1>2, <1>3, <1>8

-----------------------------------------------------------------------------
(* The value of a numeral.                                                 *)

LEMMA ConsoleConstants ==
  /\ LF \in Spaces /\ Spaces \cap K!NumeralDigits = {} /\ Spaces \cap K!Signs = {} /\ "NUL" \notin Spaces
  /\ LF \notin K!NumeralDigits /\ LF \notin K!Signs
  /\ \A s \in Typings : s \in Seq(ToSet(s))
  /\ \A c \in Questions : \/ c.op = "line" /\ c.ensure_nonempty \in BOOLEAN
                          \/ c.op \in {"int", "uint"}
                          \/ c.op = "option" /\ c.options \in Nat
  /\ Half \in Nat \ {0} /\ Long \in Nat \ {0}
<1>1. \A s : K!ToSet(s) = ToSet(s)
  BY DEF K!ToSet, ToSet
<1> QED
  BY <1>1, QuestionsAssumption DEF K!WellPosed, LF

LEMMA DigitValues == \A c \in K!NumeralDigits : K!DigitValue(c) \in 0..9
<1> SUFFICES ASSUME NEW c \in K!NumeralDigits PROVE K!DigitValue(c) \in 0..9
  OBVIOUS
<1>1. Len(K!NumeralList) = 10 /\ DOMAIN K!NumeralList = 1..10
  BY DEF K!NumeralList
<1>2. PICK n \in 1..10 : c = K!NumeralList[n]
  BY <1>1 DEF K!NumeralDigits, K!ToSet
<1>3. n - 1 \in 0..9 /\ K!NumeralList[n - 1 + 1] = c
  BY <1>2
<1> QED
  BY <1>3 DEF K!DigitValue

IsValue(f, digits) ==
  f = [n \in 0..Len(digits) |-> IF n = 0 THEN 0 ELSE 10 * f[n - 1] + K!DigitValue(digits[n])]

LEMMA ValueExists ==
  ASSUME NEW top \in Nat, NEW e
  PROVE  \E f : f = [n \in 0..top |-> IF n = 0 THEN 0 ELSE 10 * f[n - 1] + e[n]]
<1> DEFINE Rec(f, k) == f = [n \in 0..k |-> IF n = 0 THEN 0 ELSE 10 * f[n - 1] + e[n]]
           none == {k \in Nat : ~\E f : Rec(f, k)}
<1>1. ASSUME none # {} PROVE FALSE
  <2>1. PICK k \in none : \A j \in none : ~(<<j, k>> \in OpToRel(<, Nat))
    BY <1>1, WFMin, NatLessThanWellFounded
  <2>2. \A j \in none : ~(j < k)
    BY <2>1, Zenon DEF OpToRel
  <2>3. k \in Nat /\ ~\E f : Rec(f, k)
    OBVIOUS
  <2>4. CASE k = 0
    <3> DEFINE g == [n \in 0..k |-> 0]
    <3>1. \A n \in 0..k : n = 0
      BY <2>4
    <3>2. Rec(g, k)
      BY <3>1
    <3> QED
      BY <2>3, <3>2
  <2>5. CASE k # 0
    <3>1. k - 1 \in Nat /\ k - 1 < k
      BY <2>3, <2>5
    <3>2. PICK f : Rec(f, k - 1)
      BY <2>2, <3>1
    <3> DEFINE g == [n \in 0..k |-> IF n = k THEN 10 * f[k - 1] + e[k] ELSE f[n]]
    <3>3. ASSUME NEW n \in 0..k PROVE g[n] = IF n = 0 THEN 0 ELSE 10 * g[n - 1] + e[n]
      <4>1. CASE n = k
        <5>1. k - 1 \in 0..k /\ k - 1 # k /\ n # 0
          BY <2>3, <2>5, <4>1
        <5> QED
          BY <4>1, <5>1
      <4>2. CASE n # k
        <5>1. n \in 0..k - 1 /\ (n # 0 => n - 1 \in 0..k /\ n - 1 # k)
          BY <2>3, <4>2
        <5>2. f[n] = IF n = 0 THEN 0 ELSE 10 * f[n - 1] + e[n]
          BY <3>2, <5>1
        <5>3. g[n] = f[n] /\ (n # 0 => g[n - 1] = f[n - 1])
          BY <4>2, <5>1
        <5> HIDE DEF g
        <5> QED
          BY <5>2, <5>3
      <4> QED
        BY <4>1, <4>2
    <3>4. Rec(g, k)
      BY <3>3
    <3> QED
      BY <2>3, <3>4
  <2> QED
    BY <2>4, <2>5
<1>2. top \notin none
  BY <1>1
<1> QED
  BY <1>2

LEMMA ValueIsNatural ==
  ASSUME NEW S, NEW digits \in Seq(S), \A n \in 1..Len(digits) : digits[n] \in K!NumeralDigits
  PROVE  K!ValueOf(digits) \in Nat
<1> DEFINE f == CHOOSE f : IsValue(f, digits)
           e == [n \in 1..Len(digits) |-> K!DigitValue(digits[n])]
<1>0. Len(digits) \in Nat
  BY LenProperties
<1>1. K!ValueOf(digits) = f[Len(digits)]
  BY DEF K!ValueOf, IsValue
<1>2. \E g : IsValue(g, digits)
  <2>1. PICK g : g = [n \in 0..Len(digits) |-> IF n = 0 THEN 0 ELSE 10 * g[n - 1] + e[n]]
    BY <1>0, ValueExists
  <2>2. \A n \in 0..Len(digits) : n # 0 => e[n] = K!DigitValue(digits[n])
    BY <1>0
  <2> HIDE DEF e
  <2>3. [n \in 0..Len(digits) |-> IF n = 0 THEN 0 ELSE 10 * g[n - 1] + e[n]]
          = [n \in 0..Len(digits) |-> IF n = 0 THEN 0 ELSE 10 * g[n - 1] + K!DigitValue(digits[n])]
    BY <2>2
  <2> QED
    BY <2>1, <2>3 DEF IsValue
<1>3. IsValue(f, digits)
  BY <1>2
<1> HIDE DEF f
<1> DEFINE bad == {n \in Nat : n <= Len(digits) /\ f[n] \notin Nat}
<1>4. ASSUME bad # {} PROVE FALSE
  <2>1. PICK n \in bad : \A j \in bad : ~(<<j, n>> \in OpToRel(<, Nat))
    BY <1>4, WFMin, NatLessThanWellFounded
  <2>2. \A j \in bad : ~(j < n)
    BY <2>1, Zenon DEF OpToRel
  <2>3. n \in 0..Len(digits) /\ f[n] \notin Nat
    BY <1>0
  <2>4. f[n] = IF n = 0 THEN 0 ELSE 10 * f[n - 1] + K!DigitValue(digits[n])
    BY <1>3, <2>3 DEF IsValue
  <2>5. n # 0
    BY <2>3, <2>4
  <2>6. n \in 1..Len(digits) /\ n - 1 \in Nat /\ n - 1 <= Len(digits) /\ n - 1 < n
    BY <1>0, <2>3, <2>5
  <2>7. f[n - 1] \in Nat
    BY <2>2, <2>6
  <2>8. K!DigitValue(digits[n]) \in Nat
    BY <2>6, DigitValues
  <2> QED
    BY <2>3, <2>4, <2>5, <2>7, <2>8
<1> QED
  BY <1>0, <1>1, <1>4

-----------------------------------------------------------------------------
(* The numbers on a line.                                                  *)

Unsigned_(t) == IF t # <<>> /\ t[1] \in K!Signs THEN Tail(t) ELSE t
Numeral(t) == Unsigned_(t) # <<>> /\ ToSet(Unsigned_(t)) \subseteq K!NumeralDigits
NumberOf(t) == IF t[1] = "-" THEN -K!ValueOf(Unsigned_(t)) ELSE K!ValueOf(Unsigned_(t))

\* The first k characters of s are all the spaces it begins with.
Indented(s, k) ==
  /\ k \in 0..Len(s) /\ \A m \in 1..k : s[m] \in Spaces
  /\ k < Len(s) => s[k + 1] \notin Spaces

LEMMA OnlyBehindSpaces ==
  ASSUME NEW S, NEW s \in Seq(S), NEW k, Indented(s, k),
         NEW n \in 0..Len(s), \A m \in 1..n : s[m] \in Spaces, Numeral(Offset(s, n))
  PROVE  n = k
<1> DEFINE t == Offset(s, n)
<1>1. t \in Seq(S) /\ Len(t) = Len(s) - n /\ \A m \in 1..Len(s) - n : t[m] = s[n + m]
  BY OffsetIs
<1>2. Numeral(t)
  OBVIOUS
<1> HIDE DEF t
<1>3. k \in 0..Len(s) /\ Len(s) \in Nat
  BY LenProperties DEF Indented
<1>4. ~(n > k)
  <2> SUFFICES ASSUME n > k PROVE FALSE
    OBVIOUS
  <2>1. k + 1 \in 1..n /\ k < Len(s)
    BY <1>3
  <2> QED
    BY <2>1 DEF Indented
<1>5. ~(n < k)
  <2> SUFFICES ASSUME n < k PROVE FALSE
    OBVIOUS
  <2>1. n + 1 \in 1..k /\ 1 \in 1..Len(s) - n
    BY <1>3
  <2>2. s[n + 1] \in Spaces /\ t[1] = s[n + 1]
    BY <1>1, <2>1 DEF Indented
  <2>3. t[1] \notin K!Signs /\ t[1] \notin K!NumeralDigits
    BY <2>2, ConsoleConstants
  <2>4. t[1] \in ToSet(t)
    <3>1. 1 \in DOMAIN t
      BY <1>1, <2>1
    <3> QED
      BY <3>1 DEF ToSet
  <2>5. Unsigned_(t) = t
    BY <2>3 DEF Unsigned_
  <2> QED
    BY <1>2, <2>3, <2>4, <2>5 DEF Numeral
<1> QED
  BY <1>3, <1>4, <1>5

LEMMA NumbersOnIs ==
  ASSUME NEW S, NEW s \in Seq(S), NEW k, Indented(s, k)
  PROVE  K!NumbersOn(s) = IF Numeral(Offset(s, k)) THEN {NumberOf(Offset(s, k))} ELSE {}
<1> DEFINE starts == {n \in 0..Len(s) : \A m \in 1..n : s[m] \in Spaces}
           numerals == {t \in {Offset(s, n) : n \in starts} : Numeral(t)}
<1>1. K!NumbersOn(s) = {NumberOf(t) : t \in numerals}
  <2>1. \A t : K!ToSet(t) = ToSet(t)
    BY DEF K!ToSet, ToSet
  <2> QED
    BY <2>1, SameFunctions DEF K!NumbersOn, Unsigned_, Numeral, NumberOf
<1>2. k \in starts
  BY DEF Indented
<1>3. \A t \in numerals : t = Offset(s, k)
  <2> SUFFICES ASSUME NEW n \in starts, Numeral(Offset(s, n)) PROVE n = k
    OBVIOUS
  <2> QED
    BY OnlyBehindSpaces
<1>4. Offset(s, k) \in numerals <=> Numeral(Offset(s, k))
  BY <1>2
<1> HIDE DEF numerals
<1> QED
  BY <1>1, <1>3, <1>4

-----------------------------------------------------------------------------
(* What scanf reads of s: spaces up to u, a sign, digits up to h.          *)

IsSigned(s, u) == u < Len(s) /\ s[u + 1] \in K!Signs

Read_(s, u, l, h) ==
  /\ Indented(s, u) /\ l \in {0, 1} /\ (l = 1 <=> IsSigned(s, u))
  /\ h \in u + l..Len(s)
  /\ \A m \in u + l + 1..h : s[m] \in K!NumeralDigits
  /\ h < Len(s) => s[h + 1] \notin K!NumeralDigits

ValueRead(s, u, l, h) ==
  LET value == K!ValueOf(SubSeq(s, u + l + 1, h))
  IN  IF s[u + 1] = "-" THEN -value ELSE value

LEMMA UnspacedIs ==
  ASSUME NEW S, NEW s \in Seq(S)
  PROVE  \E u : Indented(s, u) /\ K!Unspaced(s) = Offset(s, u)
<1> DEFINE starts == {n \in 0..Len(s) : \A m \in 1..n : s[m] \in Spaces}
           u == Max(starts)
<1>1. Len(s) \in Nat /\ 0 \in starts
  BY LenProperties
<1>2. u \in starts /\ \A n \in starts : n <= u
  <2>1. starts # {} /\ \A n \in starts : n \in Nat /\ n <= Len(s)
    BY <1>1
  <2> HIDE DEF starts
  <2> QED
    BY <1>1, <2>1, MaxIsIn
<1> HIDE DEF u
<1>3. Indented(s, u)
  <2>1. ASSUME u < Len(s), s[u + 1] \in Spaces PROVE FALSE
    <3>1. u + 1 \in 0..Len(s) /\ ~(u + 1 <= u)
      BY <1>1, <1>2, <2>1
    <3>2. \A m \in 1..u + 1 : s[m] \in Spaces
      <4> SUFFICES ASSUME NEW m \in 1..u + 1 PROVE s[m] \in Spaces
        OBVIOUS
      <4>1. m \in 1..u \/ m = u + 1
        BY <1>2
      <4> QED
        BY <1>2, <2>1, <4>1
    <3> QED
      BY <1>2, <3>1, <3>2
  <2> QED
    BY <1>2, <2>1 DEF Indented
<1>4. {n \in 1..Len(s) : \A m \in 1..n : s[m] \in Spaces} = 1..u
  <2>1. ASSUME NEW n \in 1..Len(s), \A m \in 1..n : s[m] \in Spaces PROVE n \in 1..u
    <3>1. n \in starts
      BY <1>1, <2>1
    <3> QED
      BY <1>2, <3>1
  <2>2. ASSUME NEW n \in 1..u PROVE n \in 1..Len(s) /\ \A m \in 1..n : s[m] \in Spaces
    BY <1>1, <1>2, <2>2
  <2> QED
    BY <2>1, <2>2
<1>5. Cardinality(1..u) = u
  BY <1>2, FS_Interval
<1>6. K!Unspaced(s) = Offset(s, u)
  BY <1>4, <1>5, SameFunctions DEF K!Unspaced, K!Cardinality, Cardinality
<1> QED
  BY <1>3, <1>6

\* A numeral at the start of a text.
LEMMA NumeralLengthIs ==
  ASSUME NEW S, NEW t \in Seq(S), NEW l, l = K!SignLength(t), NEW n, n = K!NumeralLength(t)
  PROVE  /\ l \in {0, 1} /\ (l = 1 <=> IsSigned(t, 0))
         /\ n \in l..Len(t)
         /\ \A m \in l + 1..n : t[m] \in K!NumeralDigits
         /\ n < Len(t) => t[n + 1] \notin K!NumeralDigits
<1>0. Len(t) \in Nat /\ (t # <<>> <=> 0 < Len(t)) /\ 0 + 1 = 1
  BY LenProperties, EmptySeq
<1>1. l \in {0, 1} /\ (l = 1 <=> IsSigned(t, 0)) /\ l <= Len(t)
  BY <1>0 DEF K!SignLength, IsSigned
<1> DEFINE ends == {m \in l..Len(t) : m = Len(t) \/ t[m + 1] \notin K!NumeralDigits}
<1>2. n = Min(ends)
  BY DEF K!NumeralLength, K!Min, Min
<1>3. n \in ends /\ \A m \in ends : n <= m
  <2>1. \A m \in ends : m \in Nat
    BY <1>0, <1>1
  <2>2. Len(t) \in ends
    BY <1>0, <1>1
  <2> HIDE DEF ends
  <2>3. Min(ends) \in ends /\ \A m \in ends : Min(ends) <= m
    BY <2>1, <2>2, MinIsIn
  <2> QED
    BY <1>2, <2>3
<1>4. n \in l..Len(t)
  BY <1>3
<1>5. \A m \in l + 1..n : t[m] \in K!NumeralDigits
  <2> SUFFICES ASSUME NEW m \in l + 1..n, t[m] \notin K!NumeralDigits PROVE FALSE
    OBVIOUS
  <2>1. m - 1 \in l..Len(t) /\ m - 1 + 1 = m /\ ~(n <= m - 1)
    BY <1>0, <1>1, <1>4
  <2>2. m - 1 \in ends
    BY <2>1
  <2> QED
    BY <1>3, <2>1, <2>2
<1>6. n < Len(t) => t[n + 1] \notin K!NumeralDigits
  BY <1>0, <1>3, <1>4
<1> QED
  BY <1>1, <1>4, <1>5, <1>6

ScanRead(scan, s, u, l, h, signed) ==
  /\ scan.matched <=> h > u + l
  /\ h > u + l => scan.value = K!Converted(ValueRead(s, u, l, h), signed)
  /\ scan.rest = Offset(s, h)

LEMMA OffsetTwice ==
  ASSUME NEW S, NEW s \in Seq(S), NEW n \in 0..Len(s), NEW m \in 0..Len(s) - n
  PROVE  Offset(Offset(s, n), m) = Offset(s, n + m)
<1>1. Len(s) \in Nat /\ n + m \in 0..Len(s)
  BY LenProperties
<1> DEFINE t == Offset(s, n)
           p == Offset(t, m)
           q == Offset(s, n + m)
<1>2. t \in Seq(S) /\ Len(t) = Len(s) - n /\ \A k \in 1..Len(s) - n : t[k] = s[n + k]
  BY OffsetIs
<1> HIDE DEF t
<1>3. p \in Seq(S) /\ Len(p) = Len(s) - n - m /\ \A k \in 1..Len(s) - n - m : p[k] = t[m + k]
  <2>1. m \in 0..Len(t)
    BY <1>2
  <2>2. p \in Seq(S) /\ Len(p) = Len(t) - m /\ \A k \in 1..Len(t) - m : p[k] = t[m + k]
    BY <1>2, <2>1, OffsetIs
  <2> HIDE DEF p
  <2> QED
    BY <1>2, <2>2
<1>4. q \in Seq(S) /\ Len(q) = Len(s) - (n + m) /\ \A k \in 1..Len(s) - (n + m) : q[k] = s[n + m + k]
  BY <1>1, OffsetIs
<1> HIDE DEF p, q
<1>5. Len(s) - (n + m) = Len(s) - n - m
  BY <1>1
<1>6. \A k \in 1..Len(s) - n - m : t[m + k] = s[n + m + k]
  <2> SUFFICES ASSUME NEW k \in 1..Len(s) - n - m PROVE t[m + k] = s[n + m + k]
    OBVIOUS
  <2>1. m + k \in 1..Len(s) - n /\ n + (m + k) = n + m + k
    BY <1>1
  <2> QED
    BY <1>2, <2>1
<1>7. Len(p) = Len(q) /\ \A k \in 1..Len(p) : p[k] = q[k]
  BY <1>3, <1>4, <1>5, <1>6
<1>8. p = q
  BY <1>3, <1>4, <1>7, SeqEqual
<1> QED
  BY <1>8 DEF p, q, t

\* A part of the rest is a part of the text.
LEMMA OffsetPart ==
  ASSUME NEW S, NEW s \in Seq(S), NEW n \in 0..Len(s), NEW a \in Nat, NEW b \in 0..Len(s) - n
  PROVE  SubSeq(Offset(s, n), a + 1, b) = SubSeq(s, n + a + 1, n + b)
<1>1. Len(s) \in Nat /\ n <= Len(s) /\ n \in Nat /\ a + 1 \in Nat /\ a + 1 >= 1 /\ b \in Nat /\ b <= Len(s) - n
  BY LenProperties
<1>2. SubSeq(SubSeq(s, n + 1, Len(s)), a + 1, b) = SubSeq(s, n + (a + 1), n + b)
  BY <1>1, PartOfPart
<1>3. n + (a + 1) = n + a + 1
  BY <1>1
<1> QED
  BY <1>2, <1>3 DEF Offset

LEMMA ScanIs ==
  ASSUME NEW S, NEW s \in Seq(S), NEW signed \in BOOLEAN, NEW scan, scan = K!Scan(s, signed)
  PROVE  \E u, l, h : Read_(s, u, l, h) /\ ScanRead(scan, s, u, l, h, signed)
<1>1. PICK u : Indented(s, u) /\ K!Unspaced(s) = Offset(s, u)
  BY UnspacedIs
<1>2. u \in 0..Len(s) /\ Len(s) \in Nat
  BY <1>1, LenProperties DEF Indented
<1> DEFINE t == Offset(s, u)
           l == K!SignLength(t)
           n == K!NumeralLength(t)
           h == u + n
<1>3. t \in Seq(S) /\ Len(t) = Len(s) - u /\ \A m \in 1..Len(s) - u : t[m] = s[u + m]
  BY <1>2, OffsetIs
<1>4. scan = [matched |-> n > l,
              value |-> K!Converted(IF t # <<>> /\ t[1] = "-" THEN -K!ValueOf(Slice(t, l, n))
                               ELSE K!ValueOf(Slice(t, l, n)), signed),
              rest |-> Offset(t, n)]
  BY <1>1, SameFunctions DEF K!Scan
<1> HIDE DEF t
<1>5. /\ l \in {0, 1} /\ (l = 1 <=> IsSigned(t, 0))
      /\ n \in l..Len(t)
      /\ \A m \in l + 1..n : t[m] \in K!NumeralDigits
      /\ n < Len(t) => t[n + 1] \notin K!NumeralDigits
  BY <1>3, NumeralLengthIs
<1> HIDE DEF l, n
<1>6. /\ l \in Nat /\ n \in Nat /\ h \in u + l..Len(s) /\ (h > u + l <=> n > l)
      /\ n \in 0..Len(s) - u
  BY <1>2, <1>3, <1>5
<1>7. l = 1 <=> IsSigned(s, u)
  <2>1. 0 < Len(t) <=> u < Len(s)
    BY <1>2, <1>3
  <2>2. u < Len(s) => t[0 + 1] = s[u + 1]
    <3>1. u < Len(s) => 1 \in 1..Len(s) - u
      BY <1>2
    <3> QED
      BY <1>3, <3>1
  <2> QED
    BY <1>5, <2>1, <2>2 DEF IsSigned
<1>8. \A m \in u + l + 1..h : s[m] \in K!NumeralDigits
  <2> SUFFICES ASSUME NEW m \in u + l + 1..h PROVE s[m] \in K!NumeralDigits
    OBVIOUS
  <2> DEFINE k == m - u
  <2>1. k \in l + 1..n /\ k \in 1..Len(s) - u /\ u + k = m
    BY <1>2, <1>5, <1>6
  <2> HIDE DEF k
  <2> QED
    BY <1>3, <1>5, <2>1
<1>9. h < Len(s) => s[h + 1] \notin K!NumeralDigits
  <2> SUFFICES ASSUME h < Len(s) PROVE s[h + 1] \notin K!NumeralDigits
    OBVIOUS
  <2>1. n < Len(t) /\ n + 1 \in 1..Len(s) - u /\ u + (n + 1) = h + 1
    BY <1>2, <1>3, <1>6
  <2> QED
    BY <1>3, <1>5, <2>1
<1>10. Read_(s, u, l, h)
  <2> HIDE DEF h
  <2> QED
    BY <1>1, <1>5, <1>6, <1>7, <1>8, <1>9 DEF Read_
<1>11. Offset(t, n) = Offset(s, h)
  BY <1>2, <1>6, OffsetTwice DEF t
<1>12. n > l => scan.value = K!Converted(ValueRead(s, u, l, h), signed)
  <2> SUFFICES ASSUME n > l PROVE scan.value = K!Converted(ValueRead(s, u, l, h), signed)
    OBVIOUS
  <2>1. t # <<>> /\ t[1] = s[u + 1]
    <3>1. Len(t) # 0 /\ 1 \in 1..Len(s) - u
      BY <1>2, <1>3, <1>5, <1>6
    <3> QED
      BY <1>3, <3>1, EmptySeq
  <2>2. Slice(t, l, n) = SubSeq(t, l + 1, n)
    BY <1>6 DEF Slice, None
  <2>3. SubSeq(t, l + 1, n) = SubSeq(s, u + l + 1, u + n)
    BY <1>2, <1>6, OffsetPart DEF t
  <2> HIDE DEF h
  <2>4. h = u + n
    BY DEF h
  <2> DEFINE value == K!ValueOf(Slice(t, l, n))
  <2>5. scan.value = K!Converted(IF t # <<>> /\ t[1] = "-" THEN -value ELSE value, signed)
    BY <1>4
  <2>6. value = K!ValueOf(SubSeq(s, u + l + 1, h))
    BY <2>2, <2>3, <2>4
  <2> HIDE DEF value
  <2>7. ValueRead(s, u, l, h) = IF t # <<>> /\ t[1] = "-" THEN -value ELSE value
    BY <2>1, <2>6 DEF ValueRead
  <2> QED
    BY <2>5, <2>7
<1>13. ScanRead(scan, s, u, l, h, signed)
  <2>1. scan.matched = (n > l) /\ scan.rest = Offset(t, n)
    BY <1>4
  <2> HIDE DEF h
  <2> QED
    BY <1>6, <1>11, <1>12, <2>1 DEF ScanRead
<1> QED
  BY <1>10, <1>13

\* What is read of a line is no line break.
LEMMA NoBreakRead ==
  ASSUME NEW S, NEW s \in Seq(S), NEW u, NEW l, NEW h, Read_(s, u, l, h)
  PROVE  \A m \in u + 1..h : s[m] # LF
<1> SUFFICES ASSUME NEW m \in u + 1..h PROVE s[m] # LF
  OBVIOUS
<1>1. u \in 0..Len(s) /\ Len(s) \in Nat /\ l \in {0, 1} /\ h \in u + l..Len(s)
  BY LenProperties DEF Read_, Indented
<1>2. CASE m >= u + l + 1
  <2>1. s[m] \in K!NumeralDigits
    <3>1. m \in u + l + 1..h
      BY <1>1, <1>2
    <3> QED
      BY <3>1 DEF Read_
  <2> QED
    BY <2>1, ConsoleConstants
<1>3. CASE ~(m >= u + l + 1)
  <2>1. l = 1 /\ m = u + 1
    BY <1>1, <1>3
  <2>2. s[m] \in K!Signs
    BY <2>1 DEF Read_, IsSigned
  <2> QED
    BY <2>2, ConsoleConstants
<1> QED
  BY <1>2, <1>3

\* Behind the spaces of a line that is a numeral, there is what was read, and nothing else.
LineReads(t, s, u, l, h, e) ==
  /\ u < e
  /\ Numeral(t) <=> h > u + l /\ e = h
  /\ Numeral(t) => NumberOf(t) = ValueRead(s, u, l, h) /\ NumberOf(t) \in Int

LEMMA NumeralIs ==
  ASSUME NEW S, NEW s \in Seq(S), NEW u \in Nat, NEW l \in Nat, NEW h \in Nat, Read_(s, u, l, h),
         NEW e \in Nat, h <= e, e < Len(s), s[e + 1] = LF,
         NEW t, t = SubSeq(s, u + 1, e)
  PROVE  LineReads(t, s, u, l, h, e)
<1>1. u \in 0..Len(s) /\ Len(s) \in Nat /\ l \in {0, 1} /\ h \in u + l..Len(s)
  BY LenProperties DEF Read_, Indented
<1>2. u < e
  <2>1. CASE e = u
    <3>1. u < Len(s) /\ s[u + 1] \in Spaces
      BY <2>1, ConsoleConstants
    <3> QED
      BY <3>1 DEF Read_, Indented
  <2>2. CASE e # u
    BY <1>1, <2>2
  <2> QED
    BY <2>1, <2>2
<1>3. t \in Seq(S) /\ Len(t) = e - u /\ \A m \in 1..e - u : t[m] = s[u + m]
  <2>1. u + 1 \in Nat /\ u + 1 >= 1 /\ e \in 0..Len(s)
    BY <1>1
  <2>2. /\ t \in Seq(S) /\ Len(t) = IF u + 1 <= e THEN e - (u + 1) + 1 ELSE 0
        /\ \A m \in 1..e - (u + 1) + 1 : t[m] = s[u + 1 + m - 1]
    BY <2>1, PartOf
  <2>3. u + 1 <= e /\ e - (u + 1) + 1 = e - u /\ \A m \in 1..e - u : u + 1 + m - 1 = u + m
    BY <1>1, <1>2
  <2> QED
    BY <2>2, <2>3
<1>4. t # <<>> /\ t[1] = s[u + 1]
  <2>1. Len(t) # 0 /\ 1 \in 1..e - u
    BY <1>1, <1>2, <1>3
  <2> QED
    BY <1>3, <2>1, EmptySeq
<1>5. l = 1 <=> t[1] \in K!Signs
  BY <1>1, <1>2, <1>4 DEF Read_, IsSigned
<1> DEFINE d == Unsigned_(t)
<1>6. d = SubSeq(s, u + l + 1, e)
  <2>1. CASE l = 0
    <3>3. l # 1
      BY <2>1
    <3>0. t[1] \notin K!Signs
      BY <1>5, <3>3, Zenon
    <3>1. d = t
      BY <3>0 DEF Unsigned_
    <3>2. u + l + 1 = u + 1
      BY <1>1, <2>1
    <3> QED
      BY <3>1, <3>2
  <2>2. CASE l = 1
    <3>1. d = Tail(t)
      BY <1>4, <1>5, <2>2 DEF Unsigned_
    <3>2. Tail(t) = SubSeq(t, 2, Len(t))
      BY <1>3, <1>4, TailIsSubSeq
    <3>3. SubSeq(t, 2, e - u) = SubSeq(s, u + 2, u + (e - u))
      <4>1. u \in Nat /\ e \in 0..Len(s) /\ u <= e /\ 2 \in Nat /\ e - u \in Nat /\ 2 >= 1 /\ e - u <= e - u
        BY <1>1, <1>2
      <4> QED
        BY <4>1, PartOfPart
    <3>4. u + (e - u) = e /\ u + l + 1 = u + 2
      BY <1>1, <2>2
    <3> QED
      BY <1>3, <3>1, <3>2, <3>3, <3>4
  <2> QED
    BY <1>1, <2>1, <2>2
<1> HIDE DEF d
<1> DEFINE c == u + l
<1>7. c \in Nat /\ c <= h /\ c <= e /\ u + l + 1 = c + 1
  BY <1>1
<1>8. /\ d \in Seq(S) /\ Len(d) = e - c /\ \A m \in 1..e - c : d[m] = s[c + m]
  <2> HIDE DEF c
  <2>1. c + 1 \in Nat /\ c + 1 >= 1 /\ e \in 0..Len(s)
    BY <1>1, <1>7
  <2>2. /\ d \in Seq(S) /\ Len(d) = IF c + 1 <= e THEN e - (c + 1) + 1 ELSE 0
        /\ \A m \in 1..e - (c + 1) + 1 : d[m] = s[c + 1 + m - 1]
    BY <1>6, <1>7, <2>1, PartOf
  <2>3. e - (c + 1) + 1 = e - c /\ \A m \in 1..e - c : c + 1 + m - 1 = c + m
    BY <1>7
  <2>4. (IF c + 1 <= e THEN e - c ELSE 0) = e - c
    BY <1>7
  <2> QED
    BY <2>2, <2>3, <2>4
<1>9. Numeral(t) <=> e > c /\ \A m \in c + 1..e : s[m] \in K!NumeralDigits
  <2> HIDE DEF c
  <2>1. d # <<>> <=> e > c
    BY <1>7, <1>8, EmptySeq
  <2>2. ToSet(d) = {s[m] : m \in c + 1..e}
    <3>1. DOMAIN d = 1..e - c
      BY <1>8, LenProperties
    <3>2. ASSUME NEW m \in 1..e - c PROVE c + m \in c + 1..e /\ d[m] = s[c + m]
      <4>1. c + m \in c + 1..e
        BY <1>7
      <4>2. d[m] = s[c + m]
        BY <1>8
      <4> QED
        BY <4>1, <4>2
    <3>3. ASSUME NEW m \in c + 1..e PROVE m - c \in 1..e - c /\ d[m - c] = s[m]
      <4>1. m - c \in 1..e - c /\ c + (m - c) = m
        BY <1>7
      <4> QED
        BY <1>8, <4>1
    <3>4. ToSet(d) = {d[m] : m \in 1..e - c}
      BY <3>1, Zenon DEF ToSet
    <3>5. {d[m] : m \in 1..e - c} \subseteq {s[m] : m \in c + 1..e}
      BY ONLY <3>2
    <3>6. {s[m] : m \in c + 1..e} \subseteq {d[m] : m \in 1..e - c}
      BY ONLY <3>3
    <3> QED
      BY <3>4, <3>5, <3>6, Zenon
  <2>3. ToSet(d) \subseteq K!NumeralDigits <=> \A m \in c + 1..e : s[m] \in K!NumeralDigits
    BY <2>2
  <2> QED
    BY <2>1, <2>3 DEF Numeral, d
<1>10. Numeral(t) <=> h > c /\ e = h
  <2> HIDE DEF c
  <2>1. \A m \in c + 1..h : s[m] \in K!NumeralDigits
    BY <1>7 DEF Read_
  <2>2. ASSUME Numeral(t) PROVE h > c /\ e = h
    <3>1. ~(e > h)
      <4> SUFFICES ASSUME e > h PROVE FALSE
        OBVIOUS
      <4>1. h + 1 \in c + 1..e /\ h < Len(s)
        BY <1>1, <1>7
      <4>2. s[h + 1] \in K!NumeralDigits
        BY <1>9, <2>2, <4>1
      <4> QED
        BY <4>1, <4>2 DEF Read_
    <3>2. e = h
      BY <1>1, <3>1
    <3> QED
      BY <1>9, <2>2, <3>2
  <2> QED
    BY <1>9, <2>1, <2>2
<1>11. ASSUME Numeral(t) PROVE NumberOf(t) = ValueRead(s, u, l, h) /\ NumberOf(t) \in Int
  <2>1. e = h
    BY <1>10, <1>11
  <2>2. NumberOf(t) = IF s[u + 1] = "-" THEN -K!ValueOf(d) ELSE K!ValueOf(d)
    BY <1>4 DEF NumberOf, d
  <2>3. ValueRead(s, u, l, h) = IF s[u + 1] = "-" THEN -K!ValueOf(d) ELSE K!ValueOf(d)
    BY <1>6, <2>1 DEF ValueRead
  <2>4. K!ValueOf(d) \in Nat
    <3>1. ASSUME NEW m \in 1..Len(d) PROVE d[m] \in K!NumeralDigits
      <4>1. d[m] \in ToSet(d)
        BY <1>8, LenProperties DEF ToSet
      <4> QED
        BY <1>11, <4>1 DEF Numeral, d
    <3> QED
      BY <1>8, <3>1, ValueIsNatural
  <2> QED
    BY <2>2, <2>3, <2>4
<1> QED
  BY <1>2, <1>10, <1>11 DEF c, LineReads

-----------------------------------------------------------------------------
(* The answers to a line.                                                  *)

IsNumberCall == question \in Questions /\ question.op \in {"int", "uint", "option"}

LEMMA PossibleIs ==
  ASSUME IsNumberCall, NEW v \in Int, NEW bits, bits = K!Wrapped(v, question.op = "int")
  PROVE  /\ (bits - v) % (2 * Half) = 0
         /\ bits \in Int
         /\ K!InRange(bits) => bits \in K!Possible
         /\ ~K!InRange(bits) => \A w \in K!Possible : (w - v) % (2 * Half) # 0
<1> DEFINE m == 2 * Half
           least == IF question.op = "int" THEN -Half ELSE 0
<1>1. Half \in Nat \ {0} /\ m \in Nat \ {0} /\ least \in Int /\ m = Half + Half
  BY ConsoleConstants
<1>2. bits = least + ((v - least) % m)
  BY DEF K!Wrapped
<1>3. least + m - 1 = IF question.op = "int" THEN Half - 1 ELSE 2 * Half - 1
  BY <1>1
<1>4. bits \in least..least + m - 1 /\ (bits - v) % m = 0
  <2> HIDE DEF m, least
  <2> QED
    BY <1>1, <1>2, Residue
<1> HIDE DEF m
<1>5. CASE question.op \in {"int", "uint"}
  <2>1. K!Possible = IF question.op = "int" THEN -Half..Half - 1 ELSE 0..2 * Half - 1
    BY <1>5 DEF K!Possible
  <2>2. bits \in K!Possible
    BY <1>3, <1>4, <1>5, <2>1
  <2>3. K!InRange(bits)
    BY <1>5 DEF K!InRange
  <2> QED
    BY <1>1, <1>4, <2>2, <2>3 DEF m
<1>6. CASE question.op = "option"
  <2> DEFINE top == Min({question.options, 2 * Half - 1})
  <2>1. K!Possible = 1..top
    BY <1>6 DEF K!Possible, K!Min, Min
  <2>2. question.options \in Nat /\ 2 * Half - 1 \in Nat
    BY <1>1, <1>6, ConsoleConstants DEF IsNumberCall
  <2>3. top \in {question.options, 2 * Half - 1} /\ top <= question.options /\ top <= 2 * Half - 1
    <3> DEFINE two == {question.options, 2 * Half - 1}
    <3>1. two # {} /\ \A n \in two : n \in Nat
      BY <2>2
    <3>2. question.options \in two /\ 2 * Half - 1 \in two
      OBVIOUS
    <3> HIDE DEF two
    <3>3. Min(two) \in two /\ \A n \in two : Min(two) <= n
      BY <3>1, MinIsIn
    <3> QED
      BY <3>2, <3>3 DEF two
  <2> HIDE DEF top
  <2>4. bits \in 0..m - 1 /\ m - 1 = 2 * Half - 1
    BY <1>1, <1>4, <1>6 DEF m
  <2>5. K!InRange(bits) <=> bits \in 1..question.options
    BY <1>6 DEF K!InRange
  <2>6. K!InRange(bits) => bits \in K!Possible
    BY <2>1, <2>2, <2>3, <2>4, <2>5
  <2>7. ASSUME ~K!InRange(bits), NEW w \in K!Possible, (w - v) % m = 0 PROVE FALSE
    <3>1. w \in 1..question.options /\ w \in 0..m - 1
      BY <2>1, <2>2, <2>3, <2>4
    <3>2. w = bits
      BY <1>1, <1>4, <2>4, <2>7, <3>1, OneResidue
    <3> QED
      BY <2>5, <2>7, <3>1, <3>2
  <2> QED
    BY <1>4, <2>4, <2>6, <2>7 DEF m
<1> QED
  BY <1>5, <1>6 DEF IsNumberCall

LEMMA NearestIs == ASSUME NEW v \in Int, NEW signed \in BOOLEAN PROVE K!Nearest(v, signed) \in Int
BY ConsoleConstants DEF K!Nearest

LEMMA NumberAnswers ==
  ASSUME IsNumberCall, NEW S, NEW s \in Seq(S), NEW k, Indented(s, k),
         NEW t, t = Offset(s, k)
  PROVE  /\ ~Numeral(t) => K!AnswersOn(s) = {}
         /\ Numeral(t) /\ NumberOf(t) \in Int =>
              IF K!InRange(K!Converted(NumberOf(t), question.op = "int"))
              THEN K!Converted(NumberOf(t), question.op = "int") \in K!AnswersOn(s)
              ELSE K!AnswersOn(s) = {}
<1>1. K!AnswersOn(s) = {v \in K!Possible : \E n \in K!NumbersOn(s) :
                                (v - K!Nearest(n, question.op = "int")) % (2 * Half) = 0}
  BY DEF K!AnswersOn, IsNumberCall
<1>2. K!NumbersOn(s) = IF Numeral(t) THEN {NumberOf(t)} ELSE {}
  BY NumbersOnIs
<1>3. CASE ~Numeral(t)
  BY <1>1, <1>2, <1>3
<1>4. CASE Numeral(t) /\ NumberOf(t) \in Int
  <2> DEFINE v == NumberOf(t)
             near == K!Nearest(v, question.op = "int")
             bits == K!Converted(v, question.op = "int")
  <2>1. K!NumbersOn(s) = {v}
    BY <1>2, <1>4
  <2>2. K!AnswersOn(s) = {w \in K!Possible : (w - near) % (2 * Half) = 0}
    BY <1>1, <2>1
  <2>3. near \in Int /\ bits = K!Wrapped(near, question.op = "int")
    BY <1>4, NearestIs DEF K!Converted
  <2> HIDE DEF v, near
  <2>4. /\ (bits - near) % (2 * Half) = 0
        /\ K!InRange(bits) => bits \in K!Possible
        /\ ~K!InRange(bits) => \A w \in K!Possible : (w - near) % (2 * Half) # 0
    BY <2>3, PossibleIs
  <2> HIDE DEF bits
  <2>5. IF K!InRange(bits) THEN bits \in K!AnswersOn(s) ELSE K!AnswersOn(s) = {}
    BY <2>2, <2>4
  <2> QED
    BY <1>4, <2>5 DEF v, bits
<1> QED
  BY <1>3, <1>4

-----------------------------------------------------------------------------
(* A call that is busy is at the start of a line, those before having no   *)
(* answer, or at the end of the input.                                     *)

KeyChars == {LF} \cup UNION {ToSet(s) : s \in Typings}

Unanswered(p) ==
  \A a, b \in 0..p : IsLine(typed, a, b) => K!AnswersOn(LineAt(typed, a, b)) = {}

AtLine(p) ==
  /\ p \in 0..Len(typed) /\ stdin = Offset(typed, p)
  /\ p = 0 \/ typed[p] = LF
  /\ Unanswered(p)

Reading ==
  \/ \E p \in 0..Len(typed) :
       AtLine(p) /\ (question.op = "line" => gathered = <<>> /\ (~question.ensure_nonempty => p = 0))
  \/ stdin = <<>> /\ (question.op = "line" => question.ensure_nonempty)

Result == IF question.op = "line" THEN returned ELSE scanned

Answered ==
  \E p \in 1..Len(typed) :
    /\ typed[p] = LF /\ stdin = Offset(typed, p)
    /\ \A a, b \in 0..p :
         IsLine(typed, a, b) =>
           IF b < p THEN K!AnswersOn(LineAt(typed, a, b)) = {}
           ELSE Result \in K!AnswersOn(LineAt(typed, a, b))

EndRead ==
  /\ question.op = "line" /\ ~question.ensure_nonempty
  /\ stdin = <<>> /\ returned = <<>> /\ Without(typed, LF)

ConsoleInv ==
  /\ typed \in Seq(KeyChars) /\ stdin \in Seq(KeyChars) /\ busy \in BOOLEAN
  /\ question \in Questions \/ (question = K!NoCall /\ ~busy)
  /\ busy => Reading
  /\ ~busy /\ question # K!NoCall => Answered \/ EndRead

LEMMA TypingsAre == \A s \in Typings : s \in Seq(KeyChars)
<1> SUFFICES ASSUME NEW s \in Typings PROVE s \in Seq(KeyChars)
  OBVIOUS
<1>1. s \in Seq(ToSet(s)) /\ ToSet(s) \subseteq KeyChars
  BY ConsoleConstants DEF KeyChars
<1> QED
  BY <1>1, SeqMonotonic

LEMMA CallIsNone == \A c \in Questions : c # K!NoCall
BY ConsoleConstants DEF K!NoCall

LEMMA SuffixIs ==
  ASSUME NEW S, NEW s \in Seq(S), NEW p \in 0..Len(s)
  PROVE  K!IsSuffix(Offset(s, p), s)
<1> DEFINE t == Offset(s, p)
<1>1. /\ t \in Seq(S) /\ Len(t) = Len(s) - p /\ \A k \in 1..Len(s) - p : t[k] = s[p + k]
      /\ Len(s) \in Nat
  BY OffsetIs, LenProperties
<1> HIDE DEF t
<1> DEFINE r == [k \in 1..Len(t) |-> t[Len(t) - k + 1]]
           w == [k \in 1..Len(s) |-> s[Len(s) - k + 1]]
<1>2. K!Reverse(t) = r /\ K!Reverse(s) = w
  BY DEF K!Reverse
<1>3. r \in Seq(S) /\ Len(r) = Len(s) - p
  <2>1. \A k \in 1..Len(t) : Len(t) - k + 1 \in 1..Len(t)
    BY <1>1
  <2>2. r \in [1..Len(t) -> S]
    BY <1>1, <2>1, ElementOfSeq
  <2>3. Len(t) \in Nat
    BY <1>1
  <2> HIDE DEF r
  <2> QED
    BY <1>1, <2>2, <2>3
<1>4. w \in Seq(S) /\ Len(w) = Len(s)
  <2>1. \A k \in 1..Len(s) : Len(s) - k + 1 \in 1..Len(s)
    BY <1>1
  <2>2. w \in [1..Len(s) -> S]
    BY <1>1, <2>1, ElementOfSeq
  <2> HIDE DEF w
  <2> QED
    BY <1>1, <2>2
<1>5. \A k \in 1..Len(s) - p : r[k] = w[k]
  <2> SUFFICES ASSUME NEW k \in 1..Len(s) - p PROVE r[k] = w[k]
    OBVIOUS
  <2> DEFINE j == Len(s) - p - k + 1
  <2>1. k \in 1..Len(t) /\ k \in 1..Len(s) /\ j \in 1..Len(s) - p /\ p + j = Len(s) - k + 1
    BY <1>1
  <2>2. r[k] = t[j] /\ w[k] = s[Len(s) - k + 1]
    BY <1>1, <2>1
  <2> HIDE DEF j, r, w
  <2> QED
    BY <1>1, <2>1, <2>2
<1> HIDE DEF r, w
<1>6. SubSeq(w, 1, Len(r)) = SubSeq(r, 1, Len(r))
  <2>1. Len(r) \in 0..Len(w) /\ Len(r) \in 0..Len(r) /\ Len(r) \in Nat
    BY <1>1, <1>3, <1>4
  <2> DEFINE x == SubSeq(w, 1, Len(r))
             y == SubSeq(r, 1, Len(r))
  <2>2. x \in Seq(S) /\ Len(x) = Len(r) /\ \A k \in 1..Len(r) : x[k] = w[k]
    BY <1>4, <2>1, SliceIs
  <2>3. y \in Seq(S) /\ Len(y) = Len(r) /\ \A k \in 1..Len(r) : y[k] = r[k]
    BY <1>3, <2>1, SliceIs
  <2> HIDE DEF x, y
  <2>4. Len(x) = Len(y) /\ \A k \in 1..Len(x) : x[k] = y[k]
    BY <1>3, <1>5, <2>2, <2>3
  <2>5. x = y
    BY <2>2, <2>3, <2>4, SeqEqual
  <2> QED
    BY <2>5 DEF x, y
<1>7. Len(r) <= Len(w)
  BY <1>1, <1>3, <1>4
<1>8. K!IsSuffix(t, s)
  BY <1>2, <1>6, <1>7 DEF K!IsSuffix, K!IsPrefix
<1> QED
  BY <1>8 DEF t

\* A call that has such an answer, or has read the end, has returned what it should.
LEMMA ReturnsRight == ConsoleInv /\ (Answered \/ EndRead) => AnswersWhatWasTyped
<1> SUFFICES ASSUME ConsoleInv, Answered \/ EndRead, ~busy, question # K!NoCall
             PROVE  LET lines == K!LinesOf(SubSeq(typed, 1, Len(typed) - Len(stdin)))
                        last == Len(lines) - 1
                    IN  /\ K!IsSuffix(stdin, typed)
                        /\ \/ /\ last > 0 /\ lines[last + 1] = <<>>
                              /\ Result \in K!AnswersOn(lines[last])
                              /\ \A n \in 1..last - 1 : K!AnswersOn(lines[n]) = {}
                           \/ /\ question.op = "line" /\ ~question.ensure_nonempty
                              /\ last = 0 /\ stdin = <<>> /\ Result = <<>>
  BY DEF AnswersWhatWasTyped, K!AnswersWhatWasTyped, Result
<1>1. typed \in Seq(KeyChars) /\ Len(typed) \in Nat
  BY LenProperties DEF ConsoleInv
<1> DEFINE front == SubSeq(typed, 1, Len(typed) - Len(stdin))
           lines == K!LinesOf(front)
<1>2. lines = SplitByChar(front, LF, NoOptions)
  BY SameLines
<1>3. CASE Answered
  <2>1. PICK p \in 1..Len(typed) :
          /\ typed[p] = LF /\ stdin = Offset(typed, p)
          /\ \A a, b \in 0..p :
               IsLine(typed, a, b) =>
                 IF b < p THEN K!AnswersOn(LineAt(typed, a, b)) = {}
                 ELSE Result \in K!AnswersOn(LineAt(typed, a, b))
    BY <1>3 DEF Answered
  <2>2. p \in 0..Len(typed) /\ p \in Nat /\ p >= 1 /\ Len(typed) - (Len(typed) - p) = p
    BY <1>1
  <2>3. Len(stdin) = Len(typed) - p
    BY <1>1, <2>1, <2>2, OffsetIs
  <2>4. front = SubSeq(typed, 1, p)
    BY <2>2, <2>3
  <2> HIDE DEF front
  <2>5. /\ front \in Seq(KeyChars) /\ Len(front) = p /\ \A n \in 1..p : front[n] = typed[n]
    BY <1>1, <2>2, <2>4, SliceIs
  <2>6. front # <<>> /\ front[Len(front)] = LF
    <3>1. Len(front) # 0 /\ p \in 1..p
      BY <2>2, <2>5
    <3> QED
      BY <2>1, <2>5, <3>1, EmptySeq
  <2>7. LinesAre(front, lines)
    BY <1>2, <2>5, <2>6, LinesOf
  <2> HIDE DEF lines
  <2>8. ASSUME NEW a \in 0..p, NEW b \in 0..p, IsLine(front, a, b)
        PROVE  IsLine(typed, a, b) /\ LineAt(front, a, b) = LineAt(typed, a, b)
    <3>1. /\ b \in 1..p /\ front[b] = LF
          /\ a \in 0..b - 1 /\ (a = 0 \/ front[a] = LF)
          /\ \A n \in a + 1..b - 1 : front[n] # LF
      BY <2>5, <2>8 DEF IsLine
    <3>2. b \in 1..Len(typed) /\ typed[b] = LF
      BY <1>1, <2>5, <3>1
    <3>3. a # 0 => a \in 1..p
      BY <3>1
    <3>4. a = 0 \/ typed[a] = LF
      BY <2>5, <3>1, <3>3
    <3>5. \A n \in a + 1..b - 1 : typed[n] # LF
      <4>1. \A n \in a + 1..b - 1 : n \in 1..p
        BY <3>1
      <4> QED
        BY <2>5, <3>1, <4>1
    <3>6. IsLine(typed, a, b)
      BY <3>1, <3>2, <3>4, <3>5 DEF IsLine
    <3>7. SubSeq(SubSeq(typed, 0 + 1, p), a + 1, b - 1) = SubSeq(typed, 0 + (a + 1), 0 + (b - 1))
      <4>1. 0 \in Nat /\ 0 <= p /\ a + 1 \in Nat /\ b - 1 \in Nat /\ a + 1 >= 1 /\ b - 1 <= p - 0
        BY <2>2, <3>1
      <4> QED
        BY <1>1, <2>2, <4>1, PartOfPart
    <3>8. 0 + 1 = 1 /\ 0 + (a + 1) = a + 1 /\ 0 + (b - 1) = b - 1
      BY <3>1
    <3>9. SubSeq(front, a + 1, b - 1) = SubSeq(typed, a + 1, b - 1)
      BY <2>4, <3>7, <3>8
    <3> QED
      BY <3>6, <3>9 DEF LineAt
  <2>9. Len(lines) \in Nat /\ Len(lines) >= 2 /\ lines[Len(lines)] = <<>>
    BY <2>7 DEF LinesAre
  <2>10. ASSUME NEW n \in 1..Len(lines) - 1
         PROVE  IF n = Len(lines) - 1 THEN Result \in K!AnswersOn(lines[n])
                ELSE K!AnswersOn(lines[n]) = {}
    <3>1. PICK a, b \in 0..p : /\ IsLine(front, a, b) /\ lines[n] = LineAt(front, a, b)
                               /\ b = p <=> n = Len(lines) - 1
      BY <2>5, <2>7 DEF LinesAre
    <3>2. IsLine(typed, a, b) /\ LineAt(front, a, b) = LineAt(typed, a, b)
      <4>1. a \in 0..p /\ b \in 0..p /\ IsLine(front, a, b)
        BY <3>1
      <4> QED
        BY ONLY <2>8, <4>1
    <3>3. lines[n] = LineAt(typed, a, b)
      BY ONLY <3>1, <3>2
    <3>4. IF b < p THEN K!AnswersOn(LineAt(typed, a, b)) = {}
          ELSE Result \in K!AnswersOn(LineAt(typed, a, b))
      <4>1. a \in 0..p /\ b \in 0..p
        OBVIOUS
      <4> QED
        BY <2>1, <3>2, <4>1
    <3>5. (b < p) <=> (b # p)
      BY <2>2
    <3>6. (b = p) <=> (n = Len(lines) - 1)
      BY <3>1
    <3>7. CASE b = p
      BY <3>3, <3>4, <3>5, <3>6, <3>7
    <3>8. CASE b # p
      BY <3>3, <3>4, <3>5, <3>6, <3>8
    <3> QED
      BY <3>7, <3>8
  <2>11. Len(lines) - 1 \in 1..Len(lines) - 1 /\ Len(lines) - 1 > 0 /\ Len(lines) - 1 + 1 = Len(lines)
         /\ \A n \in 1..Len(lines) - 1 - 1 : n \in 1..Len(lines) - 1 /\ n # Len(lines) - 1
    BY <2>9
  <2>12. Result \in K!AnswersOn(lines[Len(lines) - 1])
    BY <2>10, <2>11
  <2>13. \A n \in 1..Len(lines) - 1 - 1 : K!AnswersOn(lines[n]) = {}
    BY <2>10, <2>11
  <2>14. K!IsSuffix(stdin, typed)
    BY <1>1, <2>1, <2>2, SuffixIs
  <2> QED
    BY <2>9, <2>11, <2>12, <2>13, <2>14 DEF lines, front
<1>4. CASE EndRead
  <2>1. stdin = <<>> /\ returned = <<>> /\ Without(typed, LF) /\ question.op = "line" /\ ~question.ensure_nonempty
    BY <1>4 DEF EndRead
  <2>2. front = typed
    <3>1. Len(stdin) = 0 /\ Len(typed) - 0 = Len(typed)
      BY <1>1, <2>1
    <3>2. SubSeq(typed, 1, Len(typed)) = typed
      BY <1>1, SubSeqFull
    <3> QED
      BY <3>1, <3>2
  <2>3. lines = <<typed>>
    <3>1. SplitByChar(typed, LF, NoOptions) = Kept(typed, NoOptions)
      BY <1>1, <2>1, NoOptionsUntrimmed, SplitNone
    <3> QED
      BY <1>1, <1>2, <2>2, <3>1, KeptAlways
  <2> HIDE DEF lines
  <2>4. Len(lines) - 1 = 0
    BY <2>3
  <2>5. K!IsSuffix(stdin, typed)
    <3>1. Len(typed) \in 0..Len(typed) /\ Offset(typed, Len(typed)) = <<>>
      BY <1>1, OffsetBehind
    <3> QED
      BY <1>1, <2>1, <3>1, SuffixIs
  <2>6. Result = <<>>
    BY <2>1 DEF Result
  <2> QED
    BY <2>1, <2>4, <2>5, <2>6 DEF lines, front
<1> QED
  BY <1>3, <1>4

-----------------------------------------------------------------------------
(* What an attempt passes over.                                            *)

\* A line that ends behind a place where one begins begins there or later.
LEMMA LaterLine ==
  ASSUME NEW S, NEW s \in Seq(S), NEW p \in 0..Len(s), p = 0 \/ s[p] = LF,
         NEW a \in Nat, NEW b \in Nat, IsLine(s, a, b), p < b
  PROVE  p <= a
<1>1. Len(s) \in Nat /\ p \in Nat
  BY LenProperties
<1>2. b \in 1..Len(s) /\ \A n \in a + 1..b - 1 : s[n] # LF
  BY DEF IsLine
<1>3. ASSUME a < p PROVE FALSE
  <2>1. p \in a + 1..b - 1
    BY <1>1, <1>3
  <2>2. p # 0
    BY <1>1, <1>3
  <2> QED
    BY <1>2, <2>1, <2>2
<1> QED
  BY <1>1, <1>3

\* The next line is the only one behind p up to its break.
LEMMA NextLine ==
  ASSUME NEW S, NEW s \in Seq(S), NEW p \in 0..Len(s), p = 0 \/ s[p] = LF,
         NEW q \in Nat, p < q, \A m \in p + 1..q - 1 : s[m] # LF,
         NEW a \in Nat, NEW b \in Nat, IsLine(s, a, b), p < b, b <= q
  PROVE  a = p /\ b = q
<1>1. Len(s) \in Nat /\ p \in Nat
  BY LenProperties
<1>2. b \in 1..Len(s) /\ s[b] = LF /\ a \in 0..b - 1 /\ (a = 0 \/ s[a] = LF)
  BY DEF IsLine
<1>3. b = q
  <2>1. b # q => b \in p + 1..q - 1
    BY <1>1
  <2> QED
    BY <1>2, <2>1
<1>4. p <= a
  BY LaterLine
<1>5. a # p => a \in p + 1..q - 1 /\ a # 0
  BY <1>1, <1>2, <1>3, <1>4
<1> QED
  BY <1>2, <1>3, <1>5

\* The lines up to the end of the one a number is read from are spaces, and that one is
\* spaces and what is behind them.
LineOfSpaces(y) == Indented(y, Len(y)) /\ Offset(y, Len(y)) = <<>>
LineOf(y, t) == \E k : Indented(y, k) /\ Offset(y, k) = t

LEMMA NumberLine ==
  ASSUME NEW S, NEW s \in Seq(S), NEW p \in 0..Len(s), p = 0 \/ s[p] = LF,
         NEW r, r = Offset(s, p), NEW u, Indented(r, u), NEW e \in Nat, u < e, e < Len(r),
         \A m \in u + 1..e : r[m] # LF,
         NEW a \in Nat, NEW b \in Nat, IsLine(s, a, b), p < b, b <= p + e + 1,
         NEW y, y = LineAt(s, a, b)
  PROVE  /\ y \in Seq(S)
         /\ b < p + e + 1 => LineOfSpaces(y)
         /\ b = p + e + 1 => LineOf(y, SubSeq(r, u + 1, e))
<1>1. /\ r \in Seq(S) /\ Len(r) = Len(s) - p /\ \A m \in 1..Len(s) - p : r[m] = s[p + m]
      /\ Len(s) \in Nat /\ p \in Nat
  <2>1. /\ Offset(s, p) \in Seq(S) /\ Len(Offset(s, p)) = Len(s) - p
        /\ \A m \in 1..Len(s) - p : Offset(s, p)[m] = s[p + m]
    BY OffsetIs
  <2>2. Len(s) \in Nat /\ p \in Nat
    BY LenProperties
  <2> QED
    BY <2>1, <2>2, Zenon
<1>2. /\ b \in 1..Len(s) /\ s[b] = LF /\ a \in 0..b - 1 /\ (a = 0 \/ s[a] = LF)
  BY DEF IsLine
<1>3. p <= a
  BY LaterLine
<1>4. /\ u \in 0..Len(r) /\ \A m \in 1..u : r[m] \in Spaces
      /\ u < Len(r) => r[u + 1] \notin Spaces
  BY DEF Indented
<1> DEFINE d == a - p
           n == b - 1 - a
<1>5. d \in Nat /\ n \in Nat /\ a + n = b - 1 /\ p + d = a
  BY <1>1, <1>2, <1>3
<1> HIDE DEF d, n
<1>6. /\ y \in Seq(S) /\ Len(y) = n /\ \A j \in 1..n : y[j] = r[d + j]
  <2>1. a + 1 \in 1..Len(s) + 1 /\ b - 1 \in a..Len(s) /\ a \in Nat
    BY <1>1, <1>2
  <2>2. y \in Seq(S) /\ Len(y) = b - 1 - (a + 1) + 1 /\ \A j \in 1..b - 1 - (a + 1) + 1 : y[j] = s[a + 1 + j - 1]
    BY <2>1, PartOf DEF LineAt
  <2>3. b - 1 - (a + 1) + 1 = n
    BY <1>1, <1>2 DEF n
  <2>4. ASSUME NEW j \in 1..n PROVE y[j] = r[d + j]
    <3>1. a + 1 + j - 1 = p + (d + j) /\ d + j \in 1..Len(s) - p
      BY <1>1, <1>2, <1>5
    <3> QED
      BY <1>1, <2>2, <2>3, <3>1
  <2> QED
    BY <2>2, <2>3, <2>4
<1>7. ASSUME NEW m \in 1..e, r[m] = LF PROVE m <= u
  <2>1. m \notin u + 1..e
    BY <1>7
  <2> QED
    BY <1>1, <1>4, <2>1
<1>8. d <= u
  <2>1. CASE d = 0
    BY <1>1, <1>4, <2>1
  <2>2. CASE d # 0
    <3>1. d \in 1..e /\ d \in 1..Len(s) - p /\ a # 0
      BY <1>1, <1>2, <1>5, <2>2
    <3>2. r[d] = s[a]
      BY <1>1, <1>5, <3>1
    <3> QED
      BY <1>2, <1>7, <3>1, <3>2
  <2> QED
    BY <2>1, <2>2
<1>9. ASSUME b < p + e + 1 PROVE LineOfSpaces(y)
  <2>1. b - p \in 1..e /\ b - p \in 1..Len(s) - p /\ p + (b - p) = b
    BY <1>1, <1>2, <1>9
  <2>2. b - p <= u
    <3>1. r[b - p] = LF
      BY <1>1, <1>2, <2>1
    <3> QED
      BY <1>7, <2>1, <3>1
  <2>3. ASSUME NEW j \in 1..n PROVE y[j] \in Spaces
    <3>1. d + j \in 1..u
      BY <1>1, <1>4, <1>5, <2>2
    <3> QED
      BY <1>4, <1>6, <3>1
  <2>4. Len(y) \in 0..Len(y) /\ Len(y) \in Nat /\ ~(Len(y) < Len(y))
    BY <1>5, <1>6
  <2>5. Offset(y, Len(y)) = <<>>
    <3>1. Len(y) \in Nat /\ Len(y) >= Len(y)
      BY <2>4
    <3> QED
      BY <1>6, <3>1, OffsetBehind
  <2> QED
    BY <1>6, <2>3, <2>4, <2>5 DEF LineOfSpaces, Indented
<1>10. ASSUME b = p + e + 1 PROVE LineOf(y, SubSeq(r, u + 1, e))
  <2> DEFINE k == u - d
             z == Offset(y, k)
             t == SubSeq(r, u + 1, e)
  <2>1. k \in 0..n /\ k < n /\ k \in Nat /\ d + k = u /\ n = e - d /\ u \in Nat
    BY <1>1, <1>4, <1>5, <1>8, <1>10
  <2> HIDE DEF k
  <2>2. ASSUME NEW j \in 1..k PROVE y[j] \in Spaces
    <3>1. d + j \in 1..u /\ j \in 1..n
      BY <1>5, <2>1
    <3> QED
      BY <1>4, <1>6, <3>1
  <2>3. y[k + 1] \notin Spaces
    <3>1. k + 1 \in 1..n /\ d + (k + 1) = u + 1 /\ u < Len(r)
      BY <1>1, <1>5, <2>1
    <3> QED
      BY <1>4, <1>6, <3>1
  <2>4. Indented(y, k)
    BY <1>6, <2>1, <2>2, <2>3 DEF Indented
  <2>5. z \in Seq(S) /\ Len(z) = n - k /\ \A j \in 1..n - k : z[j] = y[k + j]
    <3>1. k \in 0..Len(y)
      BY <1>6, <2>1
    <3>2. /\ Offset(y, k) \in Seq(S) /\ Len(Offset(y, k)) = Len(y) - k
          /\ \A j \in 1..Len(y) - k : Offset(y, k)[j] = y[k + j]
      <4>1. y \in Seq(S)
        BY <1>6
      <4> QED
        BY ONLY <4>1, <3>1, OffsetIs
    <3> QED
      BY <1>6, <3>2
  <2>6. t \in Seq(S) /\ Len(t) = e - (u + 1) + 1 /\ \A j \in 1..e - (u + 1) + 1 : t[j] = r[u + 1 + j - 1]
    <3>1. u + 1 \in 1..Len(r) + 1 /\ e \in u..Len(r)
      BY <1>1, <2>1
    <3> QED
      BY <1>1, <2>1, <3>1, PartOf
  <2> HIDE DEF z, t
  <2>7. e - (u + 1) + 1 = n - k
    BY <1>5, <2>1
  <2>8. ASSUME NEW j \in 1..n - k PROVE z[j] = t[j]
    <3>1. k + j \in 1..n /\ d + (k + j) = u + 1 + j - 1
      BY <1>5, <2>1
    <3>2. z[j] = r[u + 1 + j - 1]
      BY <1>6, <2>5, <3>1
    <3> QED
      BY <2>6, <2>7, <3>2
  <2>9. z = t
    <3>1. Len(z) = Len(t) /\ \A j \in 1..Len(z) : z[j] = t[j]
      BY <2>5, <2>6, <2>7, <2>8
    <3> QED
      BY <2>5, <2>6, <3>1, SeqEqual
  <2> QED
    BY <2>4, <2>9 DEF LineOf, z, t
<1> QED
  BY <1>6, <1>9, <1>10

-----------------------------------------------------------------------------
(* The console's steps.                                                    *)

LEMMA BreakIsKey == LF \in KeyChars
<1>1. LF \in {LF}
  OBVIOUS
<1> QED
  BY <1>1 DEF KeyChars

\* A step of the same call does not change the answers to a line.
LEMMA SameAnswers ==
  ASSUME question' = question
  PROVE  \A x : K!AnswersOn(x)' = K!AnswersOn(x)
BY DEF K!AnswersOn, K!Possible

LEMMA InitConsole == K!Init => ConsoleInv
<1> SUFFICES ASSUME K!Init PROVE ConsoleInv
  OBVIOUS
<1>1. stdin \in Typings /\ typed = stdin /\ question = K!NoCall /\ busy = FALSE
  BY DEF K!Init
<1>2. stdin \in Seq(KeyChars)
  BY <1>1, TypingsAre
<1> QED
  BY <1>1, <1>2 DEF ConsoleInv

\* A call that is made is at the start of what is left.
LEMMA CallKeeps ==
  ASSUME ConsoleInv, NEW c \in Questions, K!Call(c)
  PROVE  ConsoleInv'
<1>1. question' = c /\ busy' = TRUE /\ gathered' = <<>> /\ typed' = stdin /\ stdin' = stdin
  BY DEF K!Call
<1>2. stdin \in Seq(KeyChars) /\ Len(stdin) \in Nat
  BY LenProperties DEF ConsoleInv
<1>3. Offset(stdin, 0) = stdin
  <2>1. SubSeq(stdin, 0 + 1, Len(stdin)) = stdin
    BY <1>2, SubSeqFull
  <2> QED
    BY <2>1 DEF Offset
<1>4. AtLine(0)'
  <2>1. \A a, b \in 0..0 : ~IsLine(stdin, a, b)
    BY DEF IsLine
  <2>2. Unanswered(0)'
    BY <1>1, <2>1 DEF Unanswered
  <2> QED
    BY <1>1, <1>2, <1>3, <2>2 DEF AtLine
<1>5. Reading'
  <2>1. 0 \in 0..Len(typed')
    BY <1>1, <1>2
  <2> QED
    BY <1>1, <1>4, <2>1 DEF Reading
<1> QED
  BY <1>1, <1>2, <1>5 DEF ConsoleInv

\* What is left is a part of what was typed, and the line of the next break is passed.
LEMMA RestTyped ==
  ASSUME ConsoleInv, NEW p, AtLine(p), NEW e \in Nat, e < Len(stdin), stdin[e + 1] = LF,
         stdin' = Offset(stdin, e + 1), NEW q, q = p + e + 1
  PROVE  /\ q \in 1..Len(typed) /\ p < q /\ p \in 0..Len(typed) /\ typed[q] = LF
         /\ stdin' = Offset(typed, q) /\ stdin' \in Seq(KeyChars)
<1>1. typed \in Seq(KeyChars) /\ Len(typed) \in Nat /\ p \in 0..Len(typed) /\ stdin = Offset(typed, p)
  BY LenProperties DEF ConsoleInv, AtLine
<1>2. Len(stdin) = Len(typed) - p /\ \A m \in 1..Len(typed) - p : stdin[m] = typed[p + m]
  BY <1>1, OffsetIs
<1>3. q \in 1..Len(typed) /\ p < q /\ p + (e + 1) = q /\ e + 1 \in 0..Len(typed) - p /\ e + 1 \in 1..Len(typed) - p
  BY <1>1, <1>2
<1>4. typed[q] = LF
  BY <1>2, <1>3
<1>5. Offset(Offset(typed, p), e + 1) = Offset(typed, p + (e + 1))
  BY <1>1, <1>3, OffsetTwice
<1>6. stdin' = Offset(typed, q)
  BY <1>1, <1>3, <1>5
<1>7. Offset(typed, q) \in Seq(KeyChars)
  <2>1. q \in 0..Len(typed)
    BY <1>3
  <2> QED
    BY <1>1, <2>1, OffsetIs
<1> QED
  BY <1>1, <1>3, <1>4, <1>6, <1>7

\* An attempt that has passed line breaks, the last at q, none of whose lines has an
\* answer but for the last one if it is what the call returns.
LEMMA AttemptKeeps ==
  ASSUME ConsoleInv, busy, question' = question, typed' = typed, busy' \in BOOLEAN,
         NEW p, AtLine(p), NEW q \in 1..Len(typed), p < q, typed[q] = LF,
         stdin' = Offset(typed, q), stdin' \in Seq(KeyChars),
         question.op = "line" => (gathered' = <<>> /\ question.ensure_nonempty) \/ ~busy',
         \A a, b \in 0..q :
           IsLine(typed, a, b) /\ p < b =>
             IF b < q \/ busy' THEN K!AnswersOn(LineAt(typed, a, b)) = {}
             ELSE Result' \in K!AnswersOn(LineAt(typed, a, b))
  PROVE  ConsoleInv'
<1>1. typed \in Seq(KeyChars) /\ Len(typed) \in Nat /\ p \in 0..Len(typed) /\ Unanswered(p)
  BY LenProperties DEF ConsoleInv, AtLine
<1>2. question \in Questions /\ question # K!NoCall
  BY CallIsNone DEF ConsoleInv
<1>3. ASSUME NEW a \in 0..q, NEW b \in 0..q, IsLine(typed, a, b), b <= p
      PROVE  K!AnswersOn(LineAt(typed, a, b)) = {}
  <2>1. a \in 0..b - 1 /\ b \in 1..Len(typed)
    BY <1>3 DEF IsLine
  <2>2. a \in 0..p /\ b \in 0..p
    BY <1>1, <1>3, <2>1
  <2> QED
    BY <1>1, <1>3, <2>2 DEF Unanswered
<1>4. ASSUME NEW a \in 0..q, NEW b \in 0..q, IsLine(typed, a, b)
      PROVE  IF b < q \/ busy' THEN K!AnswersOn(LineAt(typed, a, b)) = {}
             ELSE Result' \in K!AnswersOn(LineAt(typed, a, b))
  <2>1. CASE b <= p
    <3>1. b < q
      BY <1>1, <2>1
    <3> QED
      BY <1>3, <1>4, <2>1, <3>1
  <2>2. CASE ~(b <= p)
    <3>1. p < b
      BY <1>1, <2>2
    <3> QED
      BY <1>4, <3>1
  <2> QED
    BY <2>1, <2>2
<1>5. q \in 0..Len(typed')
  BY <1>1
<1>6. CASE busy'
  <2>1. \A a, b \in 0..q : IsLine(typed, a, b) => K!AnswersOn(LineAt(typed, a, b)) = {}
    BY <1>4, <1>6
  <2>2. Unanswered(q)'
    BY <2>1, SameAnswers DEF Unanswered
  <2>3. AtLine(q)'
    BY <1>5, <2>2 DEF AtLine
  <2>4. Reading'
    BY <1>5, <1>6, <2>3 DEF Reading
  <2> QED
    BY <1>1, <1>2, <1>6, <2>4 DEF ConsoleInv
<1>7. CASE ~busy'
  <2>1. \A a, b \in 0..q :
          IsLine(typed, a, b) => IF b < q THEN K!AnswersOn(LineAt(typed, a, b)) = {}
                                 ELSE Result' \in K!AnswersOn(LineAt(typed, a, b))
    BY <1>4, <1>7
  <2>2. Answered'
    BY <2>1, SameAnswers DEF Answered
  <2> QED
    BY <1>1, <1>2, <1>7, <2>2 DEF ConsoleInv
<1> QED
  BY <1>6, <1>7

\* An attempt that reads the end of the input, and goes on.
LEMMA EndKeeps ==
  ASSUME ConsoleInv, busy, question' = question, typed' = typed, busy',
         stdin' = <<>>, question.op = "line" => question.ensure_nonempty
  PROVE  ConsoleInv'
<1>1. Reading'
  BY DEF Reading
<1>2. <<>> \in Seq(KeyChars)
  OBVIOUS
<1> QED
  BY <1>1, <1>2 DEF ConsoleInv

\* Where a line is read from, nothing is gathered, or all that was typed has been read.
LEMMA ReadLineKeeps ==
  ASSUME ConsoleInv, K!ReadLine
  PROVE  ConsoleInv'
<1> DEFINE idx == CharIndex(stdin, LF)
           cut == Slice(stdin, 0, idx)
<1>1. /\ busy /\ question.op = "line" /\ question' = question /\ typed' = typed
      /\ question \in Questions /\ question.ensure_nonempty \in BOOLEAN
      /\ busy \in BOOLEAN /\ Reading
      /\ stdin \in Seq(KeyChars) /\ typed \in Seq(KeyChars)
  BY ConsoleConstants DEF ConsoleInv, K!ReadLine
<1>2. /\ stdin' = (IF idx = None THEN <<>> ELSE Offset(stdin, idx + 1))
      /\ gathered' = gathered \o cut
      /\ IF idx # None /\ gathered' # <<>> /\ (question.ensure_nonempty => K!NonBlank(gathered'))
         THEN busy' = FALSE /\ returned' = gathered'
         ELSE busy' = question.ensure_nonempty /\ returned' = <<>>
  BY SameFunctions DEF K!ReadLine, K!Behind, LF
<1>3. K!NonBlank(gathered')
  BY ConsoleConstants DEF K!NonBlank
<1>4. IF idx # None /\ gathered' # <<>>
      THEN busy' = FALSE /\ returned' = gathered'
      ELSE busy' = question.ensure_nonempty /\ returned' = <<>>
  BY <1>2, <1>3
<1>5. busy' \in BOOLEAN
  BY <1>1, <1>4
<1>6. CASE stdin = <<>>
  <2>1. idx = None
    <3>1. Len(stdin) = 0
      BY <1>6
    <3>2. 0..0 - 1 = {}
      OBVIOUS
    <3> QED
      BY <1>1, <3>1, <3>2, CharIndexIs
  <2> HIDE DEF idx, cut
  <2>2. stdin' = <<>> /\ busy' = question.ensure_nonempty /\ returned' = <<>>
    BY <1>2, <1>4, <2>1
  <2>3. CASE question.ensure_nonempty
    <3>1. busy'
      BY <2>2, <2>3
    <3> QED
      BY <1>1, <2>2, <2>3, <3>1, EndKeeps
  <2>4. CASE ~question.ensure_nonempty
    <3>1. PICK p \in 0..Len(typed) : AtLine(p) /\ p = 0
      BY <1>1, <2>4 DEF Reading
    <3>2. AtLine(0)
      BY <3>1
    <3>3. typed = <<>>
      <4>1. Offset(typed, 0) = typed
        <5>1. SubSeq(typed, 0 + 1, Len(typed)) = typed
          BY <1>1, SubSeqFull
        <5> QED
          BY <5>1 DEF Offset
      <4> QED
        BY <1>6, <3>2, <4>1 DEF AtLine
    <3>4. Without(typed, LF)
      <4>1. Len(typed) = 0
        BY <3>3
      <4> QED
        BY <4>1 DEF Without
    <3>5. EndRead'
      BY <1>1, <2>2, <2>4, <3>4 DEF EndRead
    <3>6. busy' = FALSE /\ <<>> \in Seq(KeyChars)
      BY <1>1, <2>2, <2>4
    <3> QED
      BY <1>1, <2>2, <3>5, <3>6, CallIsNone DEF ConsoleInv
  <2> QED
    BY <2>3, <2>4
<1>7. CASE stdin # <<>>
  <2>1. PICK p \in 0..Len(typed) :
          AtLine(p) /\ gathered = <<>> /\ (~question.ensure_nonempty => p = 0)
    BY <1>1, <1>7 DEF Reading
  <2>2. stdin = Offset(typed, p) /\ Len(typed) \in Nat /\ p \in Nat
    BY <1>1, <2>1, LenProperties DEF AtLine
  <2>3. \/ /\ idx = None /\ \A m \in p + 1..Len(typed) : typed[m] # LF
           /\ cut = Offset(typed, p)
        \/ /\ idx \in Nat /\ p + idx < Len(typed) /\ typed[p + idx + 1] = LF
           /\ \A m \in p + 1..p + idx : typed[m] # LF
           /\ cut \in Seq(KeyChars) /\ Len(cut) = idx
           /\ \A m \in 1..idx : cut[m] = typed[p + m]
    BY <1>1, <2>2, NextCharIs
  <2> HIDE DEF idx, cut
  <2>4. CASE idx = None
    <3>1. stdin' = <<>> /\ busy' = question.ensure_nonempty /\ returned' = <<>>
      BY <1>2, <1>4, <2>4
    <3>2. CASE question.ensure_nonempty
      <4>1. busy'
        BY <3>1, <3>2
      <4> QED
        BY <1>1, <3>1, <3>2, <4>1, EndKeeps
    <3>3. CASE ~question.ensure_nonempty
      <4>1. p = 0
        BY <2>1, <3>3
      <4>2. \A m \in 1..Len(typed) : typed[m] # LF
        <5>1. None \notin Nat
          BY DEF None
        <5>2. \A m \in 0 + 1..Len(typed) : typed[m] # LF
          BY <2>3, <2>4, <4>1, <5>1
        <5> QED
          BY <5>2
      <4>3. EndRead'
        BY <1>1, <3>1, <3>3, <4>2 DEF EndRead, Without
      <4>4. busy' = FALSE /\ <<>> \in Seq(KeyChars)
        BY <1>1, <3>1, <3>3
      <4> QED
        BY <1>1, <3>1, <4>3, <4>4, CallIsNone DEF ConsoleInv
    <3> QED
      BY <3>2, <3>3
  <2>5. CASE idx # None
    <3>1. /\ idx \in Nat /\ p + idx < Len(typed) /\ typed[p + idx + 1] = LF
          /\ \A m \in p + 1..p + idx : typed[m] # LF
          /\ cut \in Seq(KeyChars) /\ Len(cut) = idx
          /\ \A m \in 1..idx : cut[m] = typed[p + m]
      BY <2>3, <2>5
    <3> DEFINE q == p + idx + 1
               y == SubSeq(typed, p + 1, q - 1)
    <3>2. gathered' = cut
      BY <1>2, <2>1, <3>1
    <3>3. cut = y
      <4>1. p + 1 \in Nat /\ q - 1 \in 0..Len(typed) /\ p + 1 >= 1 /\ q - 1 = p + idx
        BY <2>2, <3>1
      <4>2. /\ y \in Seq(KeyChars)
            /\ Len(y) = IF p + 1 <= q - 1 THEN q - 1 - (p + 1) + 1 ELSE 0
            /\ \A k \in 1..q - 1 - (p + 1) + 1 : y[k] = typed[p + 1 + k - 1]
        BY <1>1, <4>1, PartOf
      <4>3. Len(y) = idx
        BY <2>2, <3>1, <4>1, <4>2
      <4>4. ASSUME NEW k \in 1..idx PROVE cut[k] = y[k]
        <5>1. k \in 1..q - 1 - (p + 1) + 1 /\ p + 1 + k - 1 = p + k
          BY <2>2, <3>1, <4>1
        <5> HIDE DEF q, y
        <5> QED
          BY <3>1, <4>2, <5>1
      <4>5. Len(cut) = Len(y) /\ \A k \in 1..Len(cut) : cut[k] = y[k]
        BY <3>1, <4>3, <4>4
      <4> HIDE DEF y, q
      <4> QED
        BY <3>1, <4>2, <4>5, SeqEqual
    <3>4. stdin' = Offset(stdin, idx + 1)
      BY <1>2, <2>5
    <3>5. Len(stdin) = Len(typed) - p /\ \A m \in 1..Len(typed) - p : stdin[m] = typed[p + m]
      BY <1>1, <2>2, OffsetIs
    <3>6. idx < Len(stdin) /\ stdin[idx + 1] = LF
      <4>1. idx + 1 \in 1..Len(typed) - p /\ p + (idx + 1) = p + idx + 1
        BY <2>2, <3>1
      <4> QED
        BY <2>2, <3>1, <3>5, <4>1
    <3>7. /\ q \in 1..Len(typed) /\ p < q /\ p \in 0..Len(typed) /\ typed[q] = LF
          /\ stdin' = Offset(typed, q) /\ stdin' \in Seq(KeyChars)
      BY <2>1, <3>1, <3>4, <3>6, RestTyped
    <3>8. ASSUME NEW a \in 0..q, NEW b \in 0..q, IsLine(typed, a, b), p < b
          PROVE  a = p /\ b = q /\ LineAt(typed, a, b) = gathered'
      <4>1. q - 1 = p + idx /\ a \in Nat /\ b \in Nat /\ b <= q /\ q \in Nat
        BY <2>2, <3>1
      <4>2. \A m \in p + 1..q - 1 : typed[m] # LF
        BY <3>1, <4>1
      <4>3. p = 0 \/ typed[p] = LF
        BY <2>1 DEF AtLine
      <4> HIDE DEF q, y
      <4>4. a = p /\ b = q
        BY <1>1, <3>7, <3>8, <4>1, <4>2, <4>3, NextLine
      <4> QED
        BY <3>2, <3>3, <4>4 DEF LineAt, y
    <3>9. K!AnswersOn(gathered') =
            IF gathered' = <<>> /\ question.ensure_nonempty THEN {} ELSE {gathered'}
      BY <1>1 DEF K!AnswersOn
    <3>10. Result' = returned'
      BY <1>1 DEF Result
    <3>11. IF gathered' # <<>> THEN ~busy' /\ returned' = gathered'
           ELSE busy' = question.ensure_nonempty /\ returned' = <<>>
      BY <1>4, <2>5
    <3>12. /\ busy' => K!AnswersOn(gathered') = {}
           /\ ~busy' => Result' \in K!AnswersOn(gathered')
      BY <3>9, <3>10, <3>11
    <3>13. (gathered' = <<>> /\ question.ensure_nonempty) \/ ~busy'
      BY <3>11
    <3> HIDE DEF q, y
    <3>14. q \in Nat /\ ~(q < q)
      BY <3>7
    <3>15. \A a, b \in 0..q :
             IsLine(typed, a, b) /\ p < b =>
               IF b < q \/ busy' THEN K!AnswersOn(LineAt(typed, a, b)) = {}
               ELSE Result' \in K!AnswersOn(LineAt(typed, a, b))
      <4> SUFFICES ASSUME NEW a \in 0..q, NEW b \in 0..q, IsLine(typed, a, b), p < b
                   PROVE  IF b < q \/ busy' THEN K!AnswersOn(LineAt(typed, a, b)) = {}
                          ELSE Result' \in K!AnswersOn(LineAt(typed, a, b))
        OBVIOUS
      <4>1. b = q /\ LineAt(typed, a, b) = gathered'
        BY <3>8
      <4> QED
        BY <3>12, <3>14, <4>1
    <3> QED
      BY <1>1, <1>5, <2>1, <3>7, <3>13, <3>15, AttemptKeeps
  <2> QED
    BY <2>4, <2>5
<1> QED
  BY <1>6, <1>7

\* An attempt at a number passes the spaces before it, and the line that is behind them.
NumberStep(u, e) ==
  /\ Indented(stdin, u) /\ e \in Nat /\ u < e /\ e < Len(stdin) /\ stdin[e + 1] = LF
  /\ \A m \in u + 1..e : stdin[m] # LF
  /\ stdin' = Offset(stdin, e + 1)
  /\ IF Numeral(SubSeq(stdin, u + 1, e))
     THEN /\ NumberOf(SubSeq(stdin, u + 1, e)) \in Int
          /\ scanned' = K!Converted(NumberOf(SubSeq(stdin, u + 1, e)), question.op = "int")
          /\ busy' = ~K!InRange(scanned')
     ELSE busy' = TRUE

LEMMA BreakStarts ==
  ASSUME NEW S, NEW s \in Seq(S), NEW n \in 0..Len(s)
  PROVE  StartsWith(Offset(s, n), <<LF>>) <=> n < Len(s) /\ s[n + 1] = LF
<1>1. <<LF>> \in Seq({LF}) /\ Len(<<LF>>) = 1 /\ <<LF>>[1] = LF
  OBVIOUS
<1>2. StartsWith(Offset(s, n), <<LF>>) <=> At(s, n, <<LF>>)
  BY <1>1, StartsIs
<1>3. At(s, n, <<LF>>) <=> n + 1 <= Len(s) /\ s[n + 1] = LF
  BY <1>1 DEF At
<1>4. n + 1 <= Len(s) <=> n < Len(s)
  BY LenProperties
<1> QED
  BY <1>2, <1>3, <1>4

LEMMA ReadNumberStep ==
  ASSUME ConsoleInv, K!ReadNumber
  PROVE  (stdin' = <<>> /\ busy' = TRUE) \/ \E u, e : NumberStep(u, e)
<1>1. /\ busy = TRUE /\ stdin \in Seq(KeyChars) /\ Len(stdin) \in Nat
      /\ (question.op = "int") \in BOOLEAN
  BY LenProperties DEF ConsoleInv, K!ReadNumber
<1> DEFINE scan == K!Scan(stdin, question.op = "int")
<1>2. /\ scanned' = IF scan.matched THEN scan.value ELSE scanned
      /\ IF scan.matched /\ StartsWith(scan.rest, <<LF>>)
         THEN stdin' = Offset(scan.rest, 1) /\ busy' = ~K!InRange(scanned')
         ELSE stdin' = K!ClearStdin(scan.rest) /\ busy' = busy
  BY SameFunctions DEF K!ReadNumber, LF, K!InRange
<1> HIDE DEF scan
<1>3. PICK u, l, h : Read_(stdin, u, l, h) /\ ScanRead(scan, stdin, u, l, h, question.op = "int")
  BY <1>1, ScanIs DEF scan
<1>4. /\ scan.matched <=> h > u + l
      /\ h > u + l => scan.value = K!Converted(ValueRead(stdin, u, l, h), question.op = "int")
      /\ scan.rest = Offset(stdin, h)
  BY <1>3 DEF ScanRead
<1>5. /\ Indented(stdin, u) /\ u \in 0..Len(stdin) /\ l \in {0, 1} /\ h \in u + l..Len(stdin)
      /\ u \in Nat /\ h \in Nat /\ h \in 0..Len(stdin)
  BY <1>1, <1>3 DEF Read_, Indented
<1>6. ASSUME NEW e \in Nat, h <= e, e < Len(stdin), stdin[e + 1] = LF,
             \A m \in h + 1..e : stdin[m] # LF, stdin' = Offset(stdin, e + 1),
             IF h > u + l /\ e = h
             THEN scanned' = scan.value /\ busy' = ~K!InRange(scanned')
             ELSE busy' = TRUE
      PROVE  NumberStep(u, e)
  <2> DEFINE t == SubSeq(stdin, u + 1, e)
  <2>1. /\ u < e
        /\ Numeral(t) <=> h > u + l /\ e = h
        /\ Numeral(t) => NumberOf(t) = ValueRead(stdin, u, l, h) /\ NumberOf(t) \in Int
    <3>1. /\ stdin \in Seq(KeyChars) /\ Read_(stdin, u, l, h)
          /\ e \in Nat /\ h <= e /\ e < Len(stdin) /\ stdin[e + 1] = LF
      BY <1>1, <1>3, <1>6
    <3>2. t = SubSeq(stdin, u + 1, e)
      OBVIOUS
    <3> HIDE DEF t
    <3>3. u \in Nat /\ l \in Nat /\ h \in Nat
      BY <1>5
    <3>4. LineReads(t, stdin, u, l, h, e)
      BY ONLY <3>1, <3>2, <3>3, NumeralIs
    <3> QED
      BY <3>4 DEF LineReads
  <2> HIDE DEF t
  <2>2. \A m \in u + 1..e : stdin[m] # LF
    <3>1. \A m \in u + 1..h : stdin[m] # LF
      BY <1>1, <1>3, NoBreakRead
    <3>2. \A m \in u + 1..e : m \in u + 1..h \/ m \in h + 1..e
      BY <1>5
    <3> QED
      BY <1>6, <3>1, <3>2
  <2>3. IF Numeral(t)
        THEN /\ NumberOf(t) \in Int
             /\ scanned' = K!Converted(NumberOf(t), question.op = "int")
             /\ busy' = ~K!InRange(scanned')
        ELSE busy' = TRUE
    <3>1. CASE Numeral(t)
      <4>1. NumberOf(t) = ValueRead(stdin, u, l, h) /\ NumberOf(t) \in Int /\ h > u + l /\ e = h
        BY <2>1, <3>1
      <4>2. scanned' = scan.value /\ busy' = ~K!InRange(scanned')
        BY <1>6, <4>1
      <4>3. scanned' = K!Converted(NumberOf(t), question.op = "int")
        BY <1>4, <4>1, <4>2, Zenon
      <4> QED
        BY <3>1, <4>1, <4>2, <4>3
    <3>2. CASE ~Numeral(t)
      BY <1>6, <2>1, <3>2
    <3> QED
      BY <3>1, <3>2
  <2> QED
    BY <1>5, <1>6, <2>1, <2>2, <2>3 DEF NumberStep, t
<1>7. StartsWith(scan.rest, <<LF>>) <=> h < Len(stdin) /\ stdin[h + 1] = LF
  BY <1>1, <1>4, <1>5, BreakStarts
<1>8. CASE scan.matched /\ StartsWith(scan.rest, <<LF>>)
  <2>1. stdin' = Offset(stdin, h + 1)
    <3>1. 1 \in 0..Len(stdin) - h
      BY <1>1, <1>5, <1>7, <1>8
    <3>2. Offset(Offset(stdin, h), 1) = Offset(stdin, h + 1)
      BY <1>1, <1>5, <3>1, OffsetTwice
    <3> QED
      BY <1>2, <1>4, <1>8, <3>2
  <2>2. scanned' = scan.value /\ busy' = ~K!InRange(scanned')
    BY <1>2, <1>8
  <2>3. h <= h /\ h + 1..h = {}
    BY <1>5
  <2>4. NumberStep(u, h)
    BY <1>4, <1>5, <1>6, <1>7, <1>8, <2>1, <2>2, <2>3
  <2> QED
    BY <2>4
<1>9. CASE ~(scan.matched /\ StartsWith(scan.rest, <<LF>>))
  <2> DEFINE idx == CharIndex(Offset(stdin, h), LF)
  <2>1. stdin' = (IF idx = None THEN <<>> ELSE Offset(Offset(stdin, h), idx + 1)) /\ busy' = TRUE
    BY <1>1, <1>2, <1>4, <1>9, SameFunctions DEF K!ClearStdin, K!Behind, LF
  <2>2. \/ idx = None
        \/ /\ idx \in Nat /\ h + idx < Len(stdin) /\ stdin[h + idx + 1] = LF
           /\ \A m \in h + 1..h + idx : stdin[m] # LF
    BY <1>1, <1>5, NextCharIs
  <2> HIDE DEF idx
  <2>3. CASE idx = None
    BY <2>1, <2>3
  <2>4. CASE idx # None
    <3>1. /\ idx \in Nat /\ h + idx < Len(stdin) /\ stdin[h + idx + 1] = LF
          /\ \A m \in h + 1..h + idx : stdin[m] # LF
      BY <2>2, <2>4
    <3> DEFINE e == h + idx
    <3>2. e \in Nat /\ h <= e /\ h + (idx + 1) = e + 1 /\ idx + 1 \in 0..Len(stdin) - h
      BY <1>1, <1>5, <3>1
    <3>3. Offset(Offset(stdin, h), idx + 1) = Offset(stdin, h + (idx + 1))
      BY <1>1, <1>5, <3>2, OffsetTwice
    <3>4. stdin' = Offset(stdin, e + 1)
      BY <2>1, <2>4, <3>2, <3>3
    <3>5. ~(h > u + l /\ e = h)
      BY <1>4, <1>7, <1>9, <3>1
    <3>6. busy' = TRUE
      BY <2>1
    <3>7. e < Len(stdin) /\ stdin[e + 1] = LF /\ \A m \in h + 1..e : stdin[m] # LF
      BY <3>1
    <3> HIDE DEF e
    <3>8. NumberStep(u, e)
      BY <1>6, <3>2, <3>4, <3>5, <3>6, <3>7
    <3> QED
      BY <3>8
  <2> QED
    BY <2>3, <2>4
<1> QED
  BY <1>8, <1>9

LEMMA ReadNumberKeeps ==
  ASSUME ConsoleInv, K!ReadNumber
  PROVE  ConsoleInv'
<1>1. /\ busy /\ busy \in BOOLEAN /\ question' = question /\ typed' = typed /\ IsNumberCall
      /\ question.op # "line" /\ Reading
      /\ stdin \in Seq(KeyChars) /\ typed \in Seq(KeyChars) /\ Len(stdin) \in Nat /\ Len(typed) \in Nat
  BY LenProperties DEF ConsoleInv, K!ReadNumber, IsNumberCall
<1>2. CASE stdin' = <<>> /\ busy' = TRUE
  BY <1>1, <1>2, EndKeeps
<1>3. ASSUME NEW u, NEW e, NumberStep(u, e) PROVE ConsoleInv'
  <2> DEFINE t == SubSeq(stdin, u + 1, e)
  <2>1. /\ Indented(stdin, u) /\ e \in Nat /\ u < e /\ e < Len(stdin) /\ stdin[e + 1] = LF
        /\ \A m \in u + 1..e : stdin[m] # LF
        /\ stdin' = Offset(stdin, e + 1)
        /\ IF Numeral(t)
           THEN /\ NumberOf(t) \in Int
                /\ scanned' = K!Converted(NumberOf(t), question.op = "int")
                /\ busy' = ~K!InRange(scanned')
           ELSE busy' = TRUE
    BY <1>3 DEF NumberStep
  <2> HIDE DEF t
  <2>2. busy' \in BOOLEAN
    BY <2>1
  <2>3. PICK p \in 0..Len(typed) : AtLine(p)
    <3>1. stdin # <<>>
      BY <1>1, <2>1
    <3> QED
      BY <1>1, <3>1 DEF Reading
  <2>4. stdin = Offset(typed, p) /\ (p = 0 \/ typed[p] = LF) /\ p \in Nat
    BY <1>1, <2>3 DEF AtLine
  <2> DEFINE q == p + e + 1
  <2>5. /\ q \in 1..Len(typed) /\ p < q /\ p \in 0..Len(typed) /\ typed[q] = LF
        /\ stdin' = Offset(typed, q) /\ stdin' \in Seq(KeyChars)
    BY <2>1, <2>3, RestTyped
  <2>6. Result' = scanned'
    BY <1>1 DEF Result
  <2>7. ~Numeral(<<>>)
    BY DEF Numeral, Unsigned_
  <2>8. ASSUME NEW a \in 0..q, NEW b \in 0..q, IsLine(typed, a, b), p < b
        PROVE  IF b < q \/ busy' THEN K!AnswersOn(LineAt(typed, a, b)) = {}
               ELSE Result' \in K!AnswersOn(LineAt(typed, a, b))
    <3> DEFINE y == LineAt(typed, a, b)
    <3>1. a \in Nat /\ b \in Nat /\ b <= p + e + 1 /\ (b < q <=> b < p + e + 1) /\ (~(b < q) => b = p + e + 1)
      BY <2>1, <2>4
    <3>2. /\ y \in Seq(KeyChars)
          /\ b < p + e + 1 => LineOfSpaces(y)
          /\ b = p + e + 1 => LineOf(y, t)
      <4>1. y = LineAt(typed, a, b) /\ typed \in Seq(KeyChars) /\ t = SubSeq(stdin, u + 1, e)
        BY <1>1 DEF t
      <4> HIDE DEF y, q
      <4> QED
        BY ONLY <4>1, <2>1, <2>3, <2>4, <2>8, <3>1, NumberLine
    <3> HIDE DEF y, q
    <3>3. CASE b < q
      <4>1. LineOfSpaces(y)
        BY <3>1, <3>2, <3>3
      <4>2. Indented(y, Len(y)) /\ Offset(y, Len(y)) = <<>>
        BY <4>1 DEF LineOfSpaces
      <4>3. K!AnswersOn(y) = {}
        BY <1>1, <2>7, <3>2, <4>2, NumberAnswers
      <4> QED
        BY <3>3, <4>3 DEF y
    <3>4. CASE ~(b < q)
      <4>1. LineOf(y, t)
        BY <3>1, <3>2, <3>4
      <4>2. PICK k : Indented(y, k) /\ t = Offset(y, k)
        BY <4>1 DEF LineOf
      <4>3. /\ ~Numeral(t) => K!AnswersOn(y) = {}
            /\ Numeral(t) /\ NumberOf(t) \in Int =>
                 IF K!InRange(K!Converted(NumberOf(t), question.op = "int"))
                 THEN K!Converted(NumberOf(t), question.op = "int") \in K!AnswersOn(y)
                 ELSE K!AnswersOn(y) = {}
        BY <1>1, <3>2, <4>2, NumberAnswers
      <4>4. CASE ~Numeral(t)
        <5>1. busy' = TRUE /\ K!AnswersOn(y) = {}
          BY <2>1, <4>3, <4>4
        <5> QED
          BY <5>1 DEF y
      <4>5. CASE Numeral(t)
        <5>1. /\ NumberOf(t) \in Int /\ scanned' = K!Converted(NumberOf(t), question.op = "int")
              /\ busy' = ~K!InRange(scanned')
          BY <2>1, <4>5
        <5>2. IF K!InRange(scanned') THEN scanned' \in K!AnswersOn(y) ELSE K!AnswersOn(y) = {}
          BY <4>3, <4>5, <5>1
        <5>3. IF busy' THEN K!AnswersOn(y) = {} ELSE scanned' \in K!AnswersOn(y)
          BY <5>1, <5>2
        <5> QED
          BY <2>6, <3>4, <5>3 DEF y
      <4> QED
        BY <4>4, <4>5
    <3> QED
      BY <3>3, <3>4
  <2> HIDE DEF q
  <2>9. \A a, b \in 0..q :
          IsLine(typed, a, b) /\ p < b =>
            IF b < q \/ busy' THEN K!AnswersOn(LineAt(typed, a, b)) = {}
            ELSE Result' \in K!AnswersOn(LineAt(typed, a, b))
    BY <2>8
  <2> QED
    BY <1>1, <2>2, <2>3, <2>5, <2>9, AttemptKeeps
<1> QED
  BY <1>2, <1>3, ReadNumberStep

\* The console's invariant holds of every behaviour of cio.c.
LEMMA ConsoleStep == ConsoleInv /\ [K!Next]_K!vars => ConsoleInv'
<1> SUFFICES ASSUME ConsoleInv, [K!Next]_K!vars PROVE ConsoleInv'
  OBVIOUS
<1>1. ASSUME NEW c \in Questions, K!Call(c) PROVE ConsoleInv'
  BY <1>1, CallKeeps
<1>2. CASE K!ReadLine
  BY <1>2, ReadLineKeeps
<1>3. CASE K!ReadNumber
  BY <1>3, ReadNumberKeeps
<1>4. CASE UNCHANGED K!vars
  <2>1. /\ stdin' = stdin /\ question' = question /\ busy' = busy /\ gathered' = gathered
        /\ returned' = returned /\ scanned' = scanned /\ typed' = typed
    BY <1>4 DEF K!vars
  <2>2. \A x : K!AnswersOn(x)' = K!AnswersOn(x)
    BY <2>1, SameAnswers
  <2>3. \A p : Unanswered(p)' <=> Unanswered(p)
    BY <2>1, <2>2 DEF Unanswered
  <2>4. \A p : AtLine(p)' <=> AtLine(p)
    BY <2>1, <2>3 DEF AtLine
  <2>5. Reading => Reading'
    BY <2>1, <2>4 DEF Reading
  <2>6. Result' = Result
    BY <2>1 DEF Result
  <2>7. Answered => Answered'
    BY <2>1, <2>2, <2>6 DEF Answered
  <2>8. EndRead => EndRead'
    BY <2>1 DEF EndRead
  <2> QED
    BY <2>1, <2>5, <2>7, <2>8 DEF ConsoleInv
<1> QED
  BY <1>1, <1>2, <1>3, <1>4 DEF K!Next, K!Step

\* Whatever is typed and whatever is asked, one question after the other, a call returns what
\* the first line with an answer says and leaves what is behind that line, or has read the
\* end of the input; for ints of any number of bits.
THEOREM AnswersAreTyped == K!Spec => []AnswersWhatWasTyped
<1>1. K!Init => ConsoleInv
  BY InitConsole
<1>2. ConsoleInv /\ [K!Next]_K!vars => ConsoleInv'
  BY ConsoleStep
<1>3. ConsoleInv => AnswersWhatWasTyped
  <2>1. ConsoleInv /\ ~(Answered \/ EndRead) => AnswersWhatWasTyped
    BY DEF ConsoleInv, AnswersWhatWasTyped, K!AnswersWhatWasTyped
  <2> QED
    BY <2>1, ReturnsRight
<1> QED
  BY <1>1, <1>2, <1>3, PTL DEF K!Spec

-----------------------------------------------------------------------------
(* Texts, one after the other.                                             *)

\* pre[n] is the first n of them.
IsFlattened(pre, parts, len) ==
  pre = [n \in 1..len |-> IF n = 1 THEN parts[n] ELSE pre[n - 1] \o parts[n]]

LEMMA FlattenIs ==
  ASSUME NEW parts, NEW len \in Nat \ {0}, Len(parts) = len, NEW pre, IsFlattened(pre, parts, len)
  PROVE  FlattenSeq(parts) = pre[len]
<1> DEFINE f == CHOOSE f : IsFlattened(f, parts, len)
<1>1. FlattenSeq(parts) = f[len]
  BY DEF FlattenSeq, IsFlattened
<1>2. IsFlattened(f, parts, len)
  OBVIOUS
<1> HIDE DEF f
<1> DEFINE bad == {n \in 1..len : f[n] # pre[n]}
<1>3. ASSUME bad # {} PROVE FALSE
  <2> DEFINE n == Min(bad)
  <2>1. \A k \in bad : k \in Nat
    OBVIOUS
  <2>2. n \in bad /\ \A k \in bad : n <= k
    BY <1>3, <2>1, MinIsIn
  <2> HIDE DEF n
  <2>3. n \in 1..len /\ f[n] # pre[n]
    BY <2>2
  <2>4. f[n] = IF n = 1 THEN parts[n] ELSE f[n - 1] \o parts[n]
    BY <1>2, <2>3 DEF IsFlattened
  <2>5. pre[n] = IF n = 1 THEN parts[n] ELSE pre[n - 1] \o parts[n]
    BY <2>3 DEF IsFlattened
  <2>6. n # 1
    BY <2>3, <2>4, <2>5
  <2>7. n - 1 \in 1..len /\ ~(n <= n - 1)
    BY <2>3, <2>6
  <2>8. f[n - 1] = pre[n - 1]
    BY <2>2, <2>7
  <2> QED
    BY <2>3, <2>4, <2>5, <2>6, <2>8
<1> QED
  BY <1>1, <1>3

\* The parts of a text up to the places e[1], e[2], ... are the text.
LEMMA FlattenParts ==
  ASSUME NEW S, NEW s \in Seq(S), NEW len \in Nat \ {0}, NEW parts, Len(parts) = len,
         NEW e, \A n \in 1..len : e[n] \in 0..Len(s), e[len] = Len(s),
         parts[1] = SubSeq(s, 1, e[1]),
         \A n \in 2..len : e[n - 1] <= e[n] /\ parts[n] = SubSeq(s, e[n - 1] + 1, e[n])
  PROVE  FlattenSeq(parts) = s
<1> DEFINE pre == [n \in 1..len |-> SubSeq(s, 1, e[n])]
           other(n) == IF n = 1 THEN parts[n] ELSE pre[n - 1] \o parts[n]
<1>1. ASSUME NEW n \in 1..len PROVE SubSeq(s, 1, e[n]) = other(n)
  <2>1. CASE n = 1
    BY <2>1
  <2>2. CASE n # 1
    <3>1. n \in 2..len /\ n - 1 \in 1..len
      BY <2>2
    <3> DEFINE a == e[n - 1]
               b == e[n]
    <3>2. a <= b /\ parts[n] = SubSeq(s, a + 1, b) /\ a \in 0..Len(s) /\ b \in 0..Len(s)
      BY <3>1
    <3>3. pre[n - 1] = SubSeq(s, 1, a)
      BY <3>1
    <3> HIDE DEF a, b
    <3>4. 1 \in 1..Len(s) + 1 /\ a \in 1 - 1..Len(s) /\ b \in a..Len(s)
      BY <3>2, LenProperties
    <3>5. SubSeq(s, 1, a) \o SubSeq(s, a + 1, b) = SubSeq(s, 1, b)
      BY <3>4, ConcatAdjacentSubSeq
    <3> HIDE DEF pre
    <3>6. other(n) = SubSeq(s, 1, b)
      BY <2>2, <3>2, <3>3, <3>5
    <3> QED
      BY <3>6 DEF b
  <2> QED
    BY <2>1, <2>2
<1>2. pre = [n \in 1..len |-> other(n)]
  <2> HIDE DEF other
  <2> QED
    BY <1>1
<1>3. IsFlattened(pre, parts, len)
  BY <1>2 DEF IsFlattened
<1>4. pre[len] = s
  <2>1. pre[len] = SubSeq(s, 1, Len(s))
    OBVIOUS
  <2> HIDE DEF pre
  <2> QED
    BY <2>1, SubSeqFull
<1> HIDE DEF pre
<1> QED
  BY <1>3, <1>4, FlattenIs

-----------------------------------------------------------------------------
(* All the places of a character.                                          *)

IsIndices(f, s, c) ==
  f = [n \in 0..Len(s) |->
         IF CharIndex(Offset(s, n), c) = None THEN <<>>
         ELSE <<n + CharIndex(Offset(s, n), c)>> \o f[n + CharIndex(Offset(s, n), c) + 1]]

\* t has all the places of c from n on, in order.
Chain(t, s, c, n) ==
  /\ t \in Seq(Nat)
  /\ \A k \in 1..Len(t) : t[k] \in n..Len(s) - 1 /\ s[t[k] + 1] = c
  /\ \A j, k \in 1..Len(t) : j < k => t[j] < t[k]
  /\ \A m \in n + 1..Len(s) : s[m] = c => \E k \in 1..Len(t) : m = t[k] + 1

LEMMA IndicesExist ==
  ASSUME NEW S, NEW s \in Seq(S), NEW c
  PROVE  \E f : IsIndices(f, s, c)
<1> DEFINE top == Len(s)
           index(n) == CharIndex(Offset(s, n), c)
           more == {n \in 0..top : index(n) # None}
           next == [n \in 0..top |-> n + index(n) + 1]
           head == [n \in 0..top |-> <<n + index(n)>>]
           last == [n \in 0..top |-> <<>>]
<1>1. top \in Nat /\ 0 \in Nat /\ 0 <= top
  BY LenProperties
<1>2. Onward(0, top, more, next)
  <2> SUFFICES ASSUME NEW n \in more PROVE next[n] \in n + 1..top
    BY DEF Onward
  <2>1. n \in 0..Len(s) /\ index(n) # None
    OBVIOUS
  <2>2. next[n] = n + index(n) + 1
    BY <2>1
  <2>3. index(n) = CharIndex(Offset(s, n), c)
    OBVIOUS
  <2> HIDE DEF next, index, more
  <2>4. index(n) \in Nat /\ n + index(n) < Len(s)
    BY <2>1, <2>3, NextCharIs
  <2> QED
    BY <1>1, <2>1, <2>2, <2>4
<1>3. ASSUME NEW f
      PROVE  IsLoop(f, 0, top, more, more, head, next, last) <=> IsIndices(f, s, c)
  <2> DEFINE value(n) == IF n \notin more THEN last[n]
                         ELSE IF n \in more THEN head[n] \o f[next[n]] ELSE f[next[n]]
             other(n) == IF index(n) = None THEN <<>> ELSE <<n + index(n)>> \o f[n + index(n) + 1]
  <2>1. ASSUME NEW n \in 0..top PROVE value(n) = other(n)
    <3>1. /\ head[n] = <<n + index(n)>> /\ next[n] = n + index(n) + 1 /\ (n \in more <=> index(n) # None)
          /\ last[n] = <<>>
      OBVIOUS
    <3> HIDE DEF index, head, next, more, last
    <3> QED
      BY <3>1
  <2>2. IsLoop(f, 0, top, more, more, head, next, last) <=> f = [n \in 0..top |-> value(n)]
    BY DEF IsLoop
  <2>3. IsIndices(f, s, c) <=> f = [n \in 0..top |-> other(n)]
    BY DEF IsIndices
  <2> HIDE DEF value, other
  <2>4. [n \in 0..top |-> value(n)] = [n \in 0..top |-> other(n)]
    BY <2>1
  <2> QED
    BY <2>2, <2>3, <2>4
<1> HIDE DEF more, next, head, last
<1>4. \E f : IsLoop(f, 0, top, more, more, head, next, last)
  BY <1>1, <1>2, LoopExists
<1> QED
  BY <1>3, <1>4

\* One place more at the front.
LEMMA ChainMore ==
  ASSUME NEW S, NEW s \in Seq(S), NEW c, NEW n \in 0..Len(s), NEW p \in n..Len(s) - 1, s[p + 1] = c,
         \A m \in n + 1..p : s[m] # c, NEW t, Chain(t, s, c, p + 1)
  PROVE  Chain(<<p>> \o t, s, c, n)
<1>1. /\ Len(s) \in Nat /\ t \in Seq(Nat) /\ Len(t) \in Nat
      /\ \A k \in 1..Len(t) : t[k] \in p + 1..Len(s) - 1 /\ s[t[k] + 1] = c
      /\ \A j, k \in 1..Len(t) : j < k => t[j] < t[k]
      /\ \A m \in p + 1 + 1..Len(s) : s[m] = c => \E k \in 1..Len(t) : m = t[k] + 1
  BY LenProperties DEF Chain
<1> DEFINE u == <<p>> \o t
<1>2. p \in Nat /\ n \in Nat /\ n <= p
  BY <1>1
<1>3. <<p>> \in Seq(Nat) /\ Len(<<p>>) = 1 /\ <<p>>[1] = p
  BY <1>2
<1>4. u \in Seq(Nat) /\ Len(u) = 1 + Len(t)
      /\ \A k \in 1..1 + Len(t) : u[k] = IF k <= 1 THEN <<p>>[k] ELSE t[k - 1]
  <2>1. u \in Seq(Nat) /\ Len(u) = Len(<<p>>) + Len(t)
        /\ \A k \in 1..Len(<<p>>) + Len(t) : u[k] = IF k <= Len(<<p>>) THEN <<p>>[k] ELSE t[k - Len(<<p>>)]
    BY <1>1, <1>3, ConcatProperties
  <2> HIDE DEF u
  <2> QED
    BY <1>3, <2>1
<1> HIDE DEF u
<1>5. u[1] = p /\ \A k \in 2..Len(u) : k - 1 \in 1..Len(t) /\ u[k] = t[k - 1]
  <2>1. 1 \in 1..1 + Len(t) /\ u[1] = <<p>>[1]
    BY <1>1, <1>4
  <2>2. ASSUME NEW k \in 2..Len(u) PROVE k - 1 \in 1..Len(t) /\ u[k] = t[k - 1]
    <3>1. k - 1 \in 1..Len(t) /\ k \in 1..1 + Len(t) /\ ~(k <= 1)
      BY <1>1, <1>4
    <3> QED
      BY <1>4, <3>1
  <2> QED
    BY <1>3, <2>1, <2>2
<1>6. \A k \in 1..Len(u) : k = 1 \/ k \in 2..Len(u)
  OBVIOUS
<1>7. ASSUME NEW k \in 1..Len(u) PROVE u[k] \in n..Len(s) - 1 /\ s[u[k] + 1] = c
  <2>1. CASE k = 1
    BY <1>5, <2>1
  <2>2. CASE k \in 2..Len(u)
    <3>1. t[k - 1] \in p + 1..Len(s) - 1 /\ s[t[k - 1] + 1] = c
      BY <1>1, <1>5, <2>2
    <3>2. t[k - 1] \in n..Len(s) - 1
      BY <1>1, <1>2, <3>1
    <3> QED
      BY <1>5, <2>2, <3>1, <3>2
  <2> QED
    BY <1>6, <2>1, <2>2
<1>8. ASSUME NEW j \in 1..Len(u), NEW k \in 1..Len(u), j < k PROVE u[j] < u[k]
  <2>1. k \in 2..Len(u) /\ Len(u) \in Nat
    BY <1>1, <1>4, <1>8
  <2>2. k - 1 \in 1..Len(t) /\ u[k] = t[k - 1] /\ t[k - 1] \in p + 1..Len(s) - 1
    BY <1>1, <1>5, <2>1
  <2>3. CASE j = 1
    BY <1>1, <1>2, <1>5, <2>2, <2>3
  <2>4. CASE j # 1
    <3>1. j \in 2..Len(u) /\ j - 1 < k - 1
      BY <1>8, <2>1, <2>4
    <3>2. j - 1 \in 1..Len(t) /\ u[j] = t[j - 1]
      BY <1>5, <3>1
    <3> QED
      BY <1>1, <2>2, <3>1, <3>2
  <2> QED
    BY <2>3, <2>4
<1>9. ASSUME NEW m \in n + 1..Len(s), s[m] = c PROVE \E k \in 1..Len(u) : m = u[k] + 1
  <2>1. m \notin n + 1..p
    BY <1>9
  <2>2. CASE m = p + 1
    <3>1. 1 \in 1..Len(u)
      BY <1>1, <1>4
    <3> QED
      BY <1>5, <2>2, <3>1
  <2>3. CASE m # p + 1
    <3>1. m \in p + 1 + 1..Len(s)
      BY <1>1, <1>2, <2>1, <2>3
    <3>2. PICK k \in 1..Len(t) : m = t[k] + 1
      BY <1>1, <1>9, <3>1
    <3>3. k + 1 \in 2..Len(u) /\ k + 1 \in 1..Len(u) /\ k + 1 - 1 = k
      BY <1>1, <1>4
    <3>4. u[k + 1] = t[k]
      BY <1>5, <3>3
    <3> QED
      BY <3>2, <3>3, <3>4
  <2> QED
    BY <2>2, <2>3
<1>10. Chain(u, s, c, n)
  BY <1>4, <1>7, <1>8, <1>9 DEF Chain
<1> QED
  BY <1>10 DEF u

LEMMA IndicesIs ==
  ASSUME NEW S, NEW s \in Seq(S), NEW c, NEW t, t = Indices(s, LAMBDA r : CharIndex(r, c))
  PROVE  Chain(t, s, c, 0)
<1> DEFINE f == CHOOSE f : IsIndices(f, s, c)
<1>1. t = f[0]
  BY DEF Indices, IsIndices
<1>2. IsIndices(f, s, c)
  BY IndicesExist
<1> HIDE DEF f
<1>3. Len(s) \in Nat
  BY LenProperties
<1> DEFINE bad == {k \in 0..Len(s) : ~Chain(f[Len(s) - k], s, c, Len(s) - k)}
<1>4. ASSUME bad # {} PROVE FALSE
  <2> DEFINE k == Min(bad)
             n == Len(s) - k
  <2>1. \A j \in bad : j \in Nat
    OBVIOUS
  <2>2. k \in bad /\ \A j \in bad : k <= j
    BY <1>4, <2>1, MinIsIn
  <2> HIDE DEF k
  <2>3. k \in 0..Len(s) /\ n \in 0..Len(s) /\ ~Chain(f[n], s, c, n)
    BY <1>3, <2>2
  <2> DEFINE idx == CharIndex(Offset(s, n), c)
  <2>4. \/ idx = None /\ \A m \in n + 1..Len(s) : s[m] # c
        \/ /\ idx \in Nat /\ n + idx < Len(s) /\ s[n + idx + 1] = c
           /\ \A m \in n + 1..n + idx : s[m] # c
    <3> HIDE DEF n
    <3> QED
      BY <2>3, NextCharIs
  <2>5. f[n] = IF idx = None THEN <<>> ELSE <<n + idx>> \o f[n + idx + 1]
    <3> HIDE DEF n
    <3> QED
      BY <1>2, <2>3 DEF IsIndices
  <2> HIDE DEF idx
  <2>6. CASE idx = None
    <3>1. f[n] = <<>> /\ \A m \in n + 1..Len(s) : s[m] # c
      BY <2>4, <2>5, <2>6 DEF None
    <3>2. <<>> \in Seq(Nat) /\ Len(<<>>) = 0 /\ 1..0 = {}
      OBVIOUS
    <3> HIDE DEF n
    <3> QED
      BY <2>3, <3>1, <3>2 DEF Chain
  <2>7. CASE idx # None
    <3>1. /\ idx \in Nat /\ n + idx < Len(s) /\ s[n + idx + 1] = c
          /\ \A m \in n + 1..n + idx : s[m] # c
      BY <2>4, <2>7
    <3> DEFINE p == n + idx
               j == Len(s) - (p + 1)
    <3>2. p \in n..Len(s) - 1 /\ j \in 0..Len(s) /\ Len(s) - j = p + 1 /\ j < k
      BY <1>3, <2>3, <3>1
    <3>9. j \in Nat /\ k \in Nat /\ ~(k <= j)
      <4>1. k \in 0..Len(s)
        BY <2>3
      <4> HIDE DEF j
      <4> QED
        BY <1>3, <3>2, <4>1
    <3>3. j \notin bad
      <4> HIDE DEF bad, j
      <4> QED
        BY <2>2, <3>9
    <3>4. Chain(f[Len(s) - j], s, c, Len(s) - j)
      <4> HIDE DEF j, p, n
      <4> QED
        BY <3>2, <3>3
    <3>5. Chain(f[p + 1], s, c, p + 1)
      <4> HIDE DEF j, p, n
      <4> QED
        BY <3>2, <3>4
    <3>6. f[n] = <<p>> \o f[p + 1]
      BY <2>5, <2>7
    <3>7. s[p + 1] = c /\ \A m \in n + 1..p : s[m] # c
      BY <3>1
    <3> HIDE DEF p, n
    <3>8. Chain(<<p>> \o f[p + 1], s, c, n)
      BY <2>3, <3>2, <3>5, <3>7, ChainMore
    <3> QED
      BY <2>3, <3>6, <3>8
  <2> QED
    BY <2>6, <2>7
<1>5. Len(s) \in 0..Len(s) /\ Len(s) - Len(s) = 0
  BY <1>3
<1>6. Chain(f[Len(s) - Len(s)], s, c, Len(s) - Len(s))
  BY <1>4, <1>5
<1> QED
  BY <1>1, <1>5, <1>6

-----------------------------------------------------------------------------
(* Templates.                                                              *)

LEMMA OutputIs ==
  ASSUME NEW b \in BOOLEAN, NEW x, NEW o, o = Output(b, x)
  PROVE  o.bold = b /\ o.text = x
BY DEF Output

Even(n) == n % 2 = 0

\* Where the pieces end.
EndOf(s, t, n) == IF n = Len(t) + 1 THEN Len(s) ELSE t[n]

\* The pieces of s that has its marks at t.
IsTemplate(p, s, t) ==
  /\ Len(p) = Len(t) + 1
  /\ p[1] = Output(FALSE, SubSeq(s, 1, EndOf(s, t, 1)))
  /\ \A n \in 2..Len(t) + 1 :
       p[n].bold = Even(n) /\ p[n].text = SubSeq(s, t[n - 1] + 2, EndOf(s, t, n))

LEMMA TemplateIs ==
  ASSUME NEW S, NEW s \in Seq(S)
  PROVE  \E t : Chain(t, s, Mark, 0) /\ IsTemplate(Template(s), s, t)
<1> DEFINE t == Places(s)
<1>1. Chain(t, s, Mark, 0)
  BY IndicesIs DEF Places
<1> DEFINE last == Len(t)
           until(n) == IF n = last THEN Len(s) ELSE t[n + 1]
           to == IF last = 0 THEN None ELSE t[1]
           first == Output(FALSE, Slice(s, 0, to))
           rest == [n \in 1..last |-> Output(n % 2 = 1, SubSeq(s, t[n] + 2, until(n)))]
           p == <<first>> \o rest
<1>2. Template(s) = p
  BY DEF Template, Places
<1> HIDE DEF t
<1>3. last \in Nat /\ Len(s) \in Nat /\ \A k \in 1..last : t[k] \in 0..Len(s) - 1
  BY <1>1, LenProperties DEF Chain
<1>4. first = Output(FALSE, SubSeq(s, 1, EndOf(s, t, 1)))
  <2>1. CASE last = 0
    <3>1. to = None
      BY <2>1
    <3> HIDE DEF to
    <3>2. Slice(s, 0, to) = SubSeq(s, 1, Len(s))
      BY <3>1 DEF Slice
    <3>3. EndOf(s, t, 1) = Len(s)
      BY <2>1 DEF EndOf
    <3> QED
      BY <3>2, <3>3
  <2>2. CASE last # 0
    <3>1. 1 \in 1..last /\ 1 # last + 1 /\ to = t[1]
      BY <1>3, <2>2
    <3>2. to # None
      BY <1>3, <3>1 DEF None
    <3> HIDE DEF to
    <3>3. Slice(s, 0, to) = SubSeq(s, 1, to)
      <4>1. Slice(s, 0, to) = SubSeq(s, 0 + 1, to)
        BY ONLY <3>2 DEF Slice
      <4>2. 0 + 1 = 1
        OBVIOUS
      <4> QED
        BY <4>1, <4>2
    <3>4. EndOf(s, t, 1) = t[1]
      BY <3>1 DEF EndOf
    <3> QED
      BY <3>1, <3>3, <3>4
  <2> QED
    BY <2>1, <2>2
<1>5. Len(rest) = last /\ rest \in Seq(Range(rest))
  <2> DEFINE item(n) == Output(n % 2 = 1, SubSeq(s, t[n] + 2, until(n)))
  <2> HIDE DEF item
  <2>1. rest = [n \in 1..last |-> item(n)]
    BY DEF item
  <2> HIDE DEF rest
  <2>2. DOMAIN rest = 1..last /\ rest = [n \in 1..last |-> rest[n]]
    BY <2>1
  <2>3. \A n \in 1..last : rest[n] \in Range(rest)
    BY <2>2 DEF Range
  <2> QED
    BY <1>3, <2>2, <2>3
<1> DEFINE T == Range(rest) \cup {first}
<1>6. <<first>> \in Seq(T) /\ rest \in Seq(T) /\ Len(<<first>>) = 1 /\ <<first>>[1] = first
  <2> HIDE DEF first, rest
  <2>1. Range(rest) \subseteq T
    OBVIOUS
  <2>2. rest \in Seq(T)
    BY <1>5, <2>1
  <2> QED
    BY <2>2
<1>7. Len(p) = last + 1 /\ p[1] = first /\ \A n \in 2..last + 1 : p[n] = rest[n - 1]
  <2> HIDE DEF first, rest, T
  <2>1. /\ Len(p) = Len(<<first>>) + Len(rest)
        /\ \A k \in 1..Len(<<first>>) + Len(rest) :
             p[k] = IF k <= Len(<<first>>) THEN <<first>>[k] ELSE rest[k - Len(<<first>>)]
    BY <1>6, ConcatProperties
  <2> HIDE DEF p
  <2>2. Len(p) = 1 + last /\ \A k \in 1..1 + last : p[k] = IF k <= 1 THEN <<first>>[k] ELSE rest[k - 1]
    BY <1>5, <1>6, <2>1
  <2>3. 1 \in 1..1 + last
    BY <1>3
  <2> QED
    BY <1>3, <1>6, <2>2, <2>3
<1>8. ASSUME NEW n \in 2..Len(t) + 1
      PROVE  p[n].bold = Even(n) /\ p[n].text = SubSeq(s, t[n - 1] + 2, EndOf(s, t, n))
  <2>1. n - 1 \in 1..last /\ n \in 2..last + 1
    BY <1>3
  <2>2. p[n] = rest[n - 1]
    BY <1>7, <2>1
  <2>3. /\ rest[n - 1].bold = ((n - 1) % 2 = 1)
        /\ rest[n - 1].text = SubSeq(s, t[n - 1] + 2, until(n - 1))
    <3> DEFINE m == n - 1
    <3> HIDE DEF m, until
    <3>1. m \in 1..last
      BY <2>1 DEF m
    <3>2. rest[m] = [bold |-> m % 2 = 1, text |-> SubSeq(s, t[m] + 2, until(m))]
      BY <3>1 DEF Output
    <3> HIDE DEF rest
    <3>3. rest[m].bold = (m % 2 = 1)
      BY <3>2
    <3>4. rest[m].text = SubSeq(s, t[m] + 2, until(m))
      <4> DEFINE x == SubSeq(s, t[m] + 2, until(m))
                 b == m % 2 = 1
      <4>1. rest[m] = [bold |-> b, text |-> x]
        BY <3>2
      <4> HIDE DEF x, b
      <4>2. rest[m].text = x
        BY <4>1
      <4> QED
        BY <4>2 DEF x
    <3> QED
      BY <3>3, <3>4 DEF m
  <2>4. ((n - 1) % 2 = 1) = Even(n)
    <3>1. n \in Nat
      BY <2>1
    <3> QED
      BY <3>1 DEF Even
  <2>5. until(n - 1) = EndOf(s, t, n)
    <3>1. n - 1 + 1 = n /\ (n - 1 = last <=> n = last + 1)
      BY <1>3, <2>1
    <3> QED
      BY <3>1 DEF EndOf
  <2> HIDE DEF p, rest, until
  <2> QED
    BY <2>2, <2>3, <2>4, <2>5
<1>9. IsTemplate(p, s, t)
  <2> HIDE DEF p, first
  <2> QED
    BY <1>4, <1>7, <1>8 DEF IsTemplate
<1> QED
  BY <1>1, <1>2, <1>9

\* The pieces with the marks between them are the text, and there is no mark in them.
LEMMA TemplateHas ==
  ASSUME NEW S, NEW s \in Seq(S), NEW t, Chain(t, s, Mark, 0), NEW p, IsTemplate(p, s, t)
  PROVE  /\ Joined([n \in 1..Len(p) |-> p[n].text], <<Mark>>) = s
         /\ \A n \in 1..Len(p) : p[n].bold = Even(n) /\ Mark \notin ToSet(p[n].text)
<1> DEFINE len == Len(t) + 1
           e == [n \in 1..len |-> EndOf(s, t, n)]
           texts == [n \in 1..Len(p) |-> p[n].text]
           parts == [n \in 1..Len(texts) |-> (IF n = 1 THEN <<>> ELSE <<Mark>>) \o texts[n]]
<1>1. /\ Len(s) \in Nat /\ t \in Seq(Nat) /\ Len(t) \in Nat
      /\ \A k \in 1..Len(t) : t[k] \in 0..Len(s) - 1 /\ s[t[k] + 1] = Mark
      /\ \A j, k \in 1..Len(t) : j < k => t[j] < t[k]
      /\ \A m \in 0 + 1..Len(s) : s[m] = Mark => \E k \in 1..Len(t) : m = t[k] + 1
  BY LenProperties DEF Chain
<1>2. len \in Nat \ {0} /\ len = Len(p)
  BY <1>1 DEF IsTemplate
<1>3. ASSUME NEW n \in 1..len
      PROVE  e[n] \in 0..Len(s) /\ (n # len => n \in 1..Len(t) /\ e[n] = t[n]) /\ (n = len => e[n] = Len(s))
  <2>1. e[n] = EndOf(s, t, n)
    OBVIOUS
  <2>2. CASE n = len
    BY <1>1, <2>1, <2>2 DEF EndOf
  <2>3. CASE n # len
    <3>1. n \in 1..Len(t) /\ n # Len(t) + 1
      BY <1>1, <2>3
    <3>2. e[n] = t[n]
      BY <2>1, <3>1 DEF EndOf
    <3> HIDE DEF e
    <3> QED
      BY <1>1, <2>3, <3>1, <3>2
  <2> QED
    BY <2>2, <2>3
<1>4. p[1] = Output(FALSE, SubSeq(s, 1, e[1]))
  <2>1. e[1] = EndOf(s, t, 1)
    BY <1>2
  <2> QED
    BY <2>1 DEF IsTemplate
<1>5. ASSUME NEW n \in 2..len
      PROVE  /\ n - 1 \in 1..Len(t) /\ e[n - 1] = t[n - 1] /\ e[n - 1] + 1 <= e[n]
             /\ e[n - 1] \in 0..Len(s) /\ e[n] \in 0..Len(s)
             /\ p[n].bold = Even(n) /\ p[n].text = SubSeq(s, e[n - 1] + 2, e[n])
  <2>1. n - 1 \in 1..len /\ n - 1 # len /\ n \in 1..len
    BY <1>2
  <2>2. n - 1 \in 1..Len(t) /\ e[n - 1] = t[n - 1] /\ e[n - 1] \in 0..Len(s) /\ e[n] \in 0..Len(s)
    BY <1>3, <2>1
  <2>3. p[n].bold = Even(n) /\ p[n].text = SubSeq(s, t[n - 1] + 2, EndOf(s, t, n))
    BY DEF IsTemplate
  <2>4. e[n] = EndOf(s, t, n)
    BY <2>1
  <2>5. e[n - 1] + 1 <= e[n]
    <3>1. t[n - 1] \in 0..Len(s) - 1
      BY <1>1, <2>2
    <3>2. CASE n = len
      <4>1. e[n] = Len(s)
        BY <1>3, <2>1, <3>2
      <4> HIDE DEF e
      <4> QED
        BY <1>1, <2>2, <3>1, <4>1
    <3>3. CASE n # len
      <4>1. e[n] = t[n] /\ n \in 1..Len(t)
        BY <1>3, <2>1, <3>3
      <4>2. n - 1 < n
        OBVIOUS
      <4>3. t[n - 1] < t[n]
        BY <1>1, <2>2, <4>1, <4>2
      <4>4. t[n - 1] \in Nat /\ t[n] \in Nat
        BY <1>1, <2>2, <4>1
      <4> HIDE DEF e
      <4> QED
        BY <2>2, <4>1, <4>3, <4>4
    <3> QED
      BY <3>2, <3>3
  <2> HIDE DEF e
  <2> QED
    BY <2>2, <2>3, <2>4, <2>5
<1>6. 1 \in 1..len /\ len \in 1..len /\ \A n \in 1..len : n = 1 \/ n \in 2..len
  BY <1>2
<1> HIDE DEF len, e
<1>7. texts = [n \in 1..len |-> p[n].text] /\ Len(texts) = len
  <2>1. texts = [n \in 1..len |-> p[n].text]
    BY <1>2
  <2> HIDE DEF texts
  <2> QED
    BY <1>2, <2>1
<1> HIDE DEF texts
<1>8. Len(parts) = len /\ \A n \in 1..len : parts[n] = (IF n = 1 THEN <<>> ELSE <<Mark>>) \o p[n].text
  <2>1. parts = [n \in 1..len |-> (IF n = 1 THEN <<>> ELSE <<Mark>>) \o p[n].text]
    <3>1. parts = [n \in 1..len |-> (IF n = 1 THEN <<>> ELSE <<Mark>>) \o texts[n]]
      BY <1>7
    <3>2. \A n \in 1..len : texts[n] = p[n].text
      BY <1>7
    <3> HIDE DEF parts
    <3> QED
      BY <3>1, <3>2
  <2> HIDE DEF parts
  <2>2. \A n \in 1..len : parts[n] = (IF n = 1 THEN <<>> ELSE <<Mark>>) \o p[n].text
    BY <2>1
  <2>3. Len(parts) = len
    BY <1>2, <2>1
  <2> QED
    BY <2>2, <2>3
<1> HIDE DEF parts
<1>9. parts[1] = SubSeq(s, 1, e[1])
  <2>1. parts[1] = <<>> \o p[1].text /\ p[1].text = SubSeq(s, 1, e[1]) /\ e[1] \in 0..Len(s)
    <3>1. p[1].text = SubSeq(s, 1, e[1])
      BY <1>4, OutputIs
    <3>2. parts[1] = (IF 1 = 1 THEN <<>> ELSE <<Mark>>) \o p[1].text
      BY <1>6, <1>8
    <3> QED
      BY <1>3, <1>6, <3>1, <3>2
  <2>2. SubSeq(s, 1, e[1]) \in Seq(S)
    BY <2>1, PartOf
  <2> QED
    BY <2>1, <2>2
<1>10. ASSUME NEW n \in 2..len
       PROVE  e[n - 1] <= e[n] /\ parts[n] = SubSeq(s, e[n - 1] + 1, e[n])
  <2> DEFINE a == e[n - 1]
             b == e[n]
  <2>1. /\ n - 1 \in 1..Len(t) /\ a = t[n - 1] /\ a + 1 <= b /\ a \in 0..Len(s) /\ b \in 0..Len(s)
        /\ p[n].text = SubSeq(s, a + 2, b)
    BY <1>5
  <2>2. s[a + 1] = Mark
    BY <1>1, <2>1
  <2>3. n \in 1..len /\ n # 1
    BY <1>2
  <2>4. parts[n] = <<Mark>> \o SubSeq(s, a + 2, b)
    <3>2. parts[n] = (IF n = 1 THEN <<>> ELSE <<Mark>>) \o p[n].text
      BY <1>8, <2>3
    <3> QED
      BY <2>1, <2>3, <3>2
  <2> HIDE DEF a, b
  <2>5. a + 1 \in 1..Len(s) + 1 /\ a + 1 \in a + 1 - 1..Len(s) /\ b \in a + 1..Len(s) /\ a + 1 + 1 = a + 2
        /\ a + 1 \in 1..Len(s) /\ a <= b
    <3>1. a + 1 <= b /\ a \in 0..Len(s) /\ b \in 0..Len(s)
      BY <2>1
    <3> QED
      BY <1>1, <3>1
  <2>6. SubSeq(s, a + 1, a + 1) \o SubSeq(s, a + 2, b) = SubSeq(s, a + 1, b)
    <3> DEFINE m == a + 1
    <3>1. m \in 1..Len(s) + 1 /\ m \in m - 1..Len(s) /\ b \in m..Len(s) /\ m + 1 = a + 2
      BY <1>1, <2>5
    <3> HIDE DEF m
    <3>2. SubSeq(s, m, m) \o SubSeq(s, m + 1, b) = SubSeq(s, m, b)
      BY <3>1, ConcatAdjacentSubSeq
    <3>3. SubSeq(s, m, m) \o SubSeq(s, a + 2, b) = SubSeq(s, m, b)
      BY <3>1, <3>2
    <3> QED
      BY <3>3 DEF m
  <2>7. SubSeq(s, a + 1, a + 1) = <<Mark>>
    <3> DEFINE m == a + 1
    <3>1. m \in 1..Len(s) /\ s[m] = Mark /\ m \in Nat /\ m >= 1 /\ m \in 0..Len(s)
      BY <1>1, <2>2, <2>5
    <3> HIDE DEF m
    <3>2. SubSeq(s, m, m) \in Seq(S) /\ Len(SubSeq(s, m, m)) = 1
      <4>1. SubSeq(s, m, m) \in Seq(S) /\ Len(SubSeq(s, m, m)) = (IF m <= m THEN m - m + 1 ELSE 0)
        BY <3>1, PartOf
      <4> QED
        BY <3>1, <4>1
    <3>3. SubSeq(s, m, m)[1] = Mark
      <4>1. 1 \in 1..m - m + 1 /\ m + 1 - 1 = m
        BY <3>1
      <4>2. SubSeq(s, m, m)[1] = s[m + 1 - 1]
        BY <3>1, <4>1, PartOf
      <4> QED
        BY <3>1, <4>1, <4>2
    <3>5. <<Mark>> \in Seq(S) /\ Len(<<Mark>>) = 1 /\ <<Mark>>[1] = Mark
      <4>1. Mark \in S
        <5>1. s[m] \in S
          BY <3>1
        <5> QED
          BY <3>1, <5>1
      <4> QED
        BY <4>1
    <3>6. \A k \in 1..1 : SubSeq(s, m, m)[k] = <<Mark>>[k]
      <4>1. \A k \in 1..1 : k = 1
        OBVIOUS
      <4> QED
        BY <3>3, <3>5, <4>1
    <3>4. SubSeq(s, m, m) = <<Mark>>
      BY <3>2, <3>5, <3>6, SeqEqual
    <3> QED
      BY <3>4 DEF m
  <2> QED
    BY <2>4, <2>5, <2>6, <2>7 DEF a, b
<1>11. FlattenSeq(parts) = s
  <2>1. \A n \in 1..len : e[n] \in 0..Len(s)
    BY <1>3
  <2>2. e[len] = Len(s)
    BY <1>3, <1>6
  <2>3. \A n \in 2..len : e[n - 1] <= e[n] /\ parts[n] = SubSeq(s, e[n - 1] + 1, e[n])
    BY <1>10
  <2>4. len \in Nat \ {0} /\ Len(parts) = len
    BY <1>2, <1>8
  <2> QED
    BY ONLY <1>9, <2>1, <2>2, <2>3, <2>4, s \in Seq(S), FlattenParts
<1>12. Joined(texts, <<Mark>>) = FlattenSeq(parts)
  BY DEF Joined, parts
\* What is behind a mark, up to the next, has none.
<1>13. ASSUME NEW n \in 1..len, NEW a \in 0..Len(s), n = 1 => a = 0, n # 1 => a = t[n - 1] + 1,
              NEW m \in a + 1..e[n], s[m] = Mark
       PROVE  FALSE
  <2>1. e[n] \in 0..Len(s) /\ (n # len => n \in 1..Len(t) /\ e[n] = t[n])
    BY <1>3
  <2>2. m \in 0 + 1..Len(s) /\ m \in Nat
    BY <1>1, <2>1
  <2>3. PICK k \in 1..Len(t) : m = t[k] + 1
    BY <1>1, <1>13, <2>2
  <2>4. t[k] \in 0..Len(s) - 1 /\ k \in Nat
    BY <1>1
  <2>5. k < n
    <3>1. CASE n = len
      BY <1>1, <3>1 DEF len
    <3>2. CASE n # len
      <4>1. n \in 1..Len(t) /\ e[n] = t[n] /\ t[n] \in Nat
        BY <1>1, <2>1, <3>2
      <4>2. t[k] < t[n]
        BY <2>3, <2>4, <4>1
      <4>3. ~(n < k) /\ n # k
        <5>1. n < k => t[n] < t[k]
          BY <1>1, <4>1
        <5> QED
          BY <2>4, <4>1, <4>2, <5>1
      <4> QED
        BY <2>4, <4>3
    <3> QED
      BY <3>1, <3>2
  <2>6. n # 1
    BY <2>4, <2>5
  <2>7. n \in 2..len
    BY <1>6, <2>6
  <2>8. n - 1 \in 1..Len(t)
    BY <1>5, <2>7
  <2>9. a = t[n - 1] + 1 /\ t[n - 1] \in Nat
    BY <1>1, <1>13, <2>6, <2>8
  <2>10. k = n - 1 \/ k < n - 1
    BY <2>4, <2>5, <2>8
  <2>11. t[k] <= t[n - 1]
    <3>1. k < n - 1 => t[k] < t[n - 1]
      BY <1>1, <2>8
    <3> QED
      BY <2>4, <2>9, <2>10, <3>1
  <2>12. a + 1 <= m /\ t[k] \in Nat
    BY <2>4
  <2> DEFINE x == t[k]
             y == t[n - 1]
  <2>13. a = y + 1 /\ y \in Nat /\ x \in Nat /\ x <= y /\ a + 1 <= x + 1
    BY <2>3, <2>9, <2>11, <2>12
  <2> HIDE DEF x, y
  <2> QED
    BY ONLY <2>13
<1>14. ASSUME NEW a \in 0..Len(s), NEW b \in 0..Len(s), \A m \in a + 1..b : s[m] # Mark
       PROVE  Mark \notin ToSet(SubSeq(s, a + 1, b))
  <2> DEFINE u == SubSeq(s, a + 1, b)
  <2>1. /\ Len(u) = IF a + 1 <= b THEN b - (a + 1) + 1 ELSE 0
        /\ \A k \in 1..b - (a + 1) + 1 : u[k] = s[a + 1 + k - 1]
    <3>1. a + 1 \in Nat /\ a + 1 >= 1
      BY <1>1
    <3> QED
      BY <3>1, PartOf
  <2> HIDE DEF u
  <2>2. ASSUME NEW k \in 1..Len(u) PROVE u[k] # Mark
    <3>1. k \in 1..b - (a + 1) + 1 /\ a + 1 + k - 1 = a + k /\ a + k \in a + 1..b
      BY <1>1, <2>1
    <3> QED
      BY <1>14, <2>1, <3>1
  <2>3. ToSet(u) = {u[k] : k \in 1..Len(u)}
    <3>1. u \in Seq(S)
      <4>1. a + 1 \in Nat /\ a + 1 >= 1
        BY <1>1
      <4> QED
        BY <4>1, PartOf DEF u
    <3>2. DOMAIN u = 1..Len(u)
      BY <3>1
    <3> QED
      BY <3>2 DEF ToSet
  <2>4. Mark \notin ToSet(u)
    BY <2>2, <2>3
  <2> QED
    BY <2>4 DEF u
<1>15. ASSUME NEW n \in 1..len PROVE p[n].bold = Even(n) /\ Mark \notin ToSet(p[n].text)
  <2>0. e[n] \in 0..Len(s)
    BY <1>3
  <2>1. CASE n = 1
    <3>1. p[n].bold = FALSE /\ p[n].text = SubSeq(s, 0 + 1, e[n]) /\ Even(n) = FALSE
      <4>1. Even(n) = FALSE
        BY <2>1 DEF Even
      <4>2. p[1].bold = FALSE /\ p[1].text = SubSeq(s, 1, e[1])
        BY <1>4, OutputIs
      <4> QED
        BY <2>1, <4>1, <4>2
    <3>2. 0 \in 0..Len(s)
      BY <1>1
    <3>3. \A m \in 0 + 1..e[n] : s[m] # Mark
      BY <1>13, <2>1, <3>2
    <3>4. Mark \notin ToSet(SubSeq(s, 0 + 1, e[n]))
      BY <1>14, <2>0, <3>2, <3>3
    <3> QED
      BY <3>1, <3>4
  <2>2. CASE n # 1
    <3> DEFINE a == t[n - 1] + 1
    <3>1. n \in 2..len
      BY <1>6, <2>2
    <3>2. /\ n - 1 \in 1..Len(t) /\ e[n - 1] = t[n - 1]
          /\ p[n].bold = Even(n) /\ p[n].text = SubSeq(s, e[n - 1] + 2, e[n])
      BY <1>5, <3>1
    <3>3. t[n - 1] \in 0..Len(s) - 1
      BY <1>1, <3>2
    <3>4. a \in 0..Len(s) /\ e[n - 1] + 2 = a + 1
      <4>1. e[n - 1] = t[n - 1]
        BY <3>2
      <4> QED
        BY <1>1, <3>3, <4>1
    <3>5. p[n].bold = Even(n) /\ p[n].text = SubSeq(s, a + 1, e[n])
      <4> HIDE DEF a
      <4> QED
        BY <3>2, <3>4
    <3>6. a = t[n - 1] + 1
      OBVIOUS
    <3> HIDE DEF a
    <3>7. \A m \in a + 1..e[n] : s[m] # Mark
      BY <1>13, <2>2, <3>4, <3>6
    <3>8. Mark \notin ToSet(SubSeq(s, a + 1, e[n]))
      BY <1>14, <2>0, <3>4, <3>7
    <3> QED
      BY <3>5, <3>8
  <2> QED
    BY <2>1, <2>2
<1> QED
  BY <1>2, <1>11, <1>12, <1>15 DEF texts

\* The pieces of a template, with the marks between them, are its text, and they are text
\* and code by turns: template of web/templater.c loses nothing and leaves no mark.
THEOREM TemplatesAreCopied == Spec => []TemplateCopies
<1>1. CutInv => TemplateCopies
  <2> SUFFICES ASSUME CutInv, call.op = "template"
      PROVE  /\ Joined([n \in 1..Len(Template(text)) |-> Template(text)[n].text], <<Mark>>) = text
             /\ \A n \in 1..Len(Template(text)) :
                  /\ Template(text)[n].bold = (n % 2 = 0)
                  /\ Mark \notin ToSet(Template(text)[n].text)
    BY DEF TemplateCopies
  <2>1. text \in Seq(Chars)
    BY DEF CutInv, WellFormed, TypeOK
  <2>2. PICK t : Chain(t, text, Mark, 0) /\ IsTemplate(Template(text), text, t)
    BY <2>1, TemplateIs
  <2> DEFINE p == Template(text)
  <2>3. IsTemplate(p, text, t)
    BY <2>2
  <2> HIDE DEF p
  <2>4. /\ Joined([n \in 1..Len(p) |-> p[n].text], <<Mark>>) = text
        /\ \A n \in 1..Len(p) : p[n].bold = (n % 2 = 0) /\ Mark \notin ToSet(p[n].text)
    BY <2>1, <2>2, <2>3, TemplateHas DEF Even
  <2> QED
    BY <2>4 DEF p
<1> QED
  BY <1>1, CutInvariance, PTL

-----------------------------------------------------------------------------
(* Paths that are joined.                                                  *)

IsJoining(f, x, q) ==
  f = [s \in SUBSET (DOMAIN <<q>>) |->
         IF s = {} THEN x ELSE Join(f[s \ {Max(s)}], <<q>>[Max(s)])]

LEMMA JoinTwo ==
  ASSUME NEW x, NEW q
  PROVE  JoinMany(<<x, q>>) = Join(x, q)
<1> DEFINE f == CHOOSE f : IsJoining(f, x, q)
<1>1. Head(<<x, q>>) = x /\ Tail(<<x, q>>) = <<q>>
  OBVIOUS
<1>2. FoldLeft(Join, x, <<q>>) = f[DOMAIN <<q>>]
  BY DEF FoldLeft, MapThenFoldSet, IsJoining
<1>3. DOMAIN <<q>> = {1} /\ <<q>>[1] = q
  OBVIOUS
<1>4. Max({1}) = 1
  BY OfOne
<1> DEFINE g == [s \in SUBSET (DOMAIN <<q>>) |-> IF s = {} THEN x ELSE Join(x, q)]
<1>5. IsJoining(g, x, q)
  <2>1. ASSUME NEW s \in SUBSET (DOMAIN <<q>>), s # {}
        PROVE  Join(x, q) = Join(g[s \ {Max(s)}], <<q>>[Max(s)])
    <3>1. s = {1}
      BY <1>3, <2>1
    <3>2. Max(s) = 1 /\ s \ {Max(s)} = {} /\ <<q>>[Max(s)] = q
      BY <1>3, <1>4, <3>1
    <3>3. g[{}] = x
      OBVIOUS
    <3> HIDE DEF g
    <3> QED
      BY <3>2, <3>3
  <2> DEFINE other(s) == IF s = {} THEN x ELSE Join(g[s \ {Max(s)}], <<q>>[Max(s)])
             one(s) == IF s = {} THEN x ELSE Join(x, q)
  <2>2. ASSUME NEW s \in SUBSET (DOMAIN <<q>>) PROVE one(s) = other(s)
    <3>1. CASE s = {}
      BY <3>1
    <3>2. CASE s # {}
      <4> HIDE DEF g
      <4> QED
        BY <2>1, <3>2
    <3> QED
      BY <3>1, <3>2
  <2>3. g = [s \in SUBSET (DOMAIN <<q>>) |-> one(s)]
    OBVIOUS
  <2>4. IsJoining(g, x, q) <=> g = [s \in SUBSET (DOMAIN <<q>>) |-> other(s)]
    BY DEF IsJoining
  <2> HIDE DEF g, other, one
  <2>5. [s \in SUBSET (DOMAIN <<q>>) |-> one(s)] = [s \in SUBSET (DOMAIN <<q>>) |-> other(s)]
    BY <2>2
  <2> QED
    BY <2>3, <2>4, <2>5
<1> HIDE DEF g
<1>6. IsJoining(f, x, q)
  BY <1>5
<1> HIDE DEF f
<1>7. f[{}] = x
  <2>1. {} \in SUBSET (DOMAIN <<q>>)
    OBVIOUS
  <2> QED
    BY <1>6, <2>1 DEF IsJoining
<1>8. f[{1}] = Join(f[{1} \ {Max({1})}], <<q>>[Max({1})])
  <2>1. {1} \in SUBSET (DOMAIN <<q>>) /\ {1} # {}
    BY <1>3
  <2> QED
    BY <1>6, <2>1 DEF IsJoining
<1>9. {1} \ {Max({1})} = {} /\ <<q>>[Max({1})] = q
  BY <1>3, <1>4
<1>10. f[{1}] = Join(x, q)
  BY <1>7, <1>8, <1>9
<1> QED
  BY <1>1, <1>2, <1>3, <1>10 DEF JoinMany

-----------------------------------------------------------------------------
(* What a path begins and ends with.                                       *)

Slash == "/"
Slashed(s) == Len(s) >= 1 /\ s[Len(s)] = Slash
Rooted(s) == Len(s) >= 1 /\ s[1] = Slash
Dotted(s) == Len(s) >= 2 /\ s[1] = "." /\ s[2] = Slash

LEMMA BeginsWith ==
  ASSUME NEW S, NEW s \in Seq(S)
  PROVE  /\ StartsWith(s, <<Slash>>) <=> Rooted(s)
         /\ StartsWith(s, <<".", Slash>>) <=> Dotted(s)
<1>1. Offset(s, 0) = s /\ 0 \in 0..Len(s)
  BY SubSeqFull, LenProperties DEF Offset
<1>2. ASSUME NEW T, NEW word \in Seq(T)
      PROVE  StartsWith(s, word) <=> Len(word) <= Len(s) /\ \A m \in 1..Len(word) : s[m] = word[m]
  <2>1. StartsWith(Offset(s, 0), word) <=> At(s, 0, word)
    BY <1>1, StartsIs
  <2>2. At(s, 0, word) <=> Len(word) <= Len(s) /\ \A m \in 1..Len(word) : s[m] = word[m]
    BY LenProperties DEF At
  <2> QED
    BY <1>1, <2>1, <2>2
<1>3. <<Slash>> \in Seq({Slash}) /\ Len(<<Slash>>) = 1 /\ <<Slash>>[1] = Slash
  OBVIOUS
<1>4. StartsWith(s, <<Slash>>) <=> Rooted(s)
  <2>1. StartsWith(s, <<Slash>>) <=> 1 <= Len(s) /\ \A m \in 1..1 : s[m] = <<Slash>>[m]
    BY <1>2, <1>3
  <2>2. \A m : m \in 1..1 <=> m = 1
    OBVIOUS
  <2> QED
    BY <1>3, <2>1, <2>2, LenProperties DEF Rooted
<1> DEFINE dot == <<".", Slash>>
<1>5. dot \in Seq({".", Slash}) /\ Len(dot) = 2 /\ dot[1] = "." /\ dot[2] = Slash
  OBVIOUS
<1> HIDE DEF dot
<1>6. StartsWith(s, dot) <=> Dotted(s)
  <2>1. StartsWith(s, dot) <=> 2 <= Len(s) /\ \A m \in 1..2 : s[m] = dot[m]
    BY <1>2, <1>5
  <2>2. \A m : m \in 1..2 <=> m = 1 \/ m = 2
    OBVIOUS
  <2> QED
    BY <1>5, <2>1, <2>2, LenProperties DEF Dotted
<1> QED
  BY <1>4, <1>6 DEF dot

LEMMA EndsWith ==
  ASSUME NEW S, NEW s \in Seq(S)
  PROVE  IsSuffix(<<Slash>>, s) <=> Slashed(s)
<1> DEFINE one == Reverse(<<Slash>>)
           back == Reverse(s)
<1>0. Len(s) \in Nat /\ \A n \in 1..Len(s) : s[n] \in S
  BY LenProperties
<1>1. back \in Seq(S) /\ Len(back) = Len(s)
  <2>1. back = [n \in 1..Len(s) |-> s[Len(s) - n + 1]]
    BY DEF Reverse
  <2>2. \A n \in 1..Len(s) : s[Len(s) - n + 1] \in S
    BY <1>0
  <2> HIDE DEF back
  <2> QED
    BY <1>0, <2>1, <2>2
<1>2. Len(s) >= 1 => back[1] = s[Len(s)]
  <2>1. Len(s) >= 1 => 1 \in 1..Len(s) /\ Len(s) - 1 + 1 = Len(s)
    BY <1>0
  <2> QED
    BY <2>1 DEF Reverse
<1>3. one = <<Slash>>
  <2>1. Len(<<Slash>>) = 1
    OBVIOUS
  <2>2. one = [n \in 1..1 |-> <<Slash>>[1 - n + 1]]
    BY <2>1 DEF Reverse
  <2>3. \A n \in 1..1 : <<Slash>>[1 - n + 1] = Slash
    OBVIOUS
  <2>4. one = [n \in 1..1 |-> Slash]
    BY <2>2, <2>3
  <2> QED
    BY <2>4
<1>4. IsSuffix(<<Slash>>, s) <=> IsPrefix(<<Slash>>, back)
  BY <1>3 DEF IsSuffix
<1> HIDE DEF back
<1>5. IsPrefix(<<Slash>>, back) <=> Rooted(back)
  BY <1>1, BeginsWith DEF StartsWith
<1> QED
  BY <1>0, <1>1, <1>2, <1>4, <1>5 DEF Rooted, Slashed

\* What a slash is behind, and what it is in front of.
UpToSlash(S, x, y) == Slash \in S /\ \A z \in Seq(S) : x \o z = Around(y, Slash, z)

LEMMA BehindSlash ==
  ASSUME NEW S, NEW x \in Seq(S), Slashed(x)
  PROVE  \E y \in Seq(S) : UpToSlash(S, x, y)
<1> DEFINE y == SubSeq(x, 1, Len(x) - 1)
<1>1. Len(x) \in Nat /\ Len(x) >= 1 /\ x[Len(x)] = Slash /\ Len(x) \in 1..Len(x) /\ 1 \in 1..Len(x)
  BY LenProperties DEF Slashed
<1>2. Slash \in S
  BY <1>1, ElementOfSeq
<1>3. SubSeq(x, 1, Len(x)) = y \o <<x[Len(x)]>>
  BY <1>1, SubSeqRecursiveSecond
<1>4. x = y \o <<Slash>>
  BY <1>1, <1>3, SubSeqFull
<1>5. y \in Seq(S)
  <2>1. 1 \in Nat /\ Len(x) - 1 \in 0..Len(x) /\ 1 >= 1
    BY <1>1
  <2> QED
    BY <2>1, PartOf
<1> QED
  BY <1>2, <1>4, <1>5 DEF Around, UpToSlash

LEMMA BeforeSlash ==
  ASSUME NEW S, NEW q \in Seq(S), Rooted(q)
  PROVE  /\ Slash \in S /\ Tail(q) \in Seq(S) /\ q = Around(<<>>, Slash, Tail(q))
         /\ \A x \in Seq(S) : x \o q = Around(x, Slash, Tail(q))
         /\ Len(Tail(q)) = Len(q) - 1 /\ \A k \in 1..Len(q) - 1 : Tail(q)[k] = q[k + 1]
<1>1. Len(q) \in Nat /\ Len(q) >= 1 /\ q[1] = Slash /\ 1 \in 1..Len(q) /\ Len(q) \in 1..Len(q)
  BY LenProperties DEF Rooted
<1>2. Slash \in S /\ q # <<>>
  <2>1. q # <<>>
    BY <1>1, EmptySeq
  <2> QED
    BY <1>1, <2>1, ElementOfSeq
<1>3. Tail(q) \in Seq(S) /\ Len(Tail(q)) = Len(q) - 1 /\ \A k \in 1..Len(Tail(q)) : Tail(q)[k] = q[k + 1]
  BY <1>2, HeadTailProperties
<1>4. SubSeq(q, 1, Len(q)) = <<q[1]>> \o SubSeq(q, 1 + 1, Len(q))
  BY <1>1, SubSeqRecursiveFirst
<1>5. Tail(q) = SubSeq(q, 2, Len(q)) /\ SubSeq(q, 1, Len(q)) = q
  BY <1>2, TailIsSubSeq, SubSeqFull
<1>6. q = <<Slash>> \o Tail(q)
  <2>1. 1 + 1 = 2
    OBVIOUS
  <2> QED
    BY <1>1, <1>4, <1>5, <2>1
<1>7. <<Slash>> \in Seq(S)
  BY <1>2
<1>8. <<>> \o <<Slash>> = <<Slash>>
  BY <1>7, ConcatEmptySeq
<1>9. \A x \in Seq(S) : x \o (<<Slash>> \o Tail(q)) = (x \o <<Slash>>) \o Tail(q)
  BY <1>3, <1>7, ConcatAssociative
<1>10. q = Around(<<>>, Slash, Tail(q))
  BY <1>6, <1>8 DEF Around
<1>11. \A x \in Seq(S) : x \o q = Around(x, Slash, Tail(q))
  <2>1. TAKE x \in Seq(S)
  <2>2. x \o q = x \o (<<Slash>> \o Tail(q))
    BY <1>6
  <2> QED
    BY <1>9, <2>2 DEF Around
<1> QED
  BY <1>2, <1>3, <1>10, <1>11

\* An argument without the "./" in front of it.
LEMMA BareIs ==
  ASSUME NEW S, NEW q \in Seq(S)
  PROVE  /\ Bare(q) \in Seq(S)
         /\ ~Dotted(q) => Bare(q) = q
         /\ Dotted(q) => /\ q \in Seq(S) /\ Len(q) >= 2 /\ Len(Bare(q)) = Len(q) - 2
                         /\ \A k \in 1..Len(q) - 2 : Bare(q)[k] = q[k + 2]
         /\ Rooted(q) => ~Dotted(q)
<1>1. Bare(q) = IF Dotted(q) THEN Offset(q, 2) ELSE q
  BY BeginsWith DEF Bare, Slash
<1>2. Rooted(q) => ~Dotted(q)
  BY DEF Rooted, Dotted, Slash
<1>3. CASE Dotted(q)
  <2>1. 2 \in 0..Len(q) /\ Len(q) >= 2
    BY <1>3, LenProperties DEF Dotted
  <2>2. /\ Offset(q, 2) \in Seq(S) /\ Len(Offset(q, 2)) = Len(q) - 2
        /\ \A m \in 1..Len(q) - 2 : Offset(q, 2)[m] = q[2 + m]
    BY <2>1, OffsetIs
  <2>3. \A m \in 1..Len(q) - 2 : 2 + m = m + 2
    OBVIOUS
  <2>4. Bare(q) = Offset(q, 2)
    BY <1>1, <1>3
  <2> QED
    BY <1>2, <1>3, <2>1, <2>2, <2>3, <2>4
<1>4. CASE ~Dotted(q)
  BY <1>1, <1>2, <1>4
<1> QED
  BY <1>3, <1>4

LEMMA JoinIs ==
  ASSUME NEW S, NEW x \in Seq(S), NEW q \in Seq(S)
  PROVE  Join(x, q) = IF Slashed(x) /\ Rooted(q) THEN x \o Tail(q)
                      ELSE IF Slashed(x) \/ Rooted(q) THEN x \o Bare(q)
                      ELSE x \o <<Slash>> \o Bare(q)
<1>1. /\ StartsWith(q, <<Slash>>) <=> Rooted(q)
      /\ StartsWith(q, <<".", Slash>>) <=> Dotted(q)
      /\ IsSuffix(<<Slash>>, x) <=> Slashed(x)
  BY BeginsWith, EndsWith
<1>2. Bare(q) = IF StartsWith(q, <<".", Slash>>) THEN Offset(q, 2) ELSE q
  BY DEF Bare, Slash
<1>3. Join(x, q) = IF IsSuffix(<<Slash>>, x) /\ StartsWith(q, <<Slash>>) THEN x \o Tail(q)
                   ELSE IF IsSuffix(<<Slash>>, x) \/ StartsWith(q, <<Slash>>) THEN x \o Bare(q)
                   ELSE x \o <<Slash>> \o Bare(q)
  BY DEF Join, Bare, Slash
<1> QED
  BY <1>1, <1>3

-----------------------------------------------------------------------------
(* The parts of joined paths.                                              *)

LEMMA PathSplitIs ==
  ASSUME NEW S, NEW s \in Seq(S)
  PROVE  /\ PathSplit(s) \in Seq(Seq(S))
         /\ PathSplit(s) = SplitByChar(s, Slash, RemoveEmpty)
         /\ PathSplit(<<>>) = <<>>
<1>1. RemoveEmpty \in Untrimmed
  BY DEF Untrimmed
<1>2. PathSplit(s) = SplitByChar(s, Slash, RemoveEmpty)
  BY DEF PathSplit, Slash
<1>3. PathSplit(<<>>) = SplitByChar(<<>>, Slash, RemoveEmpty)
  BY DEF PathSplit, Slash
<1>4. <<>> \in Seq(S) /\ Len(<<>>) = 0 /\ 1..0 = {}
  OBVIOUS
<1>5. Without(<<>>, Slash)
  BY <1>4 DEF Without
<1>6. SplitByChar(<<>>, Slash, RemoveEmpty) = Kept(<<>>, RemoveEmpty)
  BY <1>1, <1>4, <1>5, SplitNone
<1>7. Kept(<<>>, RemoveEmpty) = <<>>
  BY <1>1, <1>4, KeptIs
<1> QED
  BY <1>1, <1>2, <1>3, <1>6, <1>7, SplitType

LEMMA SplitAtSlash ==
  ASSUME NEW S, Slash \in S, NEW a \in Seq(S), NEW b \in Seq(S)
  PROVE  PathSplit(Around(a, Slash, b)) = PathSplit(a) \o PathSplit(b)
<1>1. RemoveEmpty \in Untrimmed
  BY DEF Untrimmed
<1>2. SplitByChar(Around(a, Slash, b), Slash, RemoveEmpty)
        = SplitByChar(a, Slash, RemoveEmpty) \o SplitByChar(b, Slash, RemoveEmpty)
  BY <1>1, SplitConcat
<1> QED
  BY <1>2 DEF PathSplit, Slash

\* A slash at an end of a path is of no account.
LEMMA SplitSlashed ==
  ASSUME NEW S, NEW x \in Seq(S), Slashed(x), NEW z \in Seq(S)
  PROVE  PathSplit(x \o z) = PathSplit(x) \o PathSplit(z)
<1>0. PICK y \in Seq(S) : UpToSlash(S, x, y)
  BY BehindSlash
<1>1. Slash \in S /\ \A r \in Seq(S) : x \o r = Around(y, Slash, r)
  BY <1>0 DEF UpToSlash
<1>2. <<>> \in Seq(S) /\ PathSplit(<<>>) = <<>> /\ PathSplit(y) \in Seq(Seq(S))
  <2>1. <<>> \in Seq(S)
    OBVIOUS
  <2> QED
    BY <2>1, PathSplitIs
<1>3. x = Around(y, Slash, <<>>)
  BY <1>1, <1>2, ConcatEmptySeq
<1>4. PathSplit(Around(y, Slash, <<>>)) = PathSplit(y) \o PathSplit(<<>>)
  BY <1>1, <1>2, SplitAtSlash
<1>5. PathSplit(x) = PathSplit(y)
  BY <1>2, <1>3, <1>4, ConcatEmptySeq
<1>6. PathSplit(Around(y, Slash, z)) = PathSplit(y) \o PathSplit(z)
  BY <1>1, SplitAtSlash
<1> QED
  BY <1>1, <1>5, <1>6

LEMMA SplitRooted ==
  ASSUME NEW S, NEW q \in Seq(S), Rooted(q)
  PROVE  PathSplit(Tail(q)) = PathSplit(q) /\ \A x \in Seq(S) : PathSplit(x \o q) = PathSplit(x) \o PathSplit(q)
<1>1. /\ Slash \in S /\ Tail(q) \in Seq(S) /\ q = Around(<<>>, Slash, Tail(q))
      /\ \A x \in Seq(S) : x \o q = Around(x, Slash, Tail(q))
  BY BeforeSlash
<1>2. <<>> \in Seq(S) /\ PathSplit(<<>>) = <<>> /\ PathSplit(Tail(q)) \in Seq(Seq(S))
  <2>1. <<>> \in Seq(S)
    OBVIOUS
  <2> QED
    BY <1>1, <2>1, PathSplitIs
<1>3. PathSplit(Around(<<>>, Slash, Tail(q))) = PathSplit(<<>>) \o PathSplit(Tail(q))
  BY <1>1, <1>2, SplitAtSlash
<1>4. PathSplit(q) = PathSplit(Tail(q))
  BY <1>1, <1>2, <1>3, ConcatEmptySeq
<1>5. ASSUME NEW x \in Seq(S) PROVE PathSplit(x \o q) = PathSplit(x) \o PathSplit(q)
  <2>1. PathSplit(Around(x, Slash, Tail(q))) = PathSplit(x) \o PathSplit(Tail(q))
    BY <1>1, SplitAtSlash
  <2> QED
    BY <1>1, <1>4, <2>1
<1> QED
  BY <1>4, <1>5

LEMMA JoinHasParts ==
  ASSUME NEW S, Slash \in S, NEW x \in Seq(S), NEW q \in Seq(S)
  PROVE  Join(x, q) \in Seq(S) /\ PathSplit(Join(x, q)) = PathSplit(x) \o PathSplit(Bare(q))
<1>1. Bare(q) \in Seq(S) /\ (Rooted(q) => Bare(q) = q)
  BY BareIs
<1>2. CASE Slashed(x) /\ Rooted(q)
  <2>1. Join(x, q) = x \o Tail(q)
    BY <1>2, JoinIs
  <2>2. Tail(q) \in Seq(S) /\ PathSplit(Tail(q)) = PathSplit(q)
    BY <1>2, BeforeSlash, SplitRooted
  <2>3. PathSplit(x \o Tail(q)) = PathSplit(x) \o PathSplit(Tail(q))
    BY <1>2, <2>2, SplitSlashed
  <2>4. x \o Tail(q) \in Seq(S)
    BY <2>2, ConcatProperties
  <2> QED
    BY <1>1, <1>2, <2>1, <2>2, <2>3, <2>4
<1>3. CASE Slashed(x) /\ ~Rooted(q)
  <2>1. Join(x, q) = x \o Bare(q)
    BY <1>3, JoinIs
  <2>2. PathSplit(x \o Bare(q)) = PathSplit(x) \o PathSplit(Bare(q)) /\ x \o Bare(q) \in Seq(S)
    BY <1>1, <1>3, SplitSlashed, ConcatProperties
  <2> QED
    BY <2>1, <2>2
<1>4. CASE ~Slashed(x) /\ Rooted(q)
  <2>1. Join(x, q) = x \o Bare(q)
    BY <1>4, JoinIs
  <2>2. PathSplit(x \o q) = PathSplit(x) \o PathSplit(q) /\ x \o q \in Seq(S)
    BY <1>4, SplitRooted, ConcatProperties
  <2> QED
    BY <1>1, <1>4, <2>1, <2>2
<1>5. CASE ~Slashed(x) /\ ~Rooted(q)
  <2>1. Join(x, q) = Around(x, Slash, Bare(q))
    BY <1>5, JoinIs DEF Around
  <2>2. PathSplit(Around(x, Slash, Bare(q))) = PathSplit(x) \o PathSplit(Bare(q))
    BY <1>1, SplitAtSlash
  <2>3. Around(x, Slash, Bare(q)) \in Seq(S)
    BY <1>1, AroundIs
  <2> QED
    BY <2>1, <2>2, <2>3
<1> QED
  BY <1>2, <1>3, <1>4, <1>5

-----------------------------------------------------------------------------
(* No slash is doubled.                                                    *)

Single(s) == \A n \in 1..Len(s) - 1 : ~(s[n] = Slash /\ s[n + 1] = Slash)

LEMMA SingleIs ==
  ASSUME NEW S, NEW s \in Seq(S)
  PROVE  NoDoubled(s) <=> Single(s)
<1> DEFINE word == <<Slash, Slash>>
<1>1. word \in Seq({Slash}) /\ Len(word) = 2 /\ word[1] = Slash /\ word[2] = Slash
  OBVIOUS
<1>2. NoDoubled(s) <=> {n \in 0..Len(s) - Len(word) : StartsWith(Offset(s, n), word)} = {}
  BY DEF NoDoubled, Occurrences, Slash
<1> HIDE DEF word
<1>3. Len(s) \in Nat
  BY LenProperties
<1>4. ASSUME NEW n \in 0..Len(s) - 2
      PROVE  StartsWith(Offset(s, n), word) <=> s[n + 1] = Slash /\ s[n + 2] = Slash
  <2>1. n \in 0..Len(s) /\ n + 2 <= Len(s)
    BY <1>3
  <2>2. StartsWith(Offset(s, n), word) <=> At(s, n, word)
    BY <1>1, <2>1, StartsIs
  <2>3. At(s, n, word) <=> \A m \in 1..2 : s[n + m] = word[m]
    BY <1>1, <2>1 DEF At
  <2>4. \A m : m \in 1..2 <=> m = 1 \/ m = 2
    OBVIOUS
  <2> QED
    BY <1>1, <2>2, <2>3, <2>4
<1>5. NoDoubled(s) <=> \A n \in 0..Len(s) - 2 : ~(s[n + 1] = Slash /\ s[n + 2] = Slash)
  BY <1>1, <1>2, <1>4
<1>6. (\A n \in 0..Len(s) - 2 : ~(s[n + 1] = Slash /\ s[n + 2] = Slash)) => Single(s)
  <2> SUFFICES ASSUME \A n \in 0..Len(s) - 2 : ~(s[n + 1] = Slash /\ s[n + 2] = Slash),
                      NEW n \in 1..Len(s) - 1
               PROVE  ~(s[n] = Slash /\ s[n + 1] = Slash)
    BY DEF Single
  <2>1. n - 1 \in 0..Len(s) - 2 /\ n - 1 + 1 = n /\ n - 1 + 2 = n + 1
    BY <1>3
  <2> QED
    BY <2>1
<1>7. Single(s) => \A n \in 0..Len(s) - 2 : ~(s[n + 1] = Slash /\ s[n + 2] = Slash)
  <2> SUFFICES ASSUME Single(s), NEW n \in 0..Len(s) - 2
               PROVE  ~(s[n + 1] = Slash /\ s[n + 2] = Slash)
    OBVIOUS
  <2>1. n + 1 \in 1..Len(s) - 1 /\ n + 1 + 1 = n + 2
    BY <1>3
  <2> QED
    BY <2>1 DEF Single
<1> QED
  BY <1>5, <1>6, <1>7

LEMMA SingleGlued ==
  ASSUME NEW S, NEW u \in Seq(S), NEW v \in Seq(S), Single(u), Single(v), ~(Slashed(u) /\ Rooted(v))
  PROVE  Single(u \o v)
<1> DEFINE w == u \o v
           a == Len(u)
           b == Len(v)
<1>1. /\ a \in Nat /\ b \in Nat /\ Len(w) = a + b
      /\ \A k \in 1..a + b : w[k] = IF k <= a THEN u[k] ELSE v[k - a]
  BY ConcatProperties, LenProperties
<1> HIDE DEF w
<1>2. SUFFICES ASSUME NEW n \in 1..Len(w) - 1, w[n] = Slash, w[n + 1] = Slash PROVE FALSE
  BY DEF Single, w
<1>3. n \in 1..a + b /\ n + 1 \in 1..a + b /\ n \in Nat
  BY <1>1
<1>4. CASE n + 1 <= a
  <2>1. w[n] = u[n] /\ w[n + 1] = u[n + 1] /\ n \in 1..a - 1
    BY <1>1, <1>3, <1>4
  <2> QED
    BY <1>2, <2>1 DEF Single
<1>5. CASE n = a
  <2>1. w[n] = u[a] /\ w[n + 1] = v[1] /\ a >= 1 /\ b >= 1
    <3>1. n <= a /\ ~(n + 1 <= a) /\ n + 1 - a = 1
      BY <1>1, <1>5
    <3>2. a >= 1 /\ b >= 1
      BY <1>1, <1>3, <1>5
    <3> QED
      BY <1>1, <1>3, <1>5, <3>1, <3>2
  <2> QED
    BY <1>2, <2>1 DEF Slashed, Rooted
<1>6. CASE n > a
  <2> DEFINE m == n - a
  <2>1. m \in 1..b - 1 /\ ~(n <= a) /\ ~(n + 1 <= a) /\ n + 1 - a = m + 1
    BY <1>1, <1>3, <1>6
  <2>2. w[n] = v[m] /\ w[n + 1] = v[m + 1]
    <3>1. w[n] = v[n - a] /\ w[n + 1] = v[n + 1 - a]
      BY <1>1, <1>3, <2>1
    <3> QED
      BY <2>1, <3>1
  <2> HIDE DEF m
  <2> QED
    BY <1>2, <2>1, <2>2 DEF Single
<1> QED
  BY <1>1, <1>3, <1>4, <1>5, <1>6

\* What is left of a path without its first characters.
LEMMA SingleBehind ==
  ASSUME NEW S, NEW q \in Seq(S), Single(q), NEW d \in Nat, NEW v \in Seq(S), Len(v) = Len(q) - d,
         \A k \in 1..Len(q) - d : v[k] = q[k + d]
  PROVE  Single(v) /\ (d >= 1 /\ Len(q) >= d /\ q[d] = Slash => ~Rooted(v))
<1>1. Len(q) \in Nat /\ Len(v) \in Nat
  BY LenProperties
<1>2. ASSUME NEW n \in 1..Len(v) - 1 PROVE ~(v[n] = Slash /\ v[n + 1] = Slash)
  <2>1. n \in 1..Len(q) - d /\ n + 1 \in 1..Len(q) - d /\ n + d \in 1..Len(q) - 1 /\ n + 1 + d = n + d + 1
    BY <1>1
  <2>2. v[n] = q[n + d] /\ v[n + 1] = q[n + d + 1]
    BY <2>1
  <2> QED
    BY <2>1, <2>2 DEF Single
<1>3. ASSUME d >= 1, q[d] = Slash, Rooted(v) PROVE FALSE
  <2>1. Len(v) >= 1 /\ v[1] = Slash
    BY <1>3 DEF Rooted
  <2>2. 1 \in 1..Len(q) - d /\ d \in 1..Len(q) - 1 /\ 1 + d = d + 1
    BY <1>1, <1>3, <2>1
  <2>3. q[d + 1] = Slash
    BY <2>1, <2>2
  <2> QED
    BY <1>3, <2>2, <2>3 DEF Single
<1> QED
  BY <1>2, <1>3 DEF Single

LEMMA JoinStaysSingle ==
  ASSUME NEW S, Slash \in S, NEW x \in Seq(S), NEW q \in Seq(S), Single(x), Single(q)
  PROVE  Single(Join(x, q))
<1>1. CASE Slashed(x) /\ Rooted(q)
  <2>1. Join(x, q) = x \o Tail(q)
    BY <1>1, JoinIs
  <2>2. Tail(q) \in Seq(S) /\ Len(Tail(q)) = Len(q) - 1 /\ \A k \in 1..Len(q) - 1 : Tail(q)[k] = q[k + 1]
    BY <1>1, BeforeSlash
  <2>3. Len(q) >= 1 /\ q[1] = Slash
    BY <1>1 DEF Rooted
  <2>4. Single(Tail(q)) /\ ~Rooted(Tail(q))
    <3>1. 1 \in Nat /\ 1 >= 1
      OBVIOUS
    <3> QED
      BY <2>2, <2>3, <3>1, SingleBehind
  <2>5. Single(x \o Tail(q))
    BY <2>2, <2>4, SingleGlued
  <2> QED
    BY <2>1, <2>5
<1>2. CASE ~(Slashed(x) /\ Rooted(q))
  <2>1. Bare(q) \in Seq(S) /\ Single(Bare(q)) /\ (Rooted(Bare(q)) => Rooted(q))
    <3>1. CASE Dotted(q)
      <4>1. /\ Bare(q) \in Seq(S) /\ Len(q) >= 2 /\ Len(Bare(q)) = Len(q) - 2
            /\ \A k \in 1..Len(q) - 2 : Bare(q)[k] = q[k + 2]
        BY <3>1, BareIs
      <4>2. q[2] = Slash
        BY <3>1 DEF Dotted
      <4>3. 2 \in Nat /\ 2 >= 1
        OBVIOUS
      <4>4. Single(Bare(q)) /\ ~Rooted(Bare(q))
        BY <4>1, <4>2, <4>3, SingleBehind
      <4> QED
        BY <4>1, <4>4
    <3>2. CASE ~Dotted(q)
      BY <3>2, BareIs
    <3> QED
      BY <3>1, <3>2
  <2>2. CASE Slashed(x) \/ Rooted(q)
    <3>1. Join(x, q) = x \o Bare(q)
      BY <1>2, <2>2, JoinIs
    <3>2. ~(Slashed(x) /\ Rooted(Bare(q)))
      BY <1>2, <2>1
    <3>3. Single(x \o Bare(q))
      BY <2>1, <3>2, SingleGlued
    <3> QED
      BY <3>1, <3>3
  <2>3. CASE ~Slashed(x) /\ ~Rooted(q)
    <3>1. Join(x, q) = x \o <<Slash>> \o Bare(q)
      BY <2>3, JoinIs
    <3>2. <<Slash>> \in Seq(S) /\ Len(<<Slash>>) = 1
      OBVIOUS
    <3>3. Single(<<Slash>>)
      BY <3>2 DEF Single
    <3> DEFINE y == x \o <<Slash>>
    <3>4. Single(y) /\ y \in Seq(S)
      BY <2>3, <3>2, <3>3, SingleGlued, ConcatProperties
    <3>5. ~Rooted(Bare(q))
      BY <2>1, <2>3
    <3> HIDE DEF y
    <3>6. Single(y \o Bare(q))
      BY <2>1, <3>4, <3>5, SingleGlued
    <3> QED
      BY <3>1, <3>6 DEF y
  <2> QED
    BY <2>2, <2>3
<1> QED
  BY <1>1, <1>2

-----------------------------------------------------------------------------
(* What two paths have in common.                                          *)

LEMMA FlattenExists ==
  ASSUME NEW len \in Nat, NEW parts
  PROVE  \E pre : IsFlattened(pre, parts, len)
<1> DEFINE none == {k \in Nat : ~\E f : IsFlattened(f, parts, k)}
<1>1. ASSUME none # {} PROVE FALSE
  <2>1. PICK k \in none : \A j \in none : ~(<<j, k>> \in OpToRel(<, Nat))
    BY <1>1, WFMin, NatLessThanWellFounded
  <2>2. \A j \in none : ~(j < k)
    BY <2>1, Zenon DEF OpToRel
  <2>3. k \in Nat /\ ~\E f : IsFlattened(f, parts, k)
    OBVIOUS
  <2>4. CASE k = 0
    <3> DEFINE g == [n \in 1..k |-> parts[n]]
    <3>1. 1..k = {}
      BY <2>4
    <3>2. IsFlattened(g, parts, k)
      BY <3>1 DEF IsFlattened
    <3> QED
      BY <2>3, <3>2
  <2>5. CASE k # 0
    <3>1. k - 1 \in Nat /\ k - 1 < k
      BY <2>3, <2>5
    <3>2. PICK f : IsFlattened(f, parts, k - 1)
      BY <2>2, <3>1
    <3> DEFINE last == IF k = 1 THEN parts[k] ELSE f[k - 1] \o parts[k]
               g == [n \in 1..k |-> IF n = k THEN last ELSE f[n]]
               other(n) == IF n = 1 THEN parts[n] ELSE g[n - 1] \o parts[n]
    <3>3. ASSUME NEW n \in 1..k PROVE g[n] = other(n)
      <4>1. CASE n = k
        <5>1. k # 1 => k - 1 \in 1..k /\ k - 1 # k
          BY <2>3, <2>5
        <5>2. g[k] = last /\ k \in 1..k
          BY <2>3, <2>5
        <5>3. k # 1 => g[k - 1] = f[k - 1]
          BY <5>1
        <5> HIDE DEF g
        <5> QED
          BY <4>1, <5>2, <5>3
      <4>2. CASE n # k
        <5>1. n \in 1..k - 1 /\ (n # 1 => n - 1 \in 1..k /\ n - 1 # k)
          BY <2>3, <4>2
        <5>2. f[n] = IF n = 1 THEN parts[n] ELSE f[n - 1] \o parts[n]
          BY <3>2, <5>1 DEF IsFlattened
        <5>3. g[n] = f[n] /\ (n # 1 => g[n - 1] = f[n - 1])
          BY <4>2, <5>1
        <5> HIDE DEF g
        <5> QED
          BY <5>2, <5>3
      <4> QED
        BY <4>1, <4>2
    <3>4. g = [n \in 1..k |-> other(n)]
      <4>1. g = [n \in 1..k |-> g[n]]
        OBVIOUS
      <4> HIDE DEF g, other
      <4> QED
        BY <3>3, <4>1
    <3>5. IsFlattened(g, parts, k)
      <4> HIDE DEF g
      <4> QED
        BY <3>4 DEF IsFlattened
    <3> QED
      BY <2>3, <3>5
  <2> QED
    BY <2>4, <2>5
<1>2. len \notin none
  BY <1>1
<1> QED
  BY <1>2

\* What a path is split into: none is empty, and there is no slash in them.
IsParts(P) == \A n \in 1..Len(P) : P[n] # <<>> /\ Without(P[n], Slash)

LEMMA PartsGlued ==
  ASSUME NEW S, NEW P \in Seq(S), NEW Q \in Seq(S), IsParts(P), IsParts(Q)
  PROVE  IsParts(P \o Q)
<1>1. /\ Len(P) \in Nat /\ Len(Q) \in Nat /\ Len(P \o Q) = Len(P) + Len(Q)
      /\ \A n \in 1..Len(P) + Len(Q) : (P \o Q)[n] = IF n <= Len(P) THEN P[n] ELSE Q[n - Len(P)]
  BY ConcatProperties, LenProperties
<1> SUFFICES ASSUME NEW n \in 1..Len(P) + Len(Q) PROVE (P \o Q)[n] # <<>> /\ Without((P \o Q)[n], Slash)
  BY <1>1 DEF IsParts
<1>2. CASE n <= Len(P)
  <2>1. n \in 1..Len(P) /\ (P \o Q)[n] = P[n]
    BY <1>1, <1>2
  <2> QED
    BY <2>1 DEF IsParts
<1>3. CASE ~(n <= Len(P))
  <2>1. n - Len(P) \in 1..Len(Q) /\ (P \o Q)[n] = Q[n - Len(P)]
    BY <1>1, <1>3
  <2> QED
    BY <2>1 DEF IsParts
<1> QED
  BY <1>2, <1>3

LEMMA KeptParts ==
  ASSUME NEW S, NEW y \in Seq(S), Without(y, Slash)
  PROVE  IsParts(Kept(y, RemoveEmpty)) /\ (y # <<>> => Kept(y, RemoveEmpty) = <<y>>)
<1>1. Kept(y, RemoveEmpty) = IF y = <<>> THEN <<>> ELSE <<y>>
  <2>1. RemoveEmpty \in Untrimmed
    BY DEF Untrimmed
  <2> QED
    BY <2>1, KeptIs
<1>2. CASE y = <<>>
  <2>1. Len(<<>>) = 0 /\ 1..0 = {}
    OBVIOUS
  <2> QED
    BY <1>1, <1>2, <2>1 DEF IsParts
<1>3. CASE y # <<>>
  <2>1. Len(<<y>>) = 1 /\ <<y>>[1] = y /\ \A n \in 1..1 : n = 1
    OBVIOUS
  <2> QED
    BY <1>1, <1>3, <2>1 DEF IsParts
<1> QED
  BY <1>2, <1>3

LEMMA PartsAre ==
  ASSUME NEW S, NEW x \in Seq(S)
  PROVE  IsParts(PathSplit(x))
<1> DEFINE bad == {k \in Nat : \E s \in Seq(S) : Len(s) = k /\ ~IsParts(PathSplit(s))}
<1>1. ASSUME bad # {} PROVE FALSE
  <2>1. PICK k \in bad : \A j \in bad : ~(<<j, k>> \in OpToRel(<, Nat))
    BY <1>1, WFMin, NatLessThanWellFounded
  <2>2. \A j \in bad : ~(j < k)
    BY <2>1, Zenon DEF OpToRel
  <2>3. PICK s \in Seq(S) : Len(s) = k /\ ~IsParts(PathSplit(s))
    OBVIOUS
  <2>4. RemoveEmpty \in Untrimmed
    BY DEF Untrimmed
  <2>5. ~Without(s, Slash)
    <3>1. Without(s, Slash) => SplitByChar(s, Slash, RemoveEmpty) = Kept(s, RemoveEmpty)
      BY <2>4, SplitNone
    <3>2. Without(s, Slash) => IsParts(Kept(s, RemoveEmpty))
      BY KeptParts
    <3> QED
      BY <2>3, <3>1, <3>2, PathSplitIs
  <2>6. PICK y, z \in Seq(S) :
          s = Around(y, Slash, z) /\ Slash \in S /\ Len(z) < Len(s) /\ Without(y, Slash)
    BY <2>5, AroundFirst
  <2>7. Len(z) \in Nat /\ Len(z) < k
    BY <2>3, <2>6, LenProperties
  <2>8. IsParts(PathSplit(z))
    <3>1. Len(z) \notin bad
      BY <2>2, <2>7
    <3> QED
      BY <2>7, <3>1
  <2> DEFINE P == Kept(y, RemoveEmpty)
             Q == PathSplit(z)
  <2>9. IsParts(P) /\ P \in Seq(Seq(S)) /\ Q \in Seq(Seq(S))
    BY <2>4, <2>6, KeptParts, KeptIs, PathSplitIs
  <2>10. PathSplit(s) = P \o Q
    <3>1. SplitByChar(Around(y, Slash, z), Slash, RemoveEmpty) = P \o SplitByChar(z, Slash, RemoveEmpty)
      BY <2>4, <2>6, SplitFirst
    <3> QED
      BY <2>6, <3>1, PathSplitIs
  <2> HIDE DEF P
  <2>11. IsParts(P \o Q)
    BY <2>8, <2>9, PartsGlued
  <2> QED
    BY <2>3, <2>10, <2>11
<1>2. Len(x) \in Nat /\ Len(x) \notin bad
  BY <1>1, LenProperties
<1> QED
  BY <1>2

\* Parts joined with slashes are split into the same parts.
LEMMA PartsReadBack ==
  ASSUME NEW S, Slash \in S, NEW P \in Seq(Seq(S)), IsParts(P), NEW len \in 1..Len(P),
         NEW joined, joined = FlattenSeq([n \in 1..len |-> (IF n = 1 THEN <<>> ELSE <<Slash>>) \o P[n]])
  PROVE  joined \in Seq(S) /\ PathSplit(joined) = SubSeq(P, 1, len)
<1> DEFINE parts == [n \in 1..len |-> (IF n = 1 THEN <<>> ELSE <<Slash>>) \o P[n]]
<1>1. len \in Nat \ {0} /\ Len(P) \in Nat /\ len \in Nat /\ len <= Len(P)
  BY LenProperties
<1>2. Len(parts) = len
  BY <1>1
<1>3. ASSUME NEW n \in 1..len
      PROVE  /\ n \in 1..Len(P) /\ P[n] \in Seq(S) /\ P[n] # <<>> /\ Without(P[n], Slash)
             /\ parts[n] = (IF n = 1 THEN <<>> ELSE <<Slash>>) \o P[n]
  <2>1. n \in 1..Len(P)
    BY <1>1
  <2>2. P[n] \in Seq(S)
    BY <2>1, ElementOfSeq
  <2> QED
    BY <2>1, <2>2 DEF IsParts
<1> HIDE DEF parts
<1>4. PICK pre : IsFlattened(pre, parts, len)
  BY <1>1, FlattenExists
<1>5. joined = pre[len]
  <2>1. FlattenSeq(parts) = pre[len]
    BY <1>1, <1>2, <1>4, FlattenIs
  <2> QED
    BY <2>1 DEF parts
<1> DEFINE Right(n) == pre[n] \in Seq(S) /\ PathSplit(pre[n]) = SubSeq(P, 1, n)
           bad == {n \in 1..len : ~Right(n)}
<1>6. ASSUME bad # {} PROVE FALSE
  <2> DEFINE n == Min(bad)
  <2>1. \A k \in bad : k \in Nat
    OBVIOUS
  <2>2. n \in bad /\ \A k \in bad : n <= k
    BY <1>6, <2>1, MinIsIn
  <2> HIDE DEF n
  <2>3. n \in 1..len /\ ~Right(n)
    BY <2>2
  <2>4. pre[n] = IF n = 1 THEN parts[n] ELSE pre[n - 1] \o parts[n]
    BY <1>4, <2>3 DEF IsFlattened
  <2>5. /\ n \in 1..Len(P) /\ P[n] \in Seq(S) /\ P[n] # <<>> /\ Without(P[n], Slash)
        /\ parts[n] = (IF n = 1 THEN <<>> ELSE <<Slash>>) \o P[n]
    BY <1>3, <2>3
  <2>6. PathSplit(P[n]) = <<P[n]>>
    <3>1. RemoveEmpty \in Untrimmed
      BY DEF Untrimmed
    <3>2. SplitByChar(P[n], Slash, RemoveEmpty) = Kept(P[n], RemoveEmpty)
      BY <2>5, <3>1, SplitNone
    <3>3. Kept(P[n], RemoveEmpty) = <<P[n]>>
      BY <2>5, KeptParts
    <3> QED
      BY <2>5, <3>2, <3>3, PathSplitIs
  <2>7. CASE n = 1
    <3>1. pre[n] = P[n]
      BY <2>4, <2>5, <2>7, ConcatEmptySeq
    <3>2. SubSeq(P, 1, 1) = <<P[1]>>
      <4>1. 1 \in 1..Len(P)
        BY <2>5, <2>7
      <4>2. SubSeq(P, 1, 1) = <<P[1]>> \o SubSeq(P, 1 + 1, 1)
        BY <4>1, SubSeqRecursiveFirst
      <4>3. SubSeq(P, 1 + 1, 1) = <<>>
        OBVIOUS
      <4> QED
        <5>1. <<P[1]>> \in Seq(Seq(S))
          BY <2>5, <2>7
        <5>2. <<P[1]>> \o <<>> = <<P[1]>>
          BY <5>1, ConcatEmptySeq
        <5> QED
          BY <4>2, <4>3, <5>2
    <3> QED
      BY <2>3, <2>5, <2>6, <2>7, <3>1, <3>2
  <2>8. CASE n # 1
    <3> DEFINE m == n - 1
    <3>1. m \in 1..len /\ m \in Nat /\ n \in Nat /\ ~(n <= m)
      BY <2>3, <2>8
    <3> HIDE DEF m
    <3>2. m \notin bad
      <4> HIDE DEF bad
      <4> QED
        BY <2>2, <3>1
    <3>3. Right(m)
      BY <3>1, <3>2
    <3>4. pre[n] = pre[m] \o (<<Slash>> \o P[n])
      BY <2>4, <2>5, <2>8 DEF m
    <3>5. pre[n] = Around(pre[m], Slash, P[n])
      <4>1. <<Slash>> \in Seq(S)
        OBVIOUS
      <4>2. (pre[m] \o <<Slash>>) \o P[n] = pre[m] \o (<<Slash>> \o P[n])
        <5>1. pre[m] \in Seq(S) /\ P[n] \in Seq(S)
          BY <2>5, <3>3
        <5> DEFINE c == <<Slash>>
                   a == pre[m]
                   b == P[n]
        <5>3. a \in Seq(S) /\ b \in Seq(S) /\ c \in Seq(S)
          BY <4>1, <5>1
        <5> HIDE DEF a, b, c
        <5>4. (a \o c) \o b = a \o (c \o b)
          BY ONLY <5>3, ConcatAssociative
        <5> QED
          BY <5>4 DEF a, b, c
      <4> QED
        BY <3>4, <4>2 DEF Around
    <3>6. pre[n] \in Seq(S)
      BY <2>5, <3>3, <3>5, AroundIs
    <3>7. PathSplit(pre[n]) = SubSeq(P, 1, m) \o <<P[n]>>
      BY <2>5, <2>6, <3>3, <3>5, SplitAtSlash
    <3>8. SubSeq(P, 1, n) = SubSeq(P, 1, m) \o <<P[n]>>
      <4>1. 1 \in 1..Len(P) /\ n \in 1..Len(P)
        BY <2>5
      <4>2. SubSeq(P, 1, n) = SubSeq(P, 1, n - 1) \o <<P[n]>>
        BY <4>1, SubSeqRecursiveSecond
      <4> QED
        BY <4>2 DEF m
    <3> QED
      BY <2>3, <3>6, <3>7, <3>8
  <2> QED
    BY <2>7, <2>8
<1>7. len \in 1..len
  BY <1>1
<1>8. Right(len)
  BY <1>6, <1>7
<1> QED
  BY <1>5, <1>8

Shared(one, other) == Max({n \in 0..Min({Len(one), Len(other)}) : SubSeq(one, 1, n) = SubSeq(other, 1, n)})

SharedBy(S, P, one, length) ==
  one \in Seq(S) /\ length \in Len(P)..Len(one) /\ SubSeq(one, 1, Len(P)) = P

\* The longest beginning two lists of parts share is at least as long as any they share.
LEMMA SharedIs ==
  ASSUME NEW S, NEW P \in Seq(S), NEW A \in Seq(S), NEW B \in Seq(S),
         NEW one, one = P \o A, NEW other, other = P \o B,
         NEW length, length = Shared(one, other)
  PROVE  SharedBy(S, P, one, length)
<1> DEFINE least == Min({Len(one), Len(other)})
           shared == {n \in 0..least : SubSeq(one, 1, n) = SubSeq(other, 1, n)}
<1>1. /\ Len(P) \in Nat /\ Len(A) \in Nat /\ Len(B) \in Nat
      /\ one \in Seq(S) /\ Len(one) = Len(P) + Len(A)
      /\ other \in Seq(S) /\ Len(other) = Len(P) + Len(B)
      /\ \A n \in 1..Len(P) + Len(A) : one[n] = IF n <= Len(P) THEN P[n] ELSE A[n - Len(P)]
      /\ \A n \in 1..Len(P) + Len(B) : other[n] = IF n <= Len(P) THEN P[n] ELSE B[n - Len(P)]
  BY ConcatProperties, LenProperties
<1>2. least \in {Len(one), Len(other)} /\ least <= Len(one) /\ least <= Len(other)
  <2>1. \A n \in {Len(one), Len(other)} : n \in Nat
    BY <1>1
  <2>2. {Len(one), Len(other)} # {}
    OBVIOUS
  <2>3. least \in {Len(one), Len(other)} /\ \A n \in {Len(one), Len(other)} : least <= n
    BY <2>1, <2>2, MinIsIn
  <2> QED
    BY <2>3
<1>3. Len(P) \in 0..least /\ least \in Nat /\ Len(P) \in 0..Len(one) /\ Len(P) \in 0..Len(other)
  BY <1>1, <1>2
<1> HIDE DEF least
<1>4. SubSeq(one, 1, Len(P)) = P
  <2>1. /\ SubSeq(one, 1, Len(P)) \in Seq(S) /\ Len(SubSeq(one, 1, Len(P))) = Len(P)
        /\ \A m \in 1..Len(P) : SubSeq(one, 1, Len(P))[m] = one[m]
    BY <1>1, <1>3, SliceIs
  <2>2. \A m \in 1..Len(P) : one[m] = P[m]
    BY <1>1
  <2> QED
    BY <2>1, <2>2, SeqEqual
<1>5. SubSeq(other, 1, Len(P)) = P
  <2>1. /\ SubSeq(other, 1, Len(P)) \in Seq(S) /\ Len(SubSeq(other, 1, Len(P))) = Len(P)
        /\ \A m \in 1..Len(P) : SubSeq(other, 1, Len(P))[m] = other[m]
    BY <1>1, <1>3, SliceIs
  <2>2. \A m \in 1..Len(P) : other[m] = P[m]
    BY <1>1
  <2> QED
    BY <2>1, <2>2, SeqEqual
<1>6. Len(P) \in shared
  BY <1>3, <1>4, <1>5
<1>7. \A m \in shared : m \in Nat /\ m <= least
  BY <1>3
<1>8. length = Max(shared)
  BY DEF least, Shared
<1> HIDE DEF shared
<1>9. length \in shared /\ \A m \in shared : m <= length
  BY <1>3, <1>6, <1>7, <1>8, MaxIsIn
<1>10. length \in Nat /\ length <= least /\ Len(P) <= length
  BY <1>6, <1>7, <1>9
<1>11. length \in Len(P)..Len(one)
  <2>1. Len(P) \in Nat /\ Len(one) \in Nat /\ least \in Nat
    BY <1>1, <1>3
  <2> QED
    BY ONLY <1>2, <1>10, <2>1
<1> QED
  BY <1>1, <1>4, <1>11 DEF SharedBy

\* Two paths that begin with the same parts have these in common.
LEMMA CommonIs ==
  ASSUME NEW S, Slash \in S, NEW P \in Seq(Seq(S)), NEW A \in Seq(Seq(S)), NEW B \in Seq(Seq(S)),
         NEW path1, PathSplit(path1) = P \o A, IsParts(P), IsParts(A), NEW path2, PathSplit(path2) = P \o B,
         NEW common, common = GreatestCommonPath(path1, path2)
  PROVE  IsPrefix(P, PathSplit(common.text)) /\ (~common.cstr => P = <<>>)
<1> DEFINE one == P \o A
           other == P \o B
           length == Shared(one, other)
           joined == FlattenSeq([n \in 1..length |-> (IF n = 1 THEN <<>> ELSE <<Slash>>) \o one[n]])
<1>1. common = [cstr |-> length > 0, text |-> joined]
  BY DEF GreatestCommonPath, Slash, Shared
<1>2. /\ one \in Seq(Seq(S)) /\ length \in Len(P)..Len(one)
      /\ SubSeq(one, 1, Len(P)) = P
  <2>1. one = P \o A /\ other = P \o B
    OBVIOUS
  <2>2. length = Shared(one, other)
    OBVIOUS
  <2>3. P \in Seq(Seq(S)) /\ A \in Seq(Seq(S)) /\ B \in Seq(Seq(S))
    OBVIOUS
  <2> HIDE DEF one, other, length, joined
  <2>4. SharedBy(Seq(S), P, one, length)
    BY ONLY <2>1, <2>2, <2>3, SharedIs
  <2> QED
    BY <2>4 DEF SharedBy
<1>3. IsParts(one)
  BY PartsGlued
<1>4. joined = FlattenSeq([n \in 1..length |-> (IF n = 1 THEN <<>> ELSE <<Slash>>) \o one[n]])
  OBVIOUS
<1> HIDE DEF one, other, length, joined
<1>5. common.text = joined /\ (common.cstr <=> length > 0)
  <2> DEFINE b == length > 0
  <2>1. common = [cstr |-> b, text |-> joined]
    BY <1>1
  <2> HIDE DEF b
  <2>2. common.text = joined /\ common.cstr = b
    BY <2>1
  <2> QED
    BY <2>2 DEF b
<1>6. Len(P) \in Nat /\ Len(one) \in Nat /\ length \in Nat /\ Len(P) <= length /\ length <= Len(one)
  BY <1>2, LenProperties
<1>7. ~common.cstr => P = <<>>
  <2>1. ~common.cstr => Len(P) = 0
    BY <1>5, <1>6
  <2> QED
    BY <2>1, EmptySeq
<1>8. IsPrefix(P, PathSplit(joined))
  <2>1. CASE length = 0
    <3>1. [n \in 1..length |-> (IF n = 1 THEN <<>> ELSE <<Slash>>) \o one[n]] = <<>>
      BY <2>1
    <3>2. joined = <<>>
      <4>1. FlattenSeq(<<>>) = <<>>
        BY DEF FlattenSeq
      <4> QED
        BY <1>4, <3>1, <4>1
    <3>3. <<>> \in Seq(S) /\ Len(<<>>) = 0
      OBVIOUS
    <3>4. PathSplit(joined) = <<>>
      BY <3>2, <3>3, PathSplitIs
    <3>5. P = <<>>
      BY <1>6, <2>1, EmptySeq
    <3> QED
      BY <3>3, <3>4, <3>5 DEF IsPrefix
  <2>2. CASE length # 0
    <3>1. length \in 1..Len(one)
      BY <1>6, <2>2
    <3>2. PathSplit(joined) = SubSeq(one, 1, length)
      BY <1>2, <1>3, <1>4, <3>1, PartsReadBack
    <3> DEFINE cut == SubSeq(one, 1, length)
    <3>3. Len(cut) = length
      BY <1>2, <3>1, SliceIs
    <3>4. SubSeq(cut, 1, Len(P)) = SubSeq(one, 1, Len(P))
      <4>1. 0 \in Nat /\ length \in 0..Len(one) /\ 0 <= length /\ 1 \in Nat /\ Len(P) \in Nat /\ 1 >= 1
            /\ Len(P) <= length - 0 /\ 0 + 1 = 1 /\ 0 + Len(P) = Len(P)
        BY <1>6
      <4>2. SubSeq(SubSeq(one, 0 + 1, length), 1, Len(P)) = SubSeq(one, 0 + 1, 0 + Len(P))
        BY ONLY <1>2, <4>1, PartOfPart
      <4> QED
        BY <4>1, <4>2
    <3>5. SubSeq(P, 1, Len(P)) = P
      BY SubSeqFull
    <3> HIDE DEF cut
    <3>6. IsPrefix(P, cut)
      BY <1>2, <1>6, <3>3, <3>4, <3>5 DEF IsPrefix
    <3> QED
      BY <3>2, <3>6 DEF cut
  <2> QED
    BY <2>1, <2>2
<1> QED
  BY <1>5, <1>7, <1>8

\* What PathsJoin says of three paths.
LEMMA PathsAre ==
  ASSUME NEW S, Slash \in S, NEW x \in Seq(S), NEW q \in Seq(S), NEW r \in Seq(S)
  PROVE  LET joined == JoinMany(<<x, q>>)
             common == GreatestCommonPath(joined, JoinMany(<<x, r>>))
         IN  /\ PathSplit(joined) = PathSplit(x) \o PathSplit(Bare(q))
             /\ PathDepth(joined) = PathDepth(x) + PathDepth(Bare(q))
             /\ NoDoubled(x) /\ NoDoubled(q) => NoDoubled(joined)
             /\ IsPrefix(PathSplit(x), PathSplit(common.text))
             /\ ~common.cstr => PathSplit(x) = <<>>
<1> DEFINE joined == JoinMany(<<x, q>>)
           again == JoinMany(<<x, r>>)
           common == GreatestCommonPath(joined, again)
           P == PathSplit(x)
           A == PathSplit(Bare(q))
           B == PathSplit(Bare(r))
<1>1. joined = Join(x, q) /\ again = Join(x, r)
  BY JoinTwo
<1>2. joined \in Seq(S) /\ PathSplit(joined) = P \o A /\ PathSplit(again) = P \o B
  BY <1>1, JoinHasParts
<1>3. Bare(q) \in Seq(S) /\ Bare(r) \in Seq(S)
  BY BareIs
<1>4. P \in Seq(Seq(S)) /\ A \in Seq(Seq(S)) /\ B \in Seq(Seq(S)) /\ IsParts(P) /\ IsParts(A)
  BY <1>3, PathSplitIs, PartsAre
<1>5. NoDoubled(x) /\ NoDoubled(q) => NoDoubled(joined)
  <2>1. /\ NoDoubled(x) <=> Single(x)
        /\ NoDoubled(q) <=> Single(q)
        /\ NoDoubled(joined) <=> Single(joined)
    BY <1>2, SingleIs
  <2> QED
    BY <1>1, <2>1, JoinStaysSingle
<1>6. PathDepth(joined) = PathDepth(x) + PathDepth(Bare(q))
  <2>1. PathDepth(joined) = Len(PathSplit(joined)) /\ PathDepth(x) = Len(P) /\ PathDepth(Bare(q)) = Len(A)
    BY DEF PathDepth
  <2> HIDE DEF P, A
  <2>2. Len(P \o A) = Len(P) + Len(A)
    BY <1>4, ConcatProperties
  <2> QED
    BY <1>2, <2>1, <2>2
<1> HIDE DEF joined, again, P, A, B
<1>7. IsPrefix(P, PathSplit(common.text)) /\ (~common.cstr => P = <<>>)
  BY <1>2, <1>4, CommonIs
<1> QED
  BY <1>2, <1>5, <1>6, <1>7 DEF joined, again, P, A

-----------------------------------------------------------------------------
(* What is called is asked once and for all.                               *)

Asked == \E asked \in Inputs : text = asked.text /\ call = asked.call

LEMMA AskedInvariance == Spec => []Asked
<1>1. Init => Asked
  BY DEF Init, Asked
<1>2. Asked /\ [Next]_vars => Asked'
  <2> SUFFICES ASSUME Asked, [Next]_vars PROVE Asked'
    OBVIOUS
  <2>1. text' = text /\ call' = call
    BY DEF Next, Split, Index, Opened, Balanced, TrimAll, Running, vars
  <2> QED
    BY <2>1 DEF Asked
<1> QED
  BY <1>1, <1>2, PTL DEF Spec

\* Joined paths have the parts of each, no slash is doubled by it, and what two of them
\* have in common is all of what they were made of: path_join_many and
\* greatest_common_path of core/fio.c.
THEOREM PathsAreJoined == Spec => []PathsJoin
<1>1. Asked => PathsJoin
  <2> SUFFICES ASSUME Asked, call.op = "path" PROVE PathsJoin
    BY DEF PathsJoin
  <2>1. PICK asked \in Inputs : text = asked.text /\ call = asked.call
    BY DEF Asked
  <2>2. text \in Seq(Chars) /\ call.args \in Seq(Chars) \X Seq(Chars)
    BY <2>1, ConstantsAssumption, PathsAssumption
  <2> DEFINE q == call.args[1]
             r == call.args[2]
             T == Chars \cup {Slash}
  <2>3. q \in Seq(Chars) /\ r \in Seq(Chars)
    BY <2>2
  <2>4. text \in Seq(T) /\ q \in Seq(T) /\ r \in Seq(T) /\ Slash \in T
    <3>1. Chars \subseteq T /\ Slash \in T
      OBVIOUS
    <3> HIDE DEF q, r, T
    <3> QED
      BY <2>2, <2>3, <3>1, SeqMonotonic
  <2>5. LET joined == JoinMany(<<text, q>>)
            common == GreatestCommonPath(joined, JoinMany(<<text, r>>))
        IN  /\ PathSplit(joined) = PathSplit(text) \o PathSplit(Bare(q))
            /\ PathDepth(joined) = PathDepth(text) + PathDepth(Bare(q))
            /\ NoDoubled(text) /\ NoDoubled(q) => NoDoubled(joined)
            /\ IsPrefix(PathSplit(text), PathSplit(common.text))
            /\ ~common.cstr => PathSplit(text) = <<>>
    <3> HIDE DEF q, r, T
    <3> QED
      BY <2>4, PathsAre
  <2> QED
    BY <2>5 DEF PathsJoin
<1> QED
  BY <1>1, AskedInvariance, PTL

-----------------------------------------------------------------------------
(* Numbers.  A trace has the format a number is taken for behind each of   *)
(* its characters.                                                         *)

Before(s, n) == IF n = 1 THEN "NUL" ELSE s[n - 1]

StepFrom(s, n, before) ==
  IF before \in {"inf", "nan"} THEN IF IsInf(s) \/ IsNan(s) THEN before ELSE "refused"
  ELSE FloatStep(before, Before(s, n), s[n])

IsTrace(f, s, len) ==
  f = [n \in 0..len |-> IF n = 0 THEN "undefined" ELSE StepFrom(s, n, f[n - 1])]

Trace(f, s) == f[0] = "undefined" /\ \A n \in 1..Len(s) : f[n] = StepFrom(s, n, f[n - 1])

LEMMA TraceExists ==
  ASSUME NEW len \in Nat, NEW s
  PROVE  \E f : IsTrace(f, s, len)
<1> DEFINE none == {k \in Nat : ~\E f : IsTrace(f, s, k)}
<1>1. ASSUME none # {} PROVE FALSE
  <2>1. PICK k \in none : \A j \in none : ~(<<j, k>> \in OpToRel(<, Nat))
    BY <1>1, WFMin, NatLessThanWellFounded
  <2>2. \A j \in none : ~(j < k)
    BY <2>1, Zenon DEF OpToRel
  <2>3. k \in Nat /\ ~\E f : IsTrace(f, s, k)
    OBVIOUS
  <2>4. CASE k = 0
    <3> DEFINE g == [n \in 0..k |-> "undefined"]
    <3>1. \A n \in 0..k : n = 0
      BY <2>4
    <3>2. IsTrace(g, s, k)
      BY <3>1 DEF IsTrace
    <3> QED
      BY <2>3, <3>2
  <2>5. CASE k # 0
    <3>1. k - 1 \in Nat /\ k - 1 < k
      BY <2>3, <2>5
    <3>2. PICK f : IsTrace(f, s, k - 1)
      BY <2>2, <3>1
    <3> DEFINE last == StepFrom(s, k, f[k - 1])
               g == [n \in 0..k |-> IF n = k THEN last ELSE f[n]]
               other(n) == IF n = 0 THEN "undefined" ELSE StepFrom(s, n, g[n - 1])
    <3>3. ASSUME NEW n \in 0..k PROVE g[n] = other(n)
      <4>1. CASE n = k
        <5>1. k - 1 \in 0..k /\ k - 1 # k /\ n # 0
          BY <2>3, <2>5, <4>1
        <5>2. g[k] = last /\ k \in 0..k
          BY <2>3, <2>5
        <5>3. g[k - 1] = f[k - 1]
          BY <5>1
        <5> HIDE DEF g
        <5> QED
          BY <4>1, <5>1, <5>2, <5>3
      <4>2. CASE n # k
        <5>1. n \in 0..k - 1 /\ (n # 0 => n - 1 \in 0..k /\ n - 1 # k)
          BY <2>3, <4>2
        <5>2. f[n] = IF n = 0 THEN "undefined" ELSE StepFrom(s, n, f[n - 1])
          BY <3>2, <5>1 DEF IsTrace
        <5>3. g[n] = f[n] /\ (n # 0 => g[n - 1] = f[n - 1])
          BY <4>2, <5>1
        <5> HIDE DEF g
        <5> QED
          BY <5>2, <5>3
      <4> QED
        BY <4>1, <4>2
    <3>4. g = [n \in 0..k |-> other(n)]
      <4>1. g = [n \in 0..k |-> g[n]]
        OBVIOUS
      <4> HIDE DEF g, other
      <4> QED
        BY <3>3, <4>1
    <3>5. IsTrace(g, s, k)
      <4> HIDE DEF g
      <4> QED
        BY <3>4 DEF IsTrace
    <3> QED
      BY <2>3, <3>5
  <2> QED
    BY <2>4, <2>5
<1>2. len \notin none
  BY <1>1
<1> QED
  BY <1>2

LEMMA TraceIs ==
  ASSUME NEW S, NEW s \in Seq(S)
  PROVE  \E f : FloatFormat(s) = f[Len(s)] /\ Trace(f, s)
<1> DEFINE f == CHOOSE f : IsTrace(f, s, Len(s))
<1>1. FloatFormat(s) = f[Len(s)]
  BY DEF FloatFormat, IsTrace, StepFrom, Before
<1>2. Len(s) \in Nat
  BY LenProperties
<1>3. IsTrace(f, s, Len(s))
  BY <1>2, TraceExists
<1> HIDE DEF f
<1>4. f[0] = "undefined"
  BY <1>2, <1>3 DEF IsTrace
<1>5. ASSUME NEW n \in 1..Len(s) PROVE f[n] = StepFrom(s, n, f[n - 1])
  <2>1. n \in 0..Len(s) /\ n # 0
    BY <1>2
  <2> QED
    BY <1>3, <2>1 DEF IsTrace
<1> QED
  BY <1>1, <1>4, <1>5 DEF Trace

\* From a on up to b.
LEMMA Upwards ==
  ASSUME NEW a \in Nat, NEW b \in Nat, NEW good, a \in good,
         \A n \in a..b : n < b /\ n \in good => n + 1 \in good
  PROVE  \A n \in a..b : n \in good
<1> DEFINE bad == {n \in a..b : n \notin good}
<1>1. ASSUME bad # {} PROVE FALSE
  <2> DEFINE n == Min(bad)
  <2>1. \A k \in bad : k \in Nat
    OBVIOUS
  <2>2. n \in bad /\ \A k \in bad : n <= k
    BY <1>1, <2>1, MinIsIn
  <2> HIDE DEF n
  <2>3. n \in a..b /\ n \notin good /\ n # a
    BY <2>2
  <2> DEFINE m == n - 1
  <2>4. m \in a..b /\ m < b /\ m + 1 = n /\ ~(n <= m)
    BY <2>3
  <2> HIDE DEF m
  <2>5. m \notin bad
    <3> HIDE DEF bad
    <3> QED
      BY <2>2, <2>4
  <2>6. m \in good
    BY <2>4, <2>5
  <2> QED
    BY <2>3, <2>4, <2>6
<1> QED
  BY <1>1

-----------------------------------------------------------------------------
(* What a character makes of a format.                                     *)

LEMMA SignsAre ==
  /\ "NUL" \notin Signs /\ "NUL" \notin DecimalDigits
  /\ Signs \cap HexNumerals = {} /\ DecimalDigits \subseteq HexNumerals
  /\ {".", "p", "x", "NUL"} \cap HexNumerals = {} /\ "e" \notin DecimalDigits /\ "e" \notin Signs
  /\ {".", "p", "x", "i", "n", "0"} \cap Signs = {} /\ "0" \in DecimalDigits
  /\ {"i", "n", "."} \cap DecimalDigits = {}
BY DEF Signs, DecimalDigits, HexNumerals

LEMMA HexSteps ==
  /\ \A p : \A c \in HexNumerals :
       /\ FloatStep("hexPre", p, c) = "hexPre"
       /\ FloatStep("hexMeso", p, c) = "hexMeso"
       /\ FloatStep("hexPost", p, c) = "hexPost"
  /\ \A p : FloatStep("hexPre", p, ".") = "hexMeso"
  /\ \A p : FloatStep("hexPre", p, "p") = "hexPost" /\ FloatStep("hexMeso", p, "p") = "hexPost"
  /\ \A c \in Signs : FloatStep("hexPost", "p", c) = "hexPost"
<1>1. ASSUME NEW p, NEW c \in HexNumerals
      PROVE  /\ FloatStep("hexPre", p, c) = "hexPre"
             /\ FloatStep("hexMeso", p, c) = "hexMeso"
             /\ FloatStep("hexPost", p, c) = "hexPost"
  <2>1. c # "p" /\ c # "."
    BY SignsAre
  <2>2. Leads("hexPre", c) = "hexPre" /\ Leads("hexMeso", c) = "hexMeso" /\ Leads("hexPost", c) = "hexPost"
    BY <2>1 DEF Leads
  <2>3. GoesOn("hexPre", p, c) /\ GoesOn("hexMeso", p, c) /\ GoesOn("hexPost", p, c)
    BY DEF GoesOn
  <2> QED
    BY <2>2, <2>3 DEF FloatStep
<1>2. ASSUME NEW p
      PROVE  /\ FloatStep("hexPre", p, ".") = "hexMeso"
             /\ FloatStep("hexPre", p, "p") = "hexPost" /\ FloatStep("hexMeso", p, "p") = "hexPost"
  BY DEF FloatStep, Leads
<1>3. ASSUME NEW c \in Signs PROVE FloatStep("hexPost", "p", c) = "hexPost"
  <2>1. Leads("hexPost", c) = "hexPost"
    BY DEF Leads
  <2>2. GoesOn("hexPost", "p", c)
    BY DEF GoesOn
  <2> QED
    BY <2>1, <2>2 DEF FloatStep
<1> QED
  BY <1>1, <1>2, <1>3

LEMMA DecimalSteps ==
  /\ \A p : \A c \in DecimalDigits :
       /\ FloatStep("decimalPre", p, c) = "decimalPre"
       /\ FloatStep("decimalMeso", p, c) = "decimalMeso"
       /\ FloatStep("decimalPost", p, c) = "decimalPost"
  /\ \A p : FloatStep("decimalPre", p, ".") = "decimalMeso"
  /\ \A p : FloatStep("decimalPre", p, "e") = "decimalPost" /\ FloatStep("decimalMeso", p, "e") = "decimalPost"
  /\ \A c \in Signs : FloatStep("decimalPost", "e", c) = "decimalPost"
  /\ \A p, c : FloatStep("refused", p, c) = "refused"
<1>1. ASSUME NEW p, NEW c \in DecimalDigits
      PROVE  /\ FloatStep("decimalPre", p, c) = "decimalPre"
             /\ FloatStep("decimalMeso", p, c) = "decimalMeso"
             /\ FloatStep("decimalPost", p, c) = "decimalPost"
  <2>1. c # "e" /\ c # "."
    BY SignsAre
  <2>2. /\ Leads("decimalPre", c) = "decimalPre" /\ Leads("decimalMeso", c) = "decimalMeso"
        /\ Leads("decimalPost", c) = "decimalPost"
    BY <2>1 DEF Leads
  <2>3. GoesOn("decimalPre", p, c) /\ GoesOn("decimalMeso", p, c) /\ GoesOn("decimalPost", p, c)
    BY DEF GoesOn
  <2> QED
    BY <2>2, <2>3 DEF FloatStep
<1>2. ASSUME NEW p
      PROVE  /\ FloatStep("decimalPre", p, ".") = "decimalMeso"
             /\ FloatStep("decimalPre", p, "e") = "decimalPost" /\ FloatStep("decimalMeso", p, "e") = "decimalPost"
  BY DEF FloatStep, Leads
<1>3. ASSUME NEW c \in Signs PROVE FloatStep("decimalPost", "e", c) = "decimalPost"
  <2>1. Leads("decimalPost", c) = "decimalPost"
    BY DEF Leads
  <2>2. GoesOn("decimalPost", "e", c)
    BY DEF GoesOn
  <2> QED
    BY <2>1, <2>2 DEF FloatStep
<1>4. ASSUME NEW p, NEW c PROVE FloatStep("refused", p, c) = "refused"
  <2>1. Leads("refused", c) = "refused"
    BY DEF Leads
  <2> QED
    BY <2>1 DEF FloatStep
<1> QED
  BY <1>1, <1>2, <1>3, <1>4

LEMMA UndefinedSteps ==
  /\ \A c \in Signs : FloatStep("undefined", "NUL", c) = "undefined"
  /\ \A p, c : p # "NUL" /\ c \in Signs => FloatStep("undefined", p, c) = "refused"
  /\ \A p : p \notin DecimalDigits => FloatStep("undefined", p, "0") = "undefined"
  /\ FloatStep("undefined", "0", "x") = "hexPre"
  /\ \A p \in Signs \cup {"NUL"} :
       FloatStep("undefined", p, "i") = "inf" /\ FloatStep("undefined", p, "n") = "nan"
  /\ \A p : FloatStep("undefined", p, ".") = "undefined" /\ FloatStep("undefined", p, "e") = "undefined"
  /\ \A p : \A c \in DecimalDigits :
       FloatStep("undefined", p, c) = IF c = "0" /\ p \in DecimalDigits THEN "decimalPre" ELSE "undefined"
<1>0. \A p, c : FloatStep("undefined", p, c) = UndefinedStep(p, c)
  BY DEF FloatStep
<1>1. ASSUME NEW p, NEW c \in Signs
      PROVE  UndefinedStep(p, c) = IF p = "NUL" THEN "undefined" ELSE "refused"
  BY DEF UndefinedStep, Signs
<1>2. ASSUME NEW p
      PROVE  /\ UndefinedStep(p, "0") = IF p \in DecimalDigits THEN "decimalPre" ELSE "undefined"
             /\ UndefinedStep(p, ".") = "undefined" /\ UndefinedStep(p, "e") = "undefined"
             /\ p \in Signs \cup {"NUL"} => UndefinedStep(p, "i") = "inf" /\ UndefinedStep(p, "n") = "nan"
             /\ p = "0" => UndefinedStep(p, "x") = "hexPre"
  BY SignsAre DEF UndefinedStep, AtStart
<1>3. ASSUME NEW p, NEW c \in DecimalDigits, c # "0"
      PROVE  UndefinedStep(p, c) = "undefined"
  <2>1. c \notin Signs /\ c # "x" /\ c # "i" /\ c # "n"
    BY SignsAre DEF DecimalDigits
  <2> QED
    BY <1>3, <2>1 DEF UndefinedStep
<1> QED
  BY <1>0, <1>1, <1>2, <1>3

-----------------------------------------------------------------------------
(* Behind the sign.                                                        *)

\* l characters of s are its sign, and u is what is behind it.
IsUnsigned(s, l, u) ==
  /\ l \in {0, 1} /\ l <= Len(s) /\ (l = 1 <=> Len(s) >= 1 /\ s[1] \in Signs)
  /\ Len(u) = Len(s) - l /\ \A m \in 1..Len(u) : u[m] = s[l + m]

LEMMA UnsignedIs ==
  ASSUME NEW S, NEW s \in Seq(S)
  PROVE  Unsigned(s) \in Seq(S) /\ \E l : IsUnsigned(s, l, Unsigned(s))
<1>0. Len(s) \in Nat /\ (s # <<>> <=> Len(s) >= 1)
  BY LenProperties, EmptySeq
<1>1. CASE s # <<>> /\ s[1] \in Signs
  <2>1. Unsigned(s) = Tail(s)
    BY <1>1 DEF Unsigned
  <2>2. Tail(s) \in Seq(S) /\ Len(Tail(s)) = Len(s) - 1 /\ \A m \in 1..Len(Tail(s)) : Tail(s)[m] = s[m + 1]
    BY <1>1, HeadTailProperties
  <2>3. \A m \in 1..Len(Tail(s)) : m + 1 = 1 + m
    OBVIOUS
  <2>4. IsUnsigned(s, 1, Tail(s))
    BY <1>0, <1>1, <2>2, <2>3 DEF IsUnsigned
  <2> QED
    BY <2>1, <2>2, <2>4
<1>2. CASE ~(s # <<>> /\ s[1] \in Signs)
  <2>1. Unsigned(s) = s
    BY <1>2 DEF Unsigned
  <2>2. \A m \in 1..Len(s) : 0 + m = m
    OBVIOUS
  <2>3. IsUnsigned(s, 0, s)
    BY <1>0, <1>2, <2>2 DEF IsUnsigned
  <2> QED
    BY <2>1, <2>3
<1> QED
  BY <1>1, <1>2

\* The sign leaves a number undefined, and what is behind it is at a number's start.
LEMMA BehindSign ==
  ASSUME NEW S, NEW s \in Seq(S), NEW f, Trace(f, s), NEW l, NEW u, IsUnsigned(s, l, u)
  PROVE  f[l] = "undefined" /\ Before(s, l + 1) \in Signs \cup {"NUL"}
<1>1. CASE l = 0
  BY <1>1 DEF Trace, Before
<1>2. CASE l = 1
  <2>1. Len(s) >= 1 /\ s[1] \in Signs /\ 1 \in 1..Len(s) /\ 1 - 1 = 0
    BY <1>2, LenProperties DEF IsUnsigned
  <2>2. f[1] = StepFrom(s, 1, "undefined")
    BY <2>1 DEF Trace
  <2>3. Before(s, 1) = "NUL"
    BY DEF Before
  <2>4. FloatStep("undefined", "NUL", s[1]) = "undefined"
    BY <2>1, UndefinedSteps
  <2>5. f[1] = "undefined"
    BY <2>2, <2>3, <2>4 DEF StepFrom
  <2>6. Before(s, 1 + 1) = s[1]
    <3>1. 1 + 1 # 1 /\ 1 + 1 - 1 = 1
      OBVIOUS
    <3> QED
      BY <3>1 DEF Before
  <2> QED
    BY <1>2, <2>1, <2>5, <2>6
<1> QED
  BY <1>1, <1>2 DEF IsUnsigned

\* A step that is not one of inf or nan.
LEMMA PlainStep ==
  ASSUME NEW S, NEW s \in Seq(S), NEW f, Trace(f, s), NEW n \in 1..Len(s),
         NEW before, f[n - 1] = before, before \notin {"inf", "nan"}, NEW p, Before(s, n) = p, NEW c, s[n] = c
  PROVE  f[n] = FloatStep(before, p, c)
BY DEF Trace, StepFrom

LEMMA BeforeIs ==
  ASSUME NEW s, NEW n \in Nat, n >= 1
  PROVE  Before(s, n + 1) = s[n] /\ n + 1 - 1 = n
BY DEF Before

\* "inf" and "nan" with what may be behind them.
LEMMA WordsAreRead ==
  ASSUME NEW S, NEW s \in Seq(S), IsInf(s) \/ IsNan(s)
  PROVE  FloatFormat(s) \in {"inf", "nan"}
<1> DEFINE u == Unsigned(s)
<1>1. u \in Seq(S)
  BY UnsignedIs
<1>2. PICK l : IsUnsigned(s, l, u)
  BY UnsignedIs
<1>3. Len(u) >= 1 /\ u[1] \in {"i", "n"}
  <2>1. CASE IsInf(s)
    <3>1. u = Inf \/ u = Infinity
      BY <2>1 DEF IsInf
    <3>2. Len(Inf) = 3 /\ Inf[1] = "i"
      BY DEF Inf
    <3> DEFINE more == <<"i", "n", "i", "t", "y">>
               letters == {"i", "n", "f", "t", "y"}
    <3>3. Infinity = Inf \o more
      BY DEF Infinity
    <3>5. Inf \in Seq(letters) /\ more \in Seq(letters) /\ Len(more) = 5
      BY DEF Inf
    <3> HIDE DEF more, letters
    <3>6. /\ Len(Inf \o more) = Len(Inf) + Len(more)
          /\ \A n \in 1..Len(Inf) + Len(more) :
               (Inf \o more)[n] = IF n <= Len(Inf) THEN Inf[n] ELSE more[n - Len(Inf)]
      BY ONLY <3>5, ConcatProperties
    <3>7. 1 \in 1..Len(Inf) + Len(more) /\ 1 <= Len(Inf)
      BY <3>2, <3>5
    <3>8. (Inf \o more)[1] = Inf[1]
      BY <3>6, <3>7
    <3>4. Len(Infinity) = 8 /\ Infinity[1] = "i"
      BY <3>2, <3>3, <3>5, <3>6, <3>8
    <3> QED
      BY <3>1, <3>2, <3>4
  <2>2. CASE IsNan(s)
    <3>1. StartsWith(u, Nan)
      BY <2>2 DEF IsNan, StartsWith
    <3>2. Nan \in Seq({"n", "a"}) /\ Len(Nan) = 3 /\ Nan[1] = "n"
      BY DEF Nan
    <3>3. Offset(u, 0) = u /\ 0 \in 0..Len(u) /\ Len(u) \in Nat
      BY <1>1, SubSeqFull, LenProperties DEF Offset
    <3>4. At(u, 0, Nan)
      BY <1>1, <3>1, <3>2, <3>3, StartsIs
    <3>5. 0 + 3 <= Len(u) /\ u[0 + 1] = Nan[1]
      BY <3>2, <3>4 DEF At
    <3> QED
      BY <3>2, <3>3, <3>5
  <2> QED
    BY <2>1, <2>2
<1> HIDE DEF u
<1>4. PICK f : FloatFormat(s) = f[Len(s)] /\ Trace(f, s)
  BY TraceIs
<1>5. Len(s) \in Nat /\ l \in Nat /\ l + 1 \in 1..Len(s) /\ s[l + 1] \in {"i", "n"}
  <2>1. Len(s) \in Nat /\ l \in {0, 1} /\ Len(u) = Len(s) - l
    BY <1>2, LenProperties DEF IsUnsigned
  <2>2. 1 \in 1..Len(u)
    BY <1>3, <2>1
  <2>3. u[1] = s[l + 1]
    BY <1>2, <2>2 DEF IsUnsigned
  <2> QED
    BY <1>3, <2>1, <2>3
<1>6. f[l] = "undefined" /\ Before(s, l + 1) \in Signs \cup {"NUL"}
  BY <1>2, <1>4, BehindSign
<1>7. f[l + 1] \in {"inf", "nan"}
  <2>1. l + 1 - 1 = l
    BY <1>5
  <2>2. f[l + 1] = FloatStep("undefined", Before(s, l + 1), s[l + 1])
    BY <1>4, <1>5, <1>6, <2>1, PlainStep
  <2> QED
    BY <1>5, <1>6, <2>2, UndefinedSteps
<1> DEFINE good == {n \in 1..Len(s) : f[n] \in {"inf", "nan"}}
<1>8. ASSUME NEW n \in l + 1..Len(s), n < Len(s), n \in good PROVE n + 1 \in good
  <2>1. n + 1 \in 1..Len(s) /\ n + 1 - 1 = n
    BY <1>5, <1>8
  <2>2. f[n + 1] = StepFrom(s, n + 1, f[n])
    BY <1>4, <2>1 DEF Trace
  <2>3. f[n + 1] = f[n]
    BY <1>8, <2>2 DEF StepFrom
  <2> QED
    BY <1>8, <2>1, <2>3
<1>9. l + 1 \in good /\ l + 1 \in Nat /\ Len(s) \in l + 1..Len(s)
  BY <1>5, <1>7
<1> HIDE DEF good
<1>10. \A n \in l + 1..Len(s) : n \in good
  <2> DEFINE a == l + 1
  <2> HIDE DEF a
  <2>1. a \in Nat /\ a \in good /\ \A n \in a..Len(s) : n < Len(s) /\ n \in good => n + 1 \in good
    BY <1>8, <1>9 DEF a
  <2>2. \A n \in a..Len(s) : n \in good
    BY <1>5, <2>1, Upwards
  <2> QED
    BY <2>2 DEF a
<1> QED
  BY <1>4, <1>9, <1>10 DEF good

-----------------------------------------------------------------------------
(* How a numeral is laid out behind the first k characters.                *)

LaidOut(s, k, i_, j_, digits) ==
  /\ i_ \in 0..Len(s) - k /\ j_ \in i_..Len(s) - k
  /\ \A m \in 1..i_ : s[k + m] \in digits
  /\ j_ > i_ => s[k + i_ + 1] = "."
  /\ \A m \in i_ + 2..j_ : s[k + m] \in digits

\* The letter of the exponent is at e, and l characters are its sign.
Exponent(s, e, letter, l) ==
  /\ e \in 1..Len(s) /\ s[e] = letter
  /\ l \in {0, 1} /\ e + l < Len(s) /\ (l = 1 <=> s[e + 1] \in Signs)
  /\ \A m \in e + 1 + l..Len(s) : s[m] \in DecimalDigits

LEMMA MadeIs ==
  ASSUME NEW S, NEW t \in Seq(S), NEW allowed
  PROVE  Made(t, allowed) <=> \A m \in 1..Len(t) : t[m] \in allowed
<1>1. DOMAIN t = 1..Len(t)
  BY LenProperties
<1>2. ToSet(t) = {t[m] : m \in 1..Len(t)}
  BY <1>1 DEF ToSet
<1> QED
  BY <1>2 DEF Made

LEMMA OffsetUnsigned ==
  ASSUME NEW S, NEW s \in Seq(S), NEW l, NEW u \in Seq(S), IsUnsigned(s, l, u)
  PROVE  u = Offset(s, l)
<1>1. l \in 0..Len(s) /\ Len(u) = Len(s) - l /\ \A m \in 1..Len(u) : u[m] = s[l + m]
  BY LenProperties DEF IsUnsigned
<1>2. Offset(s, l) \in Seq(S) /\ Len(Offset(s, l)) = Len(s) - l
      /\ \A m \in 1..Len(s) - l : Offset(s, l)[m] = s[l + m]
  BY <1>1, OffsetIs
<1> QED
  BY <1>1, <1>2, SeqEqual

\* What IsNumeral asks for.
NumeralAt(h, i_, j_, digits, letter) ==
  LET fraction == SubSeq(h, i_ + 1, j_)  exponent == SubSeq(h, j_ + 1, Len(h))
  IN  /\ Made(SubSeq(h, 1, i_), digits)
      /\ fraction # <<>> => fraction[1] = "." /\ Made(Tail(fraction), digits)
      /\ exponent # <<>> => /\ exponent[1] = letter
                            /\ Unsigned(Tail(exponent)) # <<>>
                            /\ Made(Unsigned(Tail(exponent)), DecimalDigits)

IsPart(S, h, a, b, t) ==
  /\ t \in Seq(S) /\ Len(t) = b - a /\ (t # <<>> <=> a < b)
  /\ \A m \in 1..b - a : t[m] = h[a + m]
  /\ a < b => /\ Tail(t) \in Seq(S) /\ Len(Tail(t)) = b - a - 1
              /\ \A m \in 1..b - a - 1 : Tail(t)[m] = h[a + 1 + m]

LEMMA PartBehind ==
  ASSUME NEW S, NEW h \in Seq(S), NEW a \in 0..Len(h), NEW b \in a..Len(h), NEW t, t = SubSeq(h, a + 1, b)
  PROVE  IsPart(S, h, a, b, t)
<1>1. Len(h) \in Nat /\ a \in Nat /\ b \in Nat /\ a <= b /\ b <= Len(h)
  BY LenProperties
<1>2. a + 1 \in Nat /\ a + 1 >= 1 /\ b \in 0..Len(h)
  BY <1>1
<1>3. /\ t \in Seq(S) /\ Len(t) = (IF a + 1 <= b THEN b - (a + 1) + 1 ELSE 0)
      /\ \A m \in 1..b - (a + 1) + 1 : t[m] = h[a + 1 + m - 1]
  BY <1>2, PartOf
<1>4. Len(t) = b - a
  BY <1>1, <1>3
<1>5. \A m \in 1..b - a : t[m] = h[a + m]
  <2> TAKE m \in 1..b - a
  <2>1. m \in 1..b - (a + 1) + 1 /\ a + 1 + m - 1 = a + m
    BY <1>1
  <2> QED
    BY <1>3, <2>1
<1>6. t # <<>> <=> a < b
  BY <1>1, <1>3, <1>4, EmptySeq
<1>7. ASSUME a < b
      PROVE  /\ Tail(t) \in Seq(S) /\ Len(Tail(t)) = b - a - 1
             /\ \A m \in 1..b - a - 1 : Tail(t)[m] = h[a + 1 + m]
  <2>1. /\ Tail(t) \in Seq(S) /\ Len(Tail(t)) = Len(t) - 1
        /\ \A m \in 1..Len(Tail(t)) : Tail(t)[m] = t[m + 1]
    BY <1>3, <1>6, <1>7, HeadTailProperties
  <2>2. ASSUME NEW m \in 1..b - a - 1 PROVE Tail(t)[m] = h[a + 1 + m]
    <3>1. m \in 1..Len(Tail(t)) /\ m + 1 \in 1..b - a /\ a + (m + 1) = a + 1 + m
      BY <1>1, <1>4, <2>1
    <3>2. t[m + 1] = h[a + (m + 1)]
      BY <1>5, <3>1
    <3> QED
      BY <2>1, <3>1, <3>2
  <2> QED
    BY <1>4, <2>1, <2>2
<1> QED
  BY <1>3, <1>4, <1>5, <1>6, <1>7 DEF IsPart

HasExponent(s, e, letter) == \E l : Exponent(s, e, letter, l)

LEMMA NumeralIsLaidOut ==
  ASSUME NEW S, NEW s \in Seq(S), NEW k \in 0..Len(s), NEW h, h = Offset(s, k),
         NEW i_ \in 0..Len(h), NEW j_ \in i_..Len(h), NEW digits, NEW letter, NumeralAt(h, i_, j_, digits, letter)
  PROVE  LaidOut(s, k, i_, j_, digits) /\ (k + j_ < Len(s) => HasExponent(s, k + j_ + 1, letter))
<1>1. /\ h \in Seq(S) /\ Len(h) = Len(s) - k /\ Len(s) \in Nat /\ k \in Nat
      /\ \A m \in 1..Len(s) - k : h[m] = s[k + m]
  <2>1. /\ Offset(s, k) \in Seq(S) /\ Len(Offset(s, k)) = Len(s) - k
        /\ \A m \in 1..Len(s) - k : Offset(s, k)[m] = s[k + m]
    BY OffsetIs
  <2>2. Len(s) \in Nat
    BY LenProperties
  <2> QED
    BY <2>1, <2>2
<1>2. i_ \in Nat /\ j_ \in Nat /\ i_ <= j_ /\ j_ <= Len(s) - k /\ 0 \in 0..Len(h) /\ i_ \in 0..Len(h)
      /\ i_ \in 0..Len(s) - k /\ j_ \in i_..Len(s) - k /\ j_ \in 0..Len(h) /\ Len(h) \in j_..Len(h)
  BY <1>1
<1> DEFINE whole == SubSeq(h, 1, i_)
           fraction == SubSeq(h, i_ + 1, j_)
           exponent == SubSeq(h, j_ + 1, Len(h))
<1>3. /\ Made(whole, digits)
      /\ fraction # <<>> => fraction[1] = "." /\ Made(Tail(fraction), digits)
      /\ exponent # <<>> => /\ exponent[1] = letter
                            /\ Unsigned(Tail(exponent)) # <<>>
                            /\ Made(Unsigned(Tail(exponent)), DecimalDigits)
  BY DEF NumeralAt
<1>4. ASSUME NEW m \in 1..i_ PROVE s[k + m] \in digits
  <2>1. /\ whole \in Seq(S) /\ Len(whole) = i_ /\ \A n \in 1..i_ : whole[n] = h[n]
    BY <1>1, <1>2, SliceIs
  <2> HIDE DEF whole
  <2>2. whole[m] \in digits
    BY <1>3, <2>1, MadeIs
  <2>3. m \in 1..Len(s) - k
    BY <1>1, <1>2
  <2> QED
    BY <1>1, <2>1, <2>2, <2>3
<1>5. ASSUME j_ > i_
      PROVE  s[k + i_ + 1] = "." /\ \A m \in i_ + 2..j_ : s[k + m] \in digits
  <2>1. fraction = SubSeq(h, i_ + 1, j_)
    OBVIOUS
  <2> HIDE DEF fraction, whole, exponent
  <2>2. /\ fraction # <<>> /\ \A m \in 1..j_ - i_ : fraction[m] = h[i_ + m]
        /\ Tail(fraction) \in Seq(S) /\ Len(Tail(fraction)) = j_ - i_ - 1
        /\ \A m \in 1..j_ - i_ - 1 : Tail(fraction)[m] = h[i_ + 1 + m]
    <3>1. IsPart(S, h, i_, j_, fraction)
      BY <1>1, <1>2, <2>1, PartBehind
    <3> QED
      BY <1>5, <3>1 DEF IsPart
  <2>3. 1 \in 1..j_ - i_ /\ i_ + 1 \in 1..Len(s) - k /\ k + (i_ + 1) = k + i_ + 1
    BY <1>1, <1>2, <1>5
  <2>4. s[k + i_ + 1] = "."
    <3>1. fraction[1] = h[i_ + 1]
      BY <2>2, <2>3
    <3>2. h[i_ + 1] = s[k + (i_ + 1)]
      BY <1>1, <2>3
    <3> QED
      BY <1>3, <2>2, <2>3, <3>1, <3>2
  <2>5. ASSUME NEW m \in i_ + 2..j_ PROVE s[k + m] \in digits
    <3>1. m - i_ - 1 \in 1..j_ - i_ - 1 /\ i_ + 1 + (m - i_ - 1) = m /\ m \in 1..Len(s) - k
      BY <1>1, <1>2
    <3>2. Tail(fraction)[m - i_ - 1] \in digits
      BY <1>3, <2>2, <3>1, MadeIs
    <3>3. Tail(fraction)[m - i_ - 1] = h[i_ + 1 + (m - i_ - 1)]
      BY <2>2, <3>1
    <3> QED
      BY <1>1, <3>1, <3>2, <3>3
  <2> QED
    BY <2>4, <2>5
<1>6. LaidOut(s, k, i_, j_, digits)
  <2>1. j_ > i_ => s[k + i_ + 1] = "."
    BY <1>5
  <2>2. \A m \in i_ + 2..j_ : s[k + m] \in digits
    <3>1. CASE j_ > i_
      BY <1>5, <3>1
    <3>2. CASE ~(j_ > i_)
      <4>1. i_ + 2..j_ = {}
        BY <1>2, <3>2
      <4> QED
        BY <4>1
    <3> QED
      BY <3>1, <3>2
  <2> QED
    BY <1>2, <1>4, <2>1, <2>2 DEF LaidOut
<1>7. ASSUME k + j_ < Len(s) PROVE HasExponent(s, k + j_ + 1, letter)
  <2> DEFINE e == k + j_ + 1
             t == Tail(exponent)
             y == Unsigned(t)
             size == Len(h)
  <2>1. exponent = SubSeq(h, j_ + 1, size) /\ size = Len(s) - k /\ size \in j_..Len(h) /\ j_ < size
    BY <1>1, <1>2, <1>7
  <2> HIDE DEF fraction, whole, exponent, size, e
  <2>2. /\ exponent # <<>> /\ \A m \in 1..size - j_ : exponent[m] = h[j_ + m]
        /\ t \in Seq(S) /\ Len(t) = size - j_ - 1
        /\ \A m \in 1..size - j_ - 1 : t[m] = h[j_ + 1 + m]
    <3>1. j_ \in 0..Len(h)
      BY <1>2
    <3>2. IsPart(S, h, j_, size, exponent)
      BY <1>1, <2>1, <3>1, PartBehind
    <3> QED
      BY <2>1, <3>2 DEF IsPart
  <2>3. e \in 1..Len(s) /\ Len(t) = Len(s) - e /\ e \in Nat
    <3>1. Len(t) = size - j_ - 1
      BY <2>2
    <3>2. e = k + j_ + 1
      BY DEF e
    <3> HIDE DEF t
    <3> QED
      BY <1>1, <1>2, <1>7, <2>1, <3>1, <3>2
  <2>4. s[e] = letter
    <3>1. 1 \in 1..size - j_ /\ j_ + 1 \in 1..Len(s) - k /\ k + (j_ + 1) = e
      BY <1>1, <1>2, <2>1 DEF e
    <3>2. exponent[1] = h[j_ + 1] /\ h[j_ + 1] = s[k + (j_ + 1)]
      BY <1>1, <2>2, <3>1
    <3> QED
      BY <1>3, <2>2, <3>1, <3>2
  <2>5. \A m \in 1..Len(t) : t[m] = s[e + m]
    <3> TAKE m \in 1..Len(t)
    <3>1. m \in 1..size - j_ - 1 /\ j_ + 1 + m \in 1..Len(s) - k /\ k + (j_ + 1 + m) = e + m
      BY <1>1, <1>2, <2>1, <2>2 DEF e
    <3>2. t[m] = h[j_ + 1 + m] /\ h[j_ + 1 + m] = s[k + (j_ + 1 + m)]
      BY <1>1, <2>2, <3>1
    <3> QED
      BY <3>1, <3>2
  <2> HIDE DEF t
  <2>6. y # <<>> /\ Made(y, DecimalDigits)
    BY <1>3, <2>2 DEF t
  <2>7. y \in Seq(S)
    BY <2>2, UnsignedIs
  <2>8. PICK l : IsUnsigned(t, l, y)
    BY <2>2, UnsignedIs
  <2> HIDE DEF y
  <2>9. /\ l \in {0, 1} /\ (l = 1 <=> Len(t) >= 1 /\ t[1] \in Signs) /\ Len(y) = Len(t) - l
        /\ \A m \in 1..Len(y) : y[m] = t[l + m]
    BY <2>8 DEF IsUnsigned
  <2>10. Len(y) >= 1 /\ Len(y) \in Nat
    BY <2>6, <2>7, EmptySeq
  <2>11. Len(t) >= 1 /\ e + l < Len(s)
    BY <1>1, <2>3, <2>9, <2>10
  <2>12. l = 1 <=> s[e + 1] \in Signs
    <3>1. 1 \in 1..Len(t)
      BY <1>1, <2>3, <2>11
    <3>2. t[1] = s[e + 1]
      BY <2>5, <3>1
    <3> QED
      BY <2>9, <2>11, <3>2
  <2>13. ASSUME NEW m \in e + 1 + l..Len(s) PROVE s[m] \in DecimalDigits
    <3>1. m - e - l \in 1..Len(y) /\ l + (m - e - l) = m - e /\ m - e \in 1..Len(t) /\ e + (m - e) = m
      BY <1>1, <2>3, <2>9
    <3>2. y[m - e - l] \in DecimalDigits
      BY <2>6, <2>7, <3>1, MadeIs
    <3>3. y[m - e - l] = t[l + (m - e - l)] /\ t[m - e] = s[e + (m - e)]
      BY <2>5, <2>9, <3>1
    <3> QED
      BY <3>1, <3>2, <3>3
  <2>14. Exponent(s, e, letter, l)
    BY <2>3, <2>4, <2>9, <2>11, <2>12, <2>13 DEF Exponent
  <2> QED
    BY <2>14 DEF HasExponent, e
<1> QED
  BY <1>6, <1>7

-----------------------------------------------------------------------------
(* Hexadecimal numbers.                                                    *)

LEMMA Stays ==
  ASSUME NEW S, NEW s \in Seq(S), NEW f, Trace(f, s), NEW a \in 0..Len(s), NEW b \in a..Len(s),
         NEW w, f[a] = w, w \notin {"inf", "nan"},
         \A n \in a + 1..b : FloatStep(w, Before(s, n), s[n]) = w
  PROVE  \A n \in a..b : f[n] = w
<1> DEFINE good == {n \in 0..Len(s) : f[n] = w}
<1>1. a \in Nat /\ b \in Nat /\ Len(s) \in Nat
  BY LenProperties
<1>2. ASSUME NEW n \in a..b, n < b, n \in good PROVE n + 1 \in good
  <2>1. n + 1 \in 1..Len(s) /\ n + 1 - 1 = n /\ n + 1 \in a + 1..b /\ n + 1 \in 0..Len(s)
    BY <1>1, <1>2
  <2>2. f[n] = w
    BY <1>2
  <2>3. f[n + 1] = FloatStep(w, Before(s, n + 1), s[n + 1])
    BY <2>1, <2>2, PlainStep
  <2>4. f[n + 1] = w
    BY <2>1, <2>3
  <2> QED
    BY <2>1, <2>4
<1>3. a \in good
  OBVIOUS
<1> HIDE DEF good
<1>4. \A n \in a..b : n \in good
  BY <1>1, <1>2, <1>3, Upwards
<1> QED
  BY <1>4 DEF good

\* One more character.
LEMMA OneStep ==
  ASSUME NEW S, NEW s \in Seq(S), NEW f, Trace(f, s), NEW n \in 1..Len(s) - 1, NEW w, f[n] = w,
         w \notin {"inf", "nan"}
  PROVE  f[n + 1] = FloatStep(w, s[n], s[n + 1])
<1>1. n + 1 \in 1..Len(s) /\ n + 1 - 1 = n /\ n \in Nat /\ n >= 1
  BY LenProperties
<1>2. Before(s, n + 1) = s[n]
  BY <1>1, BeforeIs
<1> QED
  BY <1>1, <1>2, PlainStep

LEMMA HexMantissa ==
  ASSUME NEW S, NEW s \in Seq(S), NEW f, Trace(f, s), NEW k \in 1..Len(s), f[k] = "hexPre",
         NEW i_, NEW j_, LaidOut(s, k, i_, j_, HexNumerals)
  PROVE  k + j_ \in 1..Len(s) /\ f[k + j_] \in {"hexPre", "hexMeso"}
<1>1. /\ Len(s) \in Nat /\ k \in Nat /\ i_ \in 0..Len(s) - k /\ j_ \in i_..Len(s) - k
      /\ \A m \in 1..i_ : s[k + m] \in HexNumerals
      /\ j_ > i_ => s[k + i_ + 1] = "."
      /\ \A m \in i_ + 2..j_ : s[k + m] \in HexNumerals
  BY LenProperties DEF LaidOut
<1>2. k + i_ \in k..Len(s) /\ k \in 0..Len(s) /\ k + j_ \in 1..Len(s)
  BY <1>1
<1>3. \A n \in k..k + i_ : f[n] = "hexPre"
  <2> DEFINE b == k + i_
  <2>1. ASSUME NEW n \in k + 1..b PROVE FloatStep("hexPre", Before(s, n), s[n]) = "hexPre"
    <3>1. n - k \in 1..i_ /\ k + (n - k) = n
      BY <1>1
    <3>2. s[n] \in HexNumerals
      BY <1>1, <3>1
    <3> QED
      BY <3>2, HexSteps
  <2>2. b \in k..Len(s)
    BY <1>2
  <2> HIDE DEF b
  <2>3. "hexPre" \notin {"inf", "nan"}
    OBVIOUS
  <2>4. \A n \in k..b : f[n] = "hexPre"
    BY <1>2, <2>1, <2>2, <2>3, Stays
  <2> QED
    BY <2>4 DEF b
<1>4. f[k + i_] = "hexPre"
  <2>1. k + i_ \in k..k + i_
    BY <1>1
  <2> QED
    BY <1>3, <2>1
<1>5. CASE j_ = i_
  BY <1>2, <1>4, <1>5
<1>6. CASE j_ > i_
  <2> DEFINE a == k + i_ + 1
             b == k + j_
  <2>1. a \in 0..Len(s) /\ b \in a..Len(s) /\ k + i_ \in 1..Len(s) - 1 /\ a \in Nat
    BY <1>1, <1>6
  <2>2. f[a] = "hexMeso"
    <3>1. f[a] = FloatStep("hexPre", s[k + i_], s[a])
      BY <1>4, <2>1, OneStep
    <3>2. s[a] = "."
      BY <1>1, <1>6
    <3> QED
      BY <3>1, <3>2, HexSteps
  <2>3. ASSUME NEW n \in a + 1..b PROVE FloatStep("hexMeso", Before(s, n), s[n]) = "hexMeso"
    <3>1. n - k \in i_ + 2..j_ /\ k + (n - k) = n
      BY <1>1
    <3>2. s[n] \in HexNumerals
      BY <1>1, <3>1
    <3> QED
      BY <3>2, HexSteps
  <2> HIDE DEF a, b
  <2>4. "hexMeso" \notin {"inf", "nan"}
    OBVIOUS
  <2>5. \A n \in a..b : f[n] = "hexMeso"
    BY <2>1, <2>2, <2>3, <2>4, Stays
  <2>6. b \in a..b
    BY <2>1
  <2>7. f[b] = "hexMeso"
    BY <2>5, <2>6
  <2> QED
    BY <1>2, <2>7 DEF b
<1> QED
  BY <1>1, <1>5, <1>6

\* Behind the letter of an exponent, in a format that digits and a sign right there leave.
LEMMA ExponentStays ==
  ASSUME NEW S, NEW s \in Seq(S), NEW f, Trace(f, s), NEW e, NEW letter, NEW l, Exponent(s, e, letter, l),
         NEW w, w \notin {"inf", "nan"}, f[e] = w,
         \A p : \A c \in DecimalDigits : FloatStep(w, p, c) = w,
         l = 1 => \A c \in Signs : FloatStep(w, letter, c) = w
  PROVE  f[Len(s)] = w /\ s[Len(s)] \in DecimalDigits
<1>1. /\ Len(s) \in Nat /\ e \in 1..Len(s) /\ s[e] = letter
      /\ l \in {0, 1} /\ e + l < Len(s) /\ (l = 1 <=> s[e + 1] \in Signs)
      /\ \A m \in e + 1 + l..Len(s) : s[m] \in DecimalDigits
  BY LenProperties DEF Exponent
<1> DEFINE a == e + l
<1>2. f[a] = w
  <2>1. CASE l = 0
    <3>1. a = e
      BY <1>1, <2>1
    <3> QED
      BY <3>1
  <2>2. CASE l = 1
    <3>1. a = e + 1 /\ e \in 1..Len(s) - 1
      BY <1>1, <2>2
    <3>2. f[e + 1] = FloatStep(w, s[e], s[e + 1])
      BY <3>1, OneStep
    <3> QED
      BY <1>1, <2>2, <3>1, <3>2
  <2> QED
    BY <1>1, <2>1, <2>2
<1>3. a \in 0..Len(s) /\ Len(s) \in a..Len(s) /\ a + 1 = e + 1 + l /\ Len(s) \in e + 1 + l..Len(s)
  BY <1>1
<1> HIDE DEF a
<1>4. \A n \in a + 1..Len(s) : FloatStep(w, Before(s, n), s[n]) = w
  <2>1. \A n \in a + 1..Len(s) : s[n] \in DecimalDigits
    BY <1>1, <1>3
  <2> QED
    BY <2>1
<1>5. \A n \in a..Len(s) : f[n] = w
  BY <1>2, <1>3, <1>4, Stays
<1> QED
  BY <1>1, <1>3, <1>5

LEMMA HexIsRead ==
  ASSUME NEW S, NEW s \in Seq(S), IsHex(s)
  PROVE  IsFloat(s)
<1> DEFINE u == Unsigned(s)
           h == SubSeq(u, 3, Len(u))
<1>1. u \in Seq(S)
  BY UnsignedIs
<1>2. PICK l : IsUnsigned(s, l, u)
  BY UnsignedIs
<1>3. PICK f : FloatFormat(s) = f[Len(s)] /\ Trace(f, s)
  BY TraceIs
<1>4. IsPrefix(<<"0", "x">>, u) /\ IsNumeral(h, HexNumerals, "p")
  BY DEF IsHex
<1> HIDE DEF u
<1>5. /\ Len(s) \in Nat /\ l \in {0, 1} /\ l <= Len(s) /\ Len(u) = Len(s) - l
      /\ \A m \in 1..Len(u) : u[m] = s[l + m]
  BY <1>2, LenProperties DEF IsUnsigned
<1>6. Len(u) >= 2 /\ u[1] = "0" /\ u[2] = "x"
  <2> DEFINE zero == <<"0", "x">>
  <2>1. zero \in Seq({"0", "x"}) /\ Len(zero) = 2 /\ zero[1] = "0" /\ zero[2] = "x"
    OBVIOUS
  <2>2. StartsWith(u, zero)
    BY <1>4 DEF StartsWith
  <2> HIDE DEF zero
  <2>3. Offset(u, 0) = u /\ 0 \in 0..Len(u) /\ Len(u) \in Nat
    BY <1>1, SubSeqFull, LenProperties DEF Offset
  <2>4. At(u, 0, zero)
    BY <1>1, <2>1, <2>2, <2>3, StartsIs
  <2>5. 0 + 2 <= Len(u) /\ \A m \in 1..2 : u[0 + m] = zero[m]
    BY <2>1, <2>4 DEF At
  <2>6. 1 \in 1..2 /\ 2 \in 1..2 /\ 0 + 1 = 1 /\ 0 + 2 = 2
    OBVIOUS
  <2> QED
    BY <2>1, <2>3, <2>5, <2>6
<1> DEFINE k == l + 2
<1>7. k \in 1..Len(s) /\ k \in 0..Len(s) /\ l + 1 \in 1..Len(s) - 1 /\ l \in Nat /\ l \in 0..Len(s)
      /\ 2 \in 0..Len(s) - l /\ l + 1 \in 1..Len(s)
  BY <1>5, <1>6
<1>8. s[l + 1] = "0" /\ s[l + 2] = "x"
  <2>1. 1 \in 1..Len(u) /\ 2 \in 1..Len(u)
    BY <1>5, <1>6
  <2> QED
    BY <1>5, <1>6, <2>1
<1>9. f[k] = "hexPre"
  <2>1. f[l] = "undefined" /\ Before(s, l + 1) \in Signs \cup {"NUL"}
    BY <1>2, <1>3, BehindSign
  <2>2. Before(s, l + 1) \notin DecimalDigits
    BY <2>1, SignsAre
  <2>3. f[l + 1] = FloatStep("undefined", Before(s, l + 1), "0")
    <3>1. l + 1 - 1 = l
      BY <1>7
    <3> QED
      BY <1>3, <1>7, <1>8, <2>1, <3>1, PlainStep
  <2>4. f[l + 1] = "undefined"
    BY <2>2, <2>3, UndefinedSteps
  <2>5. f[l + 1 + 1] = FloatStep("undefined", s[l + 1], s[l + 1 + 1])
    BY <1>3, <1>7, <2>4, OneStep
  <2>6. l + 1 + 1 = k
    BY <1>7
  <2>7. s[k] = "x"
    BY <1>8
  <2>8. f[k] = FloatStep("undefined", "0", "x")
    BY <1>8, <2>5, <2>6, <2>7
  <2> QED
    BY <2>8, UndefinedSteps
<1>10. h = Offset(s, k)
  <2>1. u = Offset(s, l)
    BY <1>1, <1>2, OffsetUnsigned
  <2>2. Offset(Offset(s, l), 2) = Offset(s, l + 2)
    BY <1>7, OffsetTwice
  <2>3. h = Offset(u, 2)
    <3>1. 2 + 1 = 3
      OBVIOUS
    <3> QED
      BY <3>1 DEF Offset
  <2> HIDE DEF h
  <2> QED
    BY <2>1, <2>2, <2>3
<1> HIDE DEF h, k
<1>11. PICK i_ \in 0..Len(h) : \E j_ \in i_..Len(h) : NumeralAt(h, i_, j_, HexNumerals, "p")
  BY <1>4 DEF IsNumeral, NumeralAt
<1>12. PICK j_ \in i_..Len(h) : NumeralAt(h, i_, j_, HexNumerals, "p")
  BY <1>11
<1>13. LaidOut(s, k, i_, j_, HexNumerals) /\ (k + j_ < Len(s) => HasExponent(s, k + j_ + 1, "p"))
  BY <1>7, <1>10, <1>12, NumeralIsLaidOut
<1> DEFINE M == k + j_
<1>14. M \in 1..Len(s) /\ f[M] \in {"hexPre", "hexMeso"}
  BY <1>3, <1>7, <1>9, <1>13, HexMantissa
<1>15. M < Len(s) => HasExponent(s, M + 1, "p")
  BY <1>13
<1> HIDE DEF M
<1>16. CASE M = Len(s)
  BY <1>3, <1>14, <1>16 DEF IsFloat
<1>17. CASE M < Len(s)
  <2>1. PICK sg : Exponent(s, M + 1, "p", sg)
    BY <1>15, <1>17 DEF HasExponent
  <2>2. s[M + 1] = "p" /\ M \in 1..Len(s) - 1
    BY <1>5, <1>14, <1>17, <2>1 DEF Exponent
  <2>3. f[M + 1] = "hexPost"
    <3>1. CASE f[M] = "hexPre"
      <4>1. f[M + 1] = FloatStep("hexPre", s[M], s[M + 1])
        BY <1>3, <2>2, <3>1, OneStep
      <4> QED
        BY <2>2, <4>1, HexSteps
    <3>2. CASE f[M] = "hexMeso"
      <4>1. f[M + 1] = FloatStep("hexMeso", s[M], s[M + 1])
        BY <1>3, <2>2, <3>2, OneStep
      <4> QED
        BY <2>2, <4>1, HexSteps
    <3> QED
      BY <1>14, <3>1, <3>2
  <2>4. \A p : \A c \in DecimalDigits : FloatStep("hexPost", p, c) = "hexPost"
    BY HexSteps, SignsAre
  <2>5. \A c \in Signs : FloatStep("hexPost", "p", c) = "hexPost"
    BY HexSteps
  <2>6. "hexPost" \notin {"inf", "nan"}
    OBVIOUS
  <2>7. f[Len(s)] = "hexPost" /\ s[Len(s)] \in DecimalDigits
    BY <1>3, <2>1, <2>3, <2>4, <2>5, <2>6, ExponentStays
  <2>8. s[Len(s)] # "p"
    BY <2>7, SignsAre
  <2> QED
    BY <1>3, <2>7, <2>8 DEF IsFloat
<1> QED
  BY <1>5, <1>14, <1>16, <1>17

-----------------------------------------------------------------------------
(* Decimal numbers.                                                        *)

\* A 0 behind a digit, behind the first l characters and among the first n.
ZeroAmong(s, l, n) == \E m \in l + 2..n : s[m] = "0" /\ s[m - 1] \in DecimalDigits

\* What n characters of a number are taken for; whole of them are its digits.
Taken(s, l, whole, n, format) ==
  /\ format \in IF ZeroAmong(s, l, n) THEN {"decimalPre", "decimalMeso"} ELSE {"undefined"}
  /\ n <= l + whole => format # "decimalMeso"

LEMMA OneMore ==
  ASSUME NEW s, NEW l \in Nat, NEW n \in Nat
  PROVE  ZeroAmong(s, l, n + 1)
           <=> ZeroAmong(s, l, n) \/ (n > l /\ s[n + 1] = "0" /\ s[n] \in DecimalDigits)
<1>1. ASSUME ZeroAmong(s, l, n + 1)
      PROVE  ZeroAmong(s, l, n) \/ (n > l /\ s[n + 1] = "0" /\ s[n] \in DecimalDigits)
  <2>1. PICK m \in l + 2..n + 1 : s[m] = "0" /\ s[m - 1] \in DecimalDigits
    BY <1>1 DEF ZeroAmong
  <2>2. CASE m = n + 1
    <3>1. m - 1 = n /\ n > l
      BY <2>2
    <3> QED
      BY <2>1, <2>2, <3>1
  <2>3. CASE m # n + 1
    <3>1. m \in l + 2..n
      BY <2>3
    <3> QED
      BY <2>1, <3>1 DEF ZeroAmong
  <2> QED
    BY <2>2, <2>3
<1>2. ASSUME ZeroAmong(s, l, n) PROVE ZeroAmong(s, l, n + 1)
  <2>1. l + 2..n \subseteq l + 2..n + 1
    OBVIOUS
  <2> QED
    BY <1>2, <2>1 DEF ZeroAmong
<1>3. ASSUME n > l, s[n + 1] = "0", s[n] \in DecimalDigits PROVE ZeroAmong(s, l, n + 1)
  <2>1. n + 1 \in l + 2..n + 1 /\ n + 1 - 1 = n
    BY <1>3
  <2> QED
    BY <1>3, <2>1 DEF ZeroAmong
<1> QED
  BY <1>1, <1>2, <1>3

LEMMA DecimalMantissa ==
  ASSUME NEW S, NEW s \in Seq(S), NEW f, Trace(f, s), NEW l, NEW u, IsUnsigned(s, l, u),
         NEW i_, NEW j_, LaidOut(s, l, i_, j_, DecimalDigits)
  PROVE  Taken(s, l, i_, l + j_, f[l + j_])
<1>1. /\ Len(s) \in Nat /\ l \in {0, 1} /\ l \in Nat /\ l <= Len(s)
      /\ i_ \in 0..Len(s) - l /\ j_ \in i_..Len(s) - l
      /\ \A m \in 1..i_ : s[l + m] \in DecimalDigits
      /\ j_ > i_ => s[l + i_ + 1] = "."
      /\ \A m \in i_ + 2..j_ : s[l + m] \in DecimalDigits
  BY LenProperties DEF LaidOut, IsUnsigned
<1>2. i_ \in Nat /\ j_ \in Nat /\ i_ <= j_ /\ l + j_ \in l..Len(s)
  BY <1>1
<1> DEFINE M == l + j_
           good == {n \in l..M : Taken(s, l, i_, n, f[n])}
<1>3. l \in good
  <2>1. l \in l..M
    BY <1>1, <1>2
  <2>2. ~ZeroAmong(s, l, l)
    BY <1>1 DEF ZeroAmong
  <2>3. f[l] = "undefined"
    BY BehindSign
  <2>4. Taken(s, l, i_, l, f[l])
    BY <2>2, <2>3 DEF Taken
  <2> QED
    BY <2>1, <2>4
<1>4. ASSUME NEW n \in l..M, n < M, n \in good PROVE n + 1 \in good
  <2> DEFINE c == s[n + 1]
             p == Before(s, n + 1)
  <2>1. n \in Nat /\ n + 1 \in l..M /\ n + 1 \in 1..Len(s) /\ n + 1 - 1 = n
    BY <1>1, <1>2, <1>4
  <2>2. Taken(s, l, i_, n, f[n])
    BY <1>4
  <2>3. n # l + i_ => c \in DecimalDigits
    <3>1. CASE n < l + i_
      <4>1. n + 1 - l \in 1..i_ /\ l + (n + 1 - l) = n + 1
        BY <1>1, <1>2, <2>1, <3>1
      <4> QED
        BY <1>1, <4>1
    <3>2. CASE n > l + i_
      <4>1. n + 1 - l \in i_ + 2..j_ /\ l + (n + 1 - l) = n + 1
        BY <1>1, <1>2, <1>4, <2>1, <3>2
      <4> QED
        BY <1>1, <4>1
    <3> QED
      BY <1>1, <1>2, <2>1, <3>1, <3>2
  <2>4. n = l + i_ => c = "."
    BY <1>1, <1>2, <1>4
  <2>5. IF n = l THEN p \notin DecimalDigits ELSE p = s[n]
    <3>1. CASE n = l
      <4>1. p \in Signs \cup {"NUL"}
        BY <3>1, BehindSign
      <4> QED
        BY <3>1, <4>1, SignsAre
    <3>2. CASE n # l
      <4>1. n >= 1
        BY <1>1, <1>4, <2>1, <3>2
      <4> QED
        BY <2>1, <3>2, <4>1, BeforeIs
    <3> QED
      BY <3>1, <3>2
  <2>6. ZeroAmong(s, l, n + 1)
          <=> ZeroAmong(s, l, n) \/ (n > l /\ c = "0" /\ s[n] \in DecimalDigits)
    BY <1>1, <2>1, OneMore
  <2>7. n > l <=> n # l
    BY <1>1, <1>4, <2>1
  <2>8. f[n] \notin {"inf", "nan"}
    BY <2>2 DEF Taken
  <2>9. f[n + 1] = FloatStep(f[n], p, c)
    BY <2>1, <2>8, PlainStep
  <2>10. n + 1 <= l + i_ => n <= l + i_ /\ n # l + i_
    BY <1>1, <1>2, <2>1
  <2>11. n = l + i_ => n <= l + i_
    BY <1>1, <1>2, <2>1
  <2> HIDE DEF c, p
  <2>12. Taken(s, l, i_, n + 1, f[n + 1])
    <3>1. CASE ZeroAmong(s, l, n)
      <4>1. f[n] \in {"decimalPre", "decimalMeso"} /\ ZeroAmong(s, l, n + 1)
        BY <2>2, <2>6, <3>1 DEF Taken
      <4>2. CASE n = l + i_
        <5>1. f[n] = "decimalPre"
          BY <2>2, <2>11, <4>1, <4>2 DEF Taken
        <5>2. f[n + 1] = "decimalMeso"
          BY <2>4, <2>9, <4>2, <5>1, DecimalSteps
        <5> QED
          BY <2>10, <4>1, <4>2, <5>2 DEF Taken
      <4>3. CASE n # l + i_
        <5>1. f[n + 1] = f[n]
          <6>1. c \in DecimalDigits
            BY <2>3, <4>3
          <6>2. FloatStep("decimalPre", p, c) = "decimalPre" /\ FloatStep("decimalMeso", p, c) = "decimalMeso"
            BY <6>1, DecimalSteps
          <6> QED
            BY <2>9, <4>1, <6>2
        <5>2. n + 1 <= l + i_ => f[n + 1] # "decimalMeso"
          BY <2>2, <2>10, <5>1 DEF Taken
        <5> QED
          BY <4>1, <5>1, <5>2 DEF Taken
      <4> QED
        BY <4>2, <4>3
    <3>2. CASE ~ZeroAmong(s, l, n)
      <4>1. f[n] = "undefined"
        BY <2>2, <3>2 DEF Taken
      <4>2. CASE n = l + i_
        <5>1. c = "." /\ "." # "0"
          BY <2>4, <4>2
        <5>2. FloatStep("undefined", p, ".") = "undefined"
          BY UndefinedSteps
        <5>3. f[n + 1] = "undefined" /\ ~ZeroAmong(s, l, n + 1)
          BY <2>6, <2>9, <3>2, <4>1, <5>1, <5>2
        <5> QED
          BY <5>3 DEF Taken
      <4>3. CASE n # l + i_
        <5>1. c \in DecimalDigits
          BY <2>3, <4>3
        <5>2. FloatStep("undefined", p, c) = IF c = "0" /\ p \in DecimalDigits THEN "decimalPre" ELSE "undefined"
          BY <5>1, UndefinedSteps
        <5>3. ZeroAmong(s, l, n + 1) <=> c = "0" /\ p \in DecimalDigits
          BY <2>5, <2>6, <2>7, <3>2
        <5>4. f[n + 1] = IF ZeroAmong(s, l, n + 1) THEN "decimalPre" ELSE "undefined"
          BY <2>9, <4>1, <5>2, <5>3
        <5> QED
          BY <5>4 DEF Taken
      <4> QED
        BY <4>2, <4>3
    <3> QED
      BY <3>1, <3>2
  <2> QED
    BY <2>1, <2>12
<1>5. M \in Nat /\ M \in l..M
  BY <1>1, <1>2
<1> HIDE DEF good, M
<1>6. \A n \in l..M : n \in good
  BY <1>1, <1>3, <1>4, <1>5, Upwards
<1>7. M \in good
  BY <1>5, <1>6
<1> QED
  BY <1>7 DEF good, M

-----------------------------------------------------------------------------
(* Decimal numbers, whole.                                                 *)

\* Before the letter of the exponent: no such letter, and no sign but in front.
LEMMA NoLetterBefore ==
  ASSUME NEW S, NEW s \in Seq(S), NEW l, NEW u, IsUnsigned(s, l, u),
         NEW i_, NEW j_, LaidOut(s, l, i_, j_, DecimalDigits)
  PROVE  \A m \in 1..l + j_ : s[m] # "e" /\ (m > l => s[m] \notin Signs)
<1>1. /\ Len(s) \in Nat /\ l \in {0, 1} /\ l <= Len(s) /\ (l = 1 <=> Len(s) >= 1 /\ s[1] \in Signs)
      /\ i_ \in 0..Len(s) - l /\ j_ \in i_..Len(s) - l
      /\ \A m \in 1..i_ : s[l + m] \in DecimalDigits
      /\ j_ > i_ => s[l + i_ + 1] = "."
      /\ \A m \in i_ + 2..j_ : s[l + m] \in DecimalDigits
  BY LenProperties DEF LaidOut, IsUnsigned
<1>2. ASSUME NEW m \in 1..l + j_ PROVE s[m] # "e" /\ (m > l => s[m] \notin Signs)
  <2>1. CASE m <= l
    <3>1. m = 1 /\ l = 1
      BY <1>1, <2>1
    <3>2. s[m] \in Signs
      BY <1>1, <3>1
    <3> QED
      BY <1>1, <2>1, <3>2, SignsAre
  <2>2. CASE m > l /\ m = l + i_ + 1
    <3>1. s[m] = "."
      BY <1>1, <2>2
    <3> QED
      BY <3>1, SignsAre
  <2>3. CASE m > l /\ m # l + i_ + 1
    <3>1. m - l \in 1..i_ \/ m - l \in i_ + 2..j_
      BY <1>1, <2>3
    <3>2. l + (m - l) = m
      BY <1>1
    <3>3. s[m] \in DecimalDigits
      BY <1>1, <3>1, <3>2
    <3> QED
      BY <3>3, SignsAre
  <2> QED
    BY <1>1, <2>1, <2>2, <2>3
<1> QED
  BY <1>2

LEMMA SignedIs ==
  ASSUME NEW S, NEW s \in Seq(S), NEW M \in 1..Len(s), NEW l \in {0, 1},
         \A m \in 1..M : s[m] # "e" /\ (m > l => s[m] \notin Signs),
         NEW sg, Exponent(s, M + 1, "e", sg)
  PROVE  SignedExponent(s) <=> sg = 1
<1>1. /\ Len(s) \in Nat /\ M \in Nat /\ M >= 1 /\ M + 1 <= Len(s) /\ s[M + 1] = "e"
      /\ sg \in {0, 1} /\ M + 1 + sg < Len(s) /\ (sg = 1 <=> s[M + 1 + 1] \in Signs)
      /\ \A m \in M + 1 + 1 + sg..Len(s) : s[m] \in DecimalDigits
  BY LenProperties DEF Exponent
<1>2. ASSUME sg = 1 PROVE SignedExponent(s)
  <2>1. M + 2 \in 2..Len(s) /\ M + 2 - 1 = M + 1 /\ M + 1 + 1 = M + 2
    BY <1>1, <1>2
  <2> QED
    BY <1>1, <1>2, <2>1 DEF SignedExponent
<1>3. ASSUME SignedExponent(s) PROVE sg = 1
  <2>1. PICK n \in 2..Len(s) : s[n] \in Signs /\ s[n - 1] = "e"
    BY <1>3 DEF SignedExponent
  <2>2. n \in Nat /\ n - 1 > M
    <3>1. n - 1 \in 1..M => s[n - 1] # "e"
      OBVIOUS
    <3> QED
      BY <1>1, <2>1, <3>1
  <2>3. CASE sg # 1
    <3>1. n \in M + 1 + 1 + sg..Len(s)
      BY <1>1, <2>2, <2>3
    <3>2. s[n] \in DecimalDigits
      BY <1>1, <3>1
    <3> QED
      BY <2>1, <3>2, SignsAre
  <2> QED
    BY <2>3
<1> QED
  BY <1>2, <1>3

LEMMA ZeroBehindIs ==
  ASSUME NEW S, NEW s \in Seq(S), NEW l, NEW u, IsUnsigned(s, l, u), NEW M \in 1..Len(s), l <= M,
         \A m \in 1..M : s[m] # "e",
         M + 1 <= Len(s), s[M + 1] = "e"
  PROVE  ZeroBehindDigit(s) <=> ZeroAmong(s, l, M)
<1>1. Len(s) \in Nat /\ l \in {0, 1} /\ M \in Nat /\ (l = 1 => s[1] \in Signs)
  BY LenProperties DEF IsUnsigned
<1>2. ASSUME ZeroBehindDigit(s) PROVE ZeroAmong(s, l, M)
  <2>1. PICK n \in 2..Len(s) : s[n] = "0" /\ s[n - 1] \in DecimalDigits /\ \A m \in 1..n : s[m] # "e"
    BY <1>2 DEF ZeroBehindDigit
  <2>2. n <= M
    <3>1. M + 1 \notin 1..n
      BY <2>1
    <3> QED
      BY <1>1, <3>1
  <2>3. n >= l + 2
    <3>1. CASE l = 1 /\ n = 2
      <4>1. s[1] \in DecimalDigits /\ s[1] \in Signs
        <5>1. n - 1 = 1
          BY <3>1
        <5> QED
          BY <1>1, <2>1, <3>1, <5>1
      <4> QED
        BY <4>1, SignsAre
    <3> QED
      BY <1>1, <3>1
  <2>4. n \in l + 2..M
    BY <1>1, <2>2, <2>3
  <2> QED
    BY <2>1, <2>4 DEF ZeroAmong
<1>3. ASSUME ZeroAmong(s, l, M) PROVE ZeroBehindDigit(s)
  <2>1. PICK n \in l + 2..M : s[n] = "0" /\ s[n - 1] \in DecimalDigits
    BY <1>3 DEF ZeroAmong
  <2>2. n \in 2..Len(s) /\ 1..n \subseteq 1..M
    BY <1>1
  <2>3. \A m \in 1..n : s[m] # "e"
    BY <2>2
  <2> QED
    BY <2>1, <2>2, <2>3 DEF ZeroBehindDigit
<1> QED
  BY <1>2, <1>3

\* Digits behind the letter of an exponent that has no sign.
LEMMA PlainExponent ==
  ASSUME NEW S, NEW s \in Seq(S), NEW f, Trace(f, s), NEW e, NEW letter, Exponent(s, e, letter, 0),
         f[e] \in {"undefined", "decimalPre", "decimalPost"}
  PROVE  f[Len(s)] \in {"undefined", "decimalPre", "decimalPost"}
<1>1. /\ Len(s) \in Nat /\ e \in 1..Len(s) /\ e \in Nat /\ e >= 1
      /\ \A m \in e + 1..Len(s) : s[m] \in DecimalDigits
  BY LenProperties DEF Exponent
<1> DEFINE good == {n \in 0..Len(s) : f[n] \in {"undefined", "decimalPre", "decimalPost"}}
           size == Len(s)
<1>2. ASSUME NEW n \in e..size, n < size, n \in good PROVE n + 1 \in good
  <2>1. n \in 1..Len(s) - 1 /\ n + 1 \in e + 1..Len(s) /\ n + 1 \in 0..Len(s)
    BY <1>1, <1>2
  <2>2. f[n] \in {"undefined", "decimalPre", "decimalPost"}
    BY <1>2
  <2>3. f[n] \notin {"inf", "nan"}
    BY <2>2
  <2>4. f[n + 1] = FloatStep(f[n], s[n], s[n + 1])
    BY <2>1, <2>3, OneStep
  <2> DEFINE c == s[n + 1]
             p == s[n]
  <2>5. c \in DecimalDigits
    BY <1>1, <2>1
  <2>6. f[n + 1] = FloatStep(f[n], p, c)
    BY <2>4
  <2> HIDE DEF c, p
  <2>7. FloatStep("undefined", p, c) \in {"undefined", "decimalPre"}
    BY <2>5, UndefinedSteps
  <2>8. FloatStep("decimalPre", p, c) = "decimalPre" /\ FloatStep("decimalPost", p, c) = "decimalPost"
    BY <2>5, DecimalSteps
  <2>9. f[n + 1] \in {"undefined", "decimalPre", "decimalPost"}
    BY <2>2, <2>6, <2>7, <2>8
  <2> QED
    BY <2>1, <2>9
<1>3. e \in good
  BY <1>1
<1>4. size \in Nat /\ size \in e..size
  BY <1>1
<1> HIDE DEF good, size
<1>5. \A n \in e..size : n \in good
  BY <1>1, <1>2, <1>3, <1>4, Upwards
<1>6. size \in good
  BY <1>4, <1>5
<1> QED
  BY <1>6 DEF good, size

LEMMA DecimalIsRead ==
  ASSUME NEW S, NEW s \in Seq(S), IsDecimal(s)
  PROVE  IsFloat(s) <=> (SignedExponent(s) => ZeroBehindDigit(s))
<1> DEFINE u == Unsigned(s)
<1>1. u \in Seq(S) /\ IsNumeral(u, DecimalDigits, "e")
  BY UnsignedIs DEF IsDecimal
<1>2. PICK l : IsUnsigned(s, l, u)
  BY UnsignedIs
<1>3. PICK f : FloatFormat(s) = f[Len(s)] /\ Trace(f, s)
  BY TraceIs
<1> HIDE DEF u
<1>4. PICK i_ \in 0..Len(u) : \E j_ \in i_..Len(u) : (i_ > 0 \/ j_ > 1) /\ NumeralAt(u, i_, j_, DecimalDigits, "e")
  BY <1>1 DEF IsNumeral, NumeralAt
<1>5. PICK j_ \in i_..Len(u) : (i_ > 0 \/ j_ > 1) /\ NumeralAt(u, i_, j_, DecimalDigits, "e")
  BY <1>4
<1>6. Len(s) \in Nat /\ l \in {0, 1} /\ l <= Len(s) /\ Len(u) = Len(s) - l /\ l \in 0..Len(s)
  BY <1>2, LenProperties DEF IsUnsigned
<1>7. LaidOut(s, l, i_, j_, DecimalDigits) /\ (l + j_ < Len(s) => HasExponent(s, l + j_ + 1, "e"))
  <2>1. u = Offset(s, l)
    BY <1>1, <1>2, OffsetUnsigned
  <2> QED
    BY <1>5, <1>6, <2>1, NumeralIsLaidOut
<1> DEFINE M == l + j_
           zero == ZeroAmong(s, l, M)
<1>8. M \in 1..Len(s) /\ l <= M
  BY <1>5, <1>6
<1>9. f[M] \in IF zero THEN {"decimalPre", "decimalMeso"} ELSE {"undefined"}
  <2>1. Taken(s, l, i_, l + j_, f[l + j_])
    BY <1>2, <1>3, <1>7, DecimalMantissa
  <2> QED
    BY <2>1 DEF Taken
<1>10. \A m \in 1..M : s[m] # "e" /\ (m > l => s[m] \notin Signs)
  BY <1>2, <1>7, NoLetterBefore
<1>11. M < Len(s) => HasExponent(s, M + 1, "e")
  BY <1>7
<1> HIDE DEF M, zero
<1>12. CASE M = Len(s)
  <2>1. IsFloat(s)
    BY <1>3, <1>9, <1>12 DEF IsFloat
  <2>2. ~SignedExponent(s)
    <3>1. ASSUME NEW n \in 2..Len(s), s[n - 1] = "e" PROVE FALSE
      <4>1. n - 1 \in 1..M
        BY <1>6, <1>12
      <4> QED
        BY <1>10, <3>1, <4>1
    <3> QED
      BY <3>1 DEF SignedExponent
  <2> QED
    BY <2>1, <2>2
<1>13. CASE M < Len(s)
  <2>1. PICK sg : Exponent(s, M + 1, "e", sg)
    BY <1>11, <1>13 DEF HasExponent
  <2>2. /\ s[M + 1] = "e" /\ M \in 1..Len(s) - 1 /\ M + 1 <= Len(s) /\ sg \in {0, 1}
        /\ M + 1 + sg < Len(s) /\ M \in Nat
    BY <1>6, <1>8, <1>13, <2>1 DEF Exponent
  <2>3. SignedExponent(s) <=> sg = 1
    BY <1>6, <1>8, <1>10, <2>1, SignedIs
  <2>4. ZeroBehindDigit(s) <=> zero
    BY <1>2, <1>8, <1>10, <2>2, ZeroBehindIs DEF zero
  <2>5. f[M + 1] = IF zero THEN "decimalPost" ELSE "undefined"
    <3>1. f[M] \notin {"inf", "nan"}
      BY <1>9
    <3>2. f[M + 1] = FloatStep(f[M], s[M], s[M + 1])
      BY <1>3, <2>2, <3>1, OneStep
    <3>3. f[M + 1] = FloatStep(f[M], s[M], "e")
      BY <2>2, <3>2
    <3>4. \A p : FloatStep("undefined", p, "e") = "undefined"
      BY UndefinedSteps
    <3>5. \A p : FloatStep("decimalPre", p, "e") = "decimalPost" /\ FloatStep("decimalMeso", p, "e") = "decimalPost"
      BY DecimalSteps
    <3> QED
      BY <1>9, <3>3, <3>4, <3>5
  <2>6. CASE sg = 0
    <3>1. Exponent(s, M + 1, "e", 0)
      BY <2>1, <2>6
    <3>2. f[M + 1] \in {"undefined", "decimalPre", "decimalPost"}
      BY <2>5
    <3>3. f[Len(s)] \in {"undefined", "decimalPre", "decimalPost"}
      BY <1>3, <3>1, <3>2, PlainExponent
    <3>4. IsFloat(s)
      BY <1>3, <3>3 DEF IsFloat
    <3> QED
      BY <2>3, <2>6, <3>4
  <2>7. CASE sg = 1 /\ zero
    <3>1. f[M + 1] = "decimalPost" /\ "decimalPost" \notin {"inf", "nan"}
      BY <2>5, <2>7
    <3>2. \A p : \A c \in DecimalDigits : FloatStep("decimalPost", p, c) = "decimalPost"
      BY DecimalSteps
    <3>3. \A c \in Signs : FloatStep("decimalPost", "e", c) = "decimalPost"
      BY DecimalSteps
    <3>4. f[Len(s)] = "decimalPost"
      BY <1>3, <2>1, <3>1, <3>2, <3>3, ExponentStays
    <3>5. IsFloat(s)
      BY <1>3, <3>4 DEF IsFloat
    <3> QED
      BY <2>4, <2>7, <3>5
  <2>8. CASE sg = 1 /\ ~zero
    <3> DEFINE a == M + 2
    <3>1. f[a] = "refused"
      <4>1. f[M + 1] = "undefined" /\ M + 1 \in 1..Len(s) - 1 /\ M + 1 + 1 = a
        BY <1>6, <2>2, <2>5, <2>8
      <4>2. "undefined" \notin {"inf", "nan"}
        OBVIOUS
      <4>3. f[M + 1 + 1] = FloatStep("undefined", s[M + 1], s[M + 1 + 1])
        BY <1>3, <4>1, <4>2, OneStep
      <4>4. s[M + 1 + 1] \in Signs
        BY <2>1, <2>8 DEF Exponent
      <4>5. f[M + 1 + 1] = FloatStep("undefined", "e", s[M + 1 + 1])
        BY <2>2, <4>3
      <4>6. FloatStep("undefined", "e", s[M + 1 + 1]) = "refused"
        <5>1. "e" # "NUL"
          OBVIOUS
        <5> QED
          BY <4>4, <5>1, UndefinedSteps
      <4> QED
        BY <4>1, <4>5, <4>6
    <3>2. a \in 0..Len(s) /\ Len(s) \in a..Len(s)
      BY <1>6, <2>2, <2>8
    <3> HIDE DEF a
    <3>3. \A n \in a + 1..Len(s) : FloatStep("refused", Before(s, n), s[n]) = "refused"
      BY DecimalSteps
    <3>4. "refused" \notin {"inf", "nan"}
      OBVIOUS
    <3>5. \A n \in a..Len(s) : f[n] = "refused"
      BY <1>3, <3>1, <3>2, <3>3, <3>4, Stays
    <3>6. f[Len(s)] = "refused"
      BY <3>2, <3>5
    <3>7. ~IsFloat(s)
      BY <1>3, <3>6 DEF IsFloat
    <3> QED
      BY <2>3, <2>4, <2>8, <3>7
  <2> QED
    BY <2>2, <2>6, <2>7, <2>8
<1> QED
  BY <1>6, <1>8, <1>12, <1>13

\* Digits, with a sign in front of them or without.
LEMMA IntIsRead ==
  ASSUME NEW S, NEW s \in Seq(S)
  PROVE  IsInt(s) <=> Made(Unsigned(s), DecimalDigits)
<1> DEFINE u == Unsigned(s)
<1>1. u \in Seq(S)
  BY UnsignedIs
<1>2. PICK l : IsUnsigned(s, l, u)
  BY UnsignedIs
<1>3. Made(u, DecimalDigits) <=> \A m \in 1..Len(u) : u[m] \in DecimalDigits
  BY <1>1, MadeIs
<1> HIDE DEF u
<1>4. /\ Len(s) \in Nat /\ l \in {0, 1} /\ l <= Len(s) /\ (l = 1 <=> Len(s) >= 1 /\ s[1] \in Signs)
      /\ Len(u) = Len(s) - l /\ \A m \in 1..Len(u) : u[m] = s[l + m]
  BY <1>2, LenProperties DEF IsUnsigned
<1>5. ASSUME IsInt(s), NEW m \in 1..Len(u) PROVE u[m] \in DecimalDigits
  <2>1. l + m \in 1..Len(s) /\ u[m] = s[l + m]
    BY <1>4
  <2>2. s[l + m] \in DecimalDigits \/ (l + m = 1 /\ s[l + m] \in Signs)
    BY <1>5, <2>1 DEF IsInt
  <2>3. ~(l + m = 1 /\ s[l + m] \in Signs)
    <3>1. ASSUME l + m = 1 PROVE l = 0 /\ Len(s) >= 1
      BY <1>4, <3>1
    <3>2. ASSUME l + m = 1, s[l + m] \in Signs PROVE FALSE
      <4>1. s[1] \in Signs
        BY <3>2
      <4> QED
        BY <1>4, <3>1, <3>2, <4>1
    <3> QED
      BY <3>2
  <2> QED
    BY <2>1, <2>2, <2>3
<1>6. ASSUME \A m \in 1..Len(u) : u[m] \in DecimalDigits, NEW n \in 1..Len(s)
      PROVE  s[n] \in DecimalDigits \/ (n = 1 /\ s[n] \in Signs)
  <2>1. CASE n <= l
    <3>1. n = 1 /\ l = 1
      BY <1>4, <2>1
    <3> QED
      BY <1>4, <3>1
  <2>2. CASE n > l
    <3>1. n - l \in 1..Len(u) /\ l + (n - l) = n
      BY <1>4, <2>2
    <3> QED
      BY <1>4, <1>6, <3>1
  <2> QED
    BY <1>4, <2>1, <2>2
<1>7. IsInt(s) <=> Made(u, DecimalDigits)
  BY <1>3, <1>5, <1>6 DEF IsInt
<1> QED
  BY <1>7 DEF u

\* vstr_is_int is true of digits with a sign in front or none, and vstr_is_float of every
\* number strtod takes, but for decimal ones with a sign in the exponent, which it takes
\* only where a 0 is behind another digit: for every text.
THEOREM NumbersAreRead == Spec => []NumbersRead
<1>1. CutInv => NumbersRead
  <2> SUFFICES ASSUME CutInv
      PROVE  /\ IsInt(text) <=> Made(Unsigned(text), DecimalDigits)
             /\ IsHex(text) \/ IsInf(text) \/ IsNan(text) => IsFloat(text)
             /\ IsDecimal(text) => (IsFloat(text) <=> (SignedExponent(text) => ZeroBehindDigit(text)))
    BY DEF NumbersRead
  <2>1. text \in Seq(Chars)
    BY DEF CutInv, WellFormed, TypeOK
  <2>2. IsInf(text) \/ IsNan(text) => IsFloat(text)
    BY <2>1, WordsAreRead DEF IsFloat
  <2> QED
    BY <2>1, <2>2, IntIsRead, HexIsRead, DecimalIsRead
<1> QED
  BY <1>1, CutInvariance, PTL

=============================================================================
