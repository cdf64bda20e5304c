----------------------------- MODULE DstrProofs -----------------------------
(***************************************************************************)
(* Proofs about Dstr for every set of characters, every set of strings to  *)
(* append, NULs in them or not, and every bound on the length.  That a     *)
(* builder never writes past its block holds of every program; that it     *)
(* holds a C string, and the one it should, of the proper ones, which make *)
(* no builders of views with no NUL (the run of Dstr_view shows why),      *)
(* whose files can be read, and which neither take a C string of an empty  *)
(* builder nor append one.                                                 *)
(***************************************************************************)
EXTENDS Dstr, TLAPS, SequenceTheorems, WellFoundedInduction

\* The characters of texts.
Alphabet == IF nuls THEN Chars \cup {Nul} ELSE Chars

\* A sequence of characters of the text with a NUL behind them.
EndsInNul(s) ==
  /\ s \in Seq(Stored) /\ Len(s) > 0
  /\ s[Len(s)] = Nul
  /\ \A n \in 1..(Len(s) - 1) : s[n] \in Alphabet

Closed ==
  length > 0 => /\ items[length - 1] = Nul
                /\ \A p \in 0..(length - 2) : items[p] \in Alphabet

ViewClosed == view # <<>> => EndsInNul(view)
OutClosed == out # Untaken => EndsInNul(out)

IInv == TypeOK /\ Closed /\ ViewClosed /\ OutClosed

-----------------------------------------------------------------------------
(* A builder stays inside its block.                                       *)

LEMMA MaxCapacityIsNat == MaxCapacity \in Nat \ {0}
BY SMT DEF MaxCapacity

LEMMA PowersFit == \A p \in PowersOfTwo : p \in Int /\ 1 <= p /\ p <= MaxCapacity
<1>1. \A p \in SmallPowers : p \in Int /\ 1 <= p /\ p <= MaxCapacity
  BY SMT DEF SmallPowers, MaxCapacity
<1>2. \A p \in LargePowers : p \in Int /\ 1 <= p /\ p <= MaxCapacity
  BY SMT DEF LargePowers, MaxCapacity
<1> QED
  BY <1>1, <1>2 DEF PowersOfTwo

\* Between a capacity and its double there is a power of two.
LEMMA PowerExists ==
  ASSUME NEW c \in Int, 1 <= c, c <= MaxCapacity
  PROVE  \E p \in PowersOfTwo : c <= p /\ p < 2 * c
<1>1. c <= 16384 => \E p \in SmallPowers : c <= p /\ p < 2 * c
  BY SMT DEF SmallPowers, MaxCapacity
<1>2. c > 16384 => \E p \in LargePowers : c <= p /\ p < 2 * c
  BY SMT DEF LargePowers, MaxCapacity
<1> QED
  BY <1>1, <1>2 DEF PowersOfTwo

\* Growing to hold c entries gives room for c entries, in a capacity that fits an int.
LEMMA RoundUpBounds ==
  ASSUME NEW c \in 1..MaxCapacity
  PROVE  RoundUp(c) \in 1..MaxCapacity /\ c <= RoundUp(c)
BY PowerExists, PowersFit, MaxCapacityIsNat DEF RoundUp

LEMMA GrownBounds ==
  ASSUME TypeOK, NEW n \in 1..MaxLength
  PROVE  Grown(n) \in 0..MaxCapacity /\ n <= Grown(n) /\ capacity <= Grown(n)
<1>1. n \in 1..MaxCapacity
  BY ConstantsAssumption, MaxCapacityIsNat
<1>2. RoundUp(n) \in 1..MaxCapacity /\ n <= RoundUp(n)
  BY <1>1, RoundUpBounds
<1>3. QED
  BY <1>1, <1>2, MaxCapacityIsNat DEF Grown, TypeOK

LEMMA StartType ==
  ASSUME TypeOK
  PROVE  Start \in Nat /\ Start <= length /\ (length > 0 => Start = length - 1)
BY ConstantsAssumption, MaxCapacityIsNat DEF TypeOK, Start

LEMMA HeldType ==
  ASSUME TypeOK, NEW p \in Nat
  PROVE  Held(p) \in Stored
<1>1. CASE p < capacity
  <2>1. p \in Places
    BY <1>1, MaxCapacityIsNat DEF Places, TypeOK
  <2>2. QED
    BY <1>1, <2>1 DEF Held, TypeOK
<1>2. CASE ~(p < capacity)
  BY <1>2 DEF Held, Stored
<1>3. QED
  BY <1>1, <1>2

LEMMA SeqOfFunction ==
  ASSUME NEW S, NEW n \in Nat, NEW s \in [1..n -> S]
  PROVE  s \in Seq(S)
OBVIOUS

LEMMA StoredTexts ==
  /\ Chars \subseteq Stored /\ Nul \in Stored
  /\ \A s \in Pieces \cup Views : s \in Seq(Stored)
<1>1. Chars \subseteq Stored /\ Chars \cup {Nul} \subseteq Stored
  BY DEF Stored
<1>2. \A s \in Pieces : s \in Seq(Stored)
  BY <1>1, ConstantsAssumption, SeqMonotonic
<1>3. \A s \in Views : s \in Seq(Stored)
  BY <1>1, ConstantsAssumption, SeqMonotonic
<1> QED
  BY <1>1, <1>2, <1>3

LEMMA PieceType ==
  ASSUME TypeOK, NEW s \in Appended
  PROVE  /\ s \in Seq(Stored) /\ Len(s) \in Nat
         /\ \A n \in 1..Len(s) : s[n] \in Stored
<1>1. s \in Seq(Stored)
  BY StoredTexts DEF Appended, Strings, TypeOK
<1> QED
  BY <1>1, LenProperties

LEMMA ReservedBounds ==
  ASSUME TypeOK, NEW n \in Nat, Reserved(n) <= MaxLength
  PROVE  /\ Reserved(n) \in 1..MaxLength
         /\ Reserved(n) = Start + n + 1
         /\ Grown(Reserved(n)) \in 0..MaxCapacity
         /\ Reserved(n) <= Grown(Reserved(n))
<1>1. Reserved(n) \in 1..MaxLength /\ Reserved(n) = Start + n + 1
  BY StartType, ConstantsAssumption, MaxCapacityIsNat DEF Reserved
<1>2. QED
  BY <1>1, GrownBounds

LEMMA InitType == ASSUME Init PROVE TypeOK
BY ConstantsAssumption, MaxCapacityIsNat DEF Init, TypeOK, Places, Stored

LEMMA AppendBufType ==
  ASSUME TypeOK, NEW s \in Appended, AppendBuf(s)
  PROVE  TypeOK'
<1> DEFINE r == Reserved(Len(s))
<1>1. /\ r \in 1..MaxLength /\ r = Start + Len(s) + 1
      /\ Grown(r) \in 0..MaxCapacity /\ r <= Grown(r)
  BY PieceType, ReservedBounds DEF AppendBuf
<1>2. capacity' = Grown(r) /\ length' = r /\ UNCHANGED <<program, view, out, state>>
  BY DEF AppendBuf
<1>3. items' \in [0..(Grown(r) - 1) -> Stored]
  <2>1. ASSUME NEW p \in 0..(Grown(r) - 1)
        PROVE  (IF p \in Start..(Start + Len(s) - 1) THEN s[p - Start + 1]
                ELSE IF p = Start + Len(s) THEN Nul ELSE Held(p)) \in Stored
    <3>1. CASE p \in Start..(Start + Len(s) - 1)
      <4>1. p - Start + 1 \in 1..Len(s)
        BY <3>1, StartType, PieceType
      <4>2. QED
        BY <3>1, <4>1, PieceType
    <3>2. CASE p = Start + Len(s)
      BY <3>2, StartType, PieceType DEF Stored
    <3>3. CASE p \notin Start..(Start + Len(s) - 1) /\ p # Start + Len(s)
      <4>1. p \in Nat
        BY <1>1, MaxCapacityIsNat
      <4>2. QED
        BY <3>3, <4>1, HeldType
    <3>4. QED
      BY <3>1, <3>2, <3>3
  <2>2. QED
    BY <2>1 DEF AppendBuf
<1>4. QED
  BY <1>1, <1>2, <1>3, ConstantsAssumption, MaxCapacityIsNat DEF TypeOK, program, Places

LEMMA AppendFileCutType ==
  ASSUME TypeOK, NEW s \in Appended, NEW got \in 0..(Len(s) - 1), AppendFileCut(s, got)
  PROVE  TypeOK'
<1> DEFINE r == Reserved(Len(s))
<1>1. /\ r \in 1..MaxLength /\ r = Start + Len(s) + 1
      /\ Grown(r) \in 0..MaxCapacity /\ r <= Grown(r)
  BY PieceType, ReservedBounds DEF AppendFileCut
<1>2. PICK error \in BOOLEAN :
        /\ length' = IF error THEN Start + 1 ELSE r
        /\ items' = [p \in 0..(Grown(r) - 1) |->
                       IF p \in Start..(Start + got - 1) THEN s[p - Start + 1]
                       ELSE IF ~error /\ p = Start + Len(s) THEN Nul ELSE Held(p)]
  BY DEF AppendFileCut
<1>3. capacity' = Grown(r) /\ UNCHANGED <<program, view, out, state>>
  BY DEF AppendFileCut
<1>4. length' \in 0..MaxLength /\ length' <= Grown(r)
  BY <1>1, <1>2, StartType, PieceType, ConstantsAssumption, MaxCapacityIsNat
<1>5. items' \in [0..(Grown(r) - 1) -> Stored]
  <2>1. ASSUME NEW p \in 0..(Grown(r) - 1)
        PROVE  (IF p \in Start..(Start + got - 1) THEN s[p - Start + 1]
                ELSE IF ~error /\ p = Start + Len(s) THEN Nul ELSE Held(p)) \in Stored
    <3>1. CASE p \in Start..(Start + got - 1)
      <4>1. p - Start + 1 \in 1..Len(s)
        BY <3>1, StartType, PieceType
      <4>2. QED
        BY <3>1, <4>1, PieceType
    <3>2. CASE p \notin Start..(Start + got - 1)
      <4>1. p \in Nat
        BY <1>1, MaxCapacityIsNat
      <4>2. QED
        BY <3>2, <4>1, HeldType DEF Stored
    <3>3. QED
      BY <3>1, <3>2
  <2>2. QED
    BY <1>2, <2>1
<1>6. QED
  BY <1>1, <1>3, <1>4, <1>5, ConstantsAssumption, MaxCapacityIsNat DEF TypeOK, program, Places

LEMMA FreshBuilderType ==
  ASSUME TypeOK, NEW s \in Seq(Stored), FreshBuilder(s, Len(s))
  PROVE  TypeOK'
<1> DEFINE c == IF Len(s) = 0 THEN 0 ELSE RoundUp(Len(s))
<1>1. Len(s) \in 0..MaxLength /\ Len(s) \in 0..MaxCapacity
  BY ConstantsAssumption, MaxCapacityIsNat DEF FreshBuilder
<1>2. c \in 0..MaxCapacity /\ Len(s) <= c
  <2>1. CASE Len(s) = 0
    BY <2>1, MaxCapacityIsNat
  <2>2. CASE Len(s) # 0
    <3>1. Len(s) \in 1..MaxCapacity
      BY <1>1, <2>2
    <3>2. QED
      BY <2>2, <3>1, RoundUpBounds, MaxCapacityIsNat
  <2>3. QED
    BY <2>1, <2>2
<1>3. capacity' = c /\ length' = Len(s) /\ UNCHANGED <<program, view, out, state>>
  BY DEF FreshBuilder
<1>4. items' \in [0..(c - 1) -> Stored]
  <2>1. ASSUME NEW p \in 0..(c - 1)
        PROVE  (IF p < Len(s) THEN s[p + 1] ELSE Junk) \in Stored
    <3>1. CASE p < Len(s)
      <4>1. p + 1 \in 1..Len(s)
        BY <1>1, <1>2, <3>1, MaxCapacityIsNat
      <4>2. QED
        BY <3>1, <4>1
    <3>2. CASE ~(p < Len(s))
      BY <3>2 DEF Stored
    <3>3. QED
      BY <3>1, <3>2
  <2>2. items' = [p \in 0..(c - 1) |-> IF p < Len(s) THEN s[p + 1] ELSE Junk]
    BY DEF FreshBuilder
  <2>3. QED
    BY <2>1, <2>2
<1>5. QED
  BY <1>1, <1>2, <1>3, <1>4 DEF TypeOK, program, Places

\* What FromCstr and FromVstr make a builder of.
LEMMA SourceType ==
  ASSUME TypeOK
  PROVE  /\ \A s \in Strings : Append(s, Nul) \in Seq(Stored) /\ Len(Append(s, Nul)) = Len(s) + 1
         /\ \A s \in Sources : s \in Seq(Stored)
<1>1. \A s \in Pieces : Append(s, Nul) \in Seq(Stored) /\ Len(Append(s, Nul)) = Len(s) + 1
  BY StoredTexts, AppendProperties
<1>2. QED
  BY <1>1, StoredTexts DEF TypeOK, Sources, Strings

LEMMA CopyType ==
  ASSUME TypeOK
  PROVE  All \in Seq(Stored) /\ Len(All) = length
<1> DEFINE s == [n \in 1..length |-> items[n - 1]]
<1>1. \A n \in 1..length : items[n - 1] \in Stored
  BY ConstantsAssumption, MaxCapacityIsNat DEF TypeOK, program, Places
<1>2. s \in [1..length -> Stored] /\ length \in Nat
  BY <1>1, ConstantsAssumption, MaxCapacityIsNat DEF TypeOK
<1>3. s \in Seq(Stored)
  BY <1>2, SeqOfFunction
<1>4. DOMAIN s = 1..length
  OBVIOUS
<1>5. Len(s) = length
  <2>1. 1..Len(s) = 1..length /\ Len(s) \in Nat
    BY <1>3, <1>4, LenProperties
  <2>2. QED
    BY <1>2, <2>1
<1>6. QED
  BY <1>3, <1>5 DEF All

LEMMA StepType ==
  ASSUME TypeOK, [Next]_vars
  PROVE  TypeOK'
<1>1. CASE UNCHANGED vars
  BY <1>1 DEF TypeOK, vars, program, Places
<1>2. ASSUME NEW s \in Appended, AppendBuf(s) \/ AppendFile(s)
      PROVE  TypeOK'
  BY <1>2, AppendBufType DEF AppendFile
<1>3. ASSUME NEW s \in Strings, FromCstr(s)
      PROVE  TypeOK'
  <2>1. Append(s, Nul) \in Seq(Stored) /\ FreshBuilder(Append(s, Nul), Len(Append(s, Nul)))
    BY <1>3, SourceType DEF FromCstr
  <2>2. QED
    BY <2>1, FreshBuilderType
<1>4. ASSUME NEW s \in Sources, FromVstr(s)
      PROVE  TypeOK'
  BY <1>4, SourceType, FreshBuilderType DEF FromVstr
<1>5. CASE Rewind
  BY <1>5, ConstantsAssumption, MaxCapacityIsNat DEF Rewind, TypeOK, program, Places
<1>6. CASE ToVstr
  BY <1>6, CopyType DEF ToVstr, TypeOK, program, Places
<1>7. CASE ToCstr
  BY <1>7, CopyType DEF ToCstr, TypeOK, program, Places
<1>8. ASSUME NEW s \in Appended, NEW got \in 0..(Len(s) - 1), AppendFileCut(s, got)
      PROVE  TypeOK'
  BY <1>8, AppendFileCutType
<1>9. CASE AppendEmpty
  BY <1>9 DEF AppendEmpty, TypeOK, program, Places
<1>10. QED
  BY <1>1, <1>2, <1>3, <1>4, <1>5, <1>6, <1>7, <1>8, <1>9 DEF Next, Call

\* The type invariant, with it that length never passes capacity: no operation of
\* a builder, whatever its sources, writes behind the block it has reserved.
THEOREM TypeCorrect == Spec => []TypeOK
<1>1. Init => TypeOK
  BY InitType
<1>2. TypeOK /\ [Next]_vars => TypeOK'
  BY StepType
<1>3. QED
  BY <1>1, <1>2, PTL DEF Spec

-----------------------------------------------------------------------------
(* A builder holds a C string.                                             *)

\* A program is proper or not from its start, and so is whether it appends NULs.
LEMMA ProgramStays ==
  ASSUME [Next]_vars
  PROVE  proper' = proper /\ nuls' = nuls
<1> DEFINE Stays == program' = program
<1>1. ASSUME NEW s \in Appended, AppendBuf(s) \/ AppendFile(s)
      PROVE  Stays
  BY <1>1 DEF AppendBuf, AppendFile
<1>2. ASSUME NEW s \in Appended, NEW got \in 0..(Len(s) - 1), AppendFileCut(s, got)
      PROVE  Stays
  BY <1>2 DEF AppendFileCut
<1>3. ASSUME NEW s \in Strings, FromCstr(s)
      PROVE  Stays
  BY <1>3 DEF FromCstr, FreshBuilder
<1>4. ASSUME NEW s \in Sources, FromVstr(s)
      PROVE  Stays
  BY <1>4 DEF FromVstr, FreshBuilder
<1>5. ASSUME UNCHANGED vars
      PROVE  Stays
  BY <1>5 DEF vars
<1>6. ASSUME AppendEmpty \/ Rewind
      PROVE  Stays
  BY <1>6 DEF AppendEmpty, Rewind
<1>7. ASSUME ToVstr \/ ToCstr
      PROVE  Stays
  BY <1>7 DEF ToVstr, ToCstr
<1> HIDE DEF Stays
<1>8. Stays
  BY <1>1, <1>2, <1>3, <1>4, <1>5, <1>6, <1>7 DEF Next, Call
<1>9. <<proper', nuls'>> = <<proper, nuls>>
  BY <1>8 DEF Stays, program
<1> QED
  BY <1>9

LEMMA AppendedIs ==
  ASSUME IInv, NEW s \in Appended
  PROVE  /\ s \in Seq(Alphabet) /\ Len(s) \in Nat
         /\ \A n \in 1..Len(s) : s[n] \in Alphabet
<1>1. s \in Seq(Stored) /\ Len(s) \in Nat
  BY PieceType DEF IInv
<1>2. \A n \in 1..Len(s) : s[n] \in Alphabet
  <2>1. CASE s \in Strings
    <3>1. s \in Seq(Chars \cup {Nul}) /\ \A n \in 1..Len(s) : s[n] # Nul
      BY <2>1, ConstantsAssumption DEF Strings
    <3> QED
      BY <3>1 DEF Alphabet
  <2>2. CASE nuls /\ s \in Pieces
    <3>1. s \in Seq(Chars \cup {Nul})
      BY <2>2, ConstantsAssumption
    <3> QED
      BY <2>2, <3>1 DEF Alphabet
  <2>3. CASE nuls /\ s = view
    <3>1. CASE view = <<>>
      BY <2>3, <3>1
    <3>2. CASE EndsInNul(view)
      <4>1. ASSUME NEW n \in 1..Len(s) PROVE s[n] \in Alphabet
        <5>1. n = Len(view) \/ n \in 1..(Len(view) - 1)
          BY <1>1, <2>3
        <5> QED
          BY <2>3, <3>2, <5>1 DEF EndsInNul, Alphabet
      <4> QED
        BY <4>1
    <3> QED
      BY <3>1, <3>2 DEF IInv, ViewClosed
  <2> QED
    BY <2>1, <2>2, <2>3 DEF Appended
<1>3. s \in [1..Len(s) -> Alphabet]
  BY <1>1, <1>2, LenProperties
<1> QED
  BY <1>1, <1>2, <1>3, SeqOfFunction

LEMMA AppendBufClosed ==
  ASSUME IInv, NEW s \in Appended, AppendBuf(s)
  PROVE  /\ Closed'
         /\ length' = Start + Len(s) + 1
         /\ \A p \in 0..(Start + Len(s) - 1) :
              items'[p] = IF p < Start THEN items[p] ELSE s[p - Start + 1]
<1> DEFINE r == Reserved(Len(s))
<1>1. /\ r \in 1..MaxLength /\ r = Start + Len(s) + 1 /\ r <= Grown(r)
      /\ Grown(r) \in 0..MaxCapacity
  BY AppendedIs, ReservedBounds DEF AppendBuf, IInv
<1>2. length' = r
  BY DEF AppendBuf
<1>3. /\ Start \in Nat /\ Len(s) \in Nat /\ Start <= length /\ length <= capacity
      /\ capacity \in Nat /\ length \in Nat /\ (length > 0 => Start = length - 1)
      /\ Start > 0 => length > 0
  BY StartType, AppendedIs, ConstantsAssumption, MaxCapacityIsNat DEF IInv, TypeOK, Start
<1>4. ASSUME NEW p \in 0..(Grown(r) - 1)
      PROVE  items'[p] = IF p \in Start..(Start + Len(s) - 1) THEN s[p - Start + 1]
                         ELSE IF p = Start + Len(s) THEN Nul ELSE Held(p)
  BY <1>4 DEF AppendBuf
<1>5. items'[Start + Len(s)] = Nul
  <2>1. Start + Len(s) \in 0..(Grown(r) - 1) /\ Start + Len(s) \notin Start..(Start + Len(s) - 1)
    BY <1>1, <1>3, MaxCapacityIsNat
  <2>2. QED
    BY <1>4, <2>1
<1>6. ASSUME NEW p \in 0..(Start + Len(s) - 1)
      PROVE  /\ items'[p] = IF p < Start THEN items[p] ELSE s[p - Start + 1]
             /\ items'[p] \in Alphabet
  <2>1. p \in 0..(Grown(r) - 1) /\ p # Start + Len(s)
    BY <1>1, <1>3, MaxCapacityIsNat
  <2>2. CASE p < Start
    <3>1. p \notin Start..(Start + Len(s) - 1) /\ p < capacity /\ p \in 0..(length - 2)
      BY <1>3, <2>2
    <3>2. items'[p] = Held(p) /\ Held(p) = items[p]
      BY <1>4, <2>1, <3>1 DEF Held
    <3>3. items[p] \in Alphabet
      BY <1>3, <3>1 DEF IInv, Closed
    <3>4. QED
      BY <2>2, <3>2, <3>3
  <2>3. CASE ~(p < Start)
    <3>1. p \in Start..(Start + Len(s) - 1) /\ p - Start + 1 \in 1..Len(s)
      BY <1>3, <2>3
    <3>2. items'[p] = s[p - Start + 1]
      BY <1>4, <2>1, <3>1
    <3>3. QED
      BY <2>3, <3>1, <3>2, AppendedIs
  <2>4. QED
    BY <2>2, <2>3
<1>7. Closed'
  <2>0. Alphabet' = Alphabet
    BY DEF AppendBuf, program, Alphabet
  <2>1. length' - 1 = Start + Len(s) /\ length' - 2 = Start + Len(s) - 1
    BY <1>1, <1>2, <1>3
  <2>2. items'[length' - 1] = Nul /\ \A p \in 0..(length' - 2) : items'[p] \in Alphabet
    BY <1>5, <1>6, <2>1
  <2>3. QED
    BY <2>0, <2>2 DEF Closed
<1>8. QED
  BY <1>1, <1>2, <1>6, <1>7

LEMMA FreshBuilderClosed ==
  ASSUME IInv, NEW s \in Seq(Stored), FreshBuilder(s, Len(s)), s = <<>> \/ EndsInNul(s)
  PROVE  Closed' /\ All' = s
<1>1. Len(s) \in Nat /\ length' = Len(s) /\ TypeOK'
  BY FreshBuilderType DEF FreshBuilder, IInv
<1>2. ASSUME NEW p \in 0..(Len(s) - 1)
      PROVE  items'[p] = s[p + 1]
  <2>1. p < capacity' /\ p \in Nat /\ capacity' \in Nat
    <3>1. length' <= capacity' /\ capacity' \in 0..MaxCapacity /\ MaxCapacity \in Nat
      BY <1>1, MaxCapacityIsNat DEF TypeOK
    <3>2. QED
      BY <1>1, <3>1
  <2>2. p \in 0..((IF Len(s) = 0 THEN 0 ELSE RoundUp(Len(s))) - 1) /\ p < Len(s)
    BY <1>1, <2>1 DEF FreshBuilder
  <2>3. QED
    BY <2>2 DEF FreshBuilder
<1>3. All' = s
  <2>1. /\ All' \in Seq(Stored) /\ Len(All') = Len(s)
        /\ \A n \in 1..Len(s) : All'[n] = items'[n - 1]
    <3>1. (All \in Seq(Stored) /\ Len(All) = length)'
      BY <1>1, CopyType, PTL
    <3>2. QED
      BY <1>1, <3>1 DEF All
  <2>2. \A n \in 1..Len(s) : All'[n] = s[n]
    BY <1>1, <1>2, <2>1
  <2>3. QED
    BY <2>1, <2>2, SeqEqual
<1>4. Closed'
  <2>0. Alphabet' = Alphabet
    BY DEF FreshBuilder, program, Alphabet
  <2>1. CASE s = <<>>
    BY <1>1, <2>1 DEF Closed
  <2>2. CASE EndsInNul(s)
    <3>1. items'[length' - 1] = Nul
      BY <1>1, <1>2, <2>2 DEF EndsInNul
    <3>2. \A p \in 0..(length' - 2) : items'[p] \in Alphabet
      BY <1>1, <1>2, <2>2 DEF EndsInNul
    <3>3. QED
      BY <2>0, <3>1, <3>2 DEF Closed
  <2>3. QED
    BY <2>1, <2>2
<1>5. QED
  BY <1>3, <1>4

\* A string with a NUL behind it, as FromCstr makes a builder of.
LEMMA CstrEndsInNul ==
  ASSUME NEW s \in Strings
  PROVE  EndsInNul(Append(s, Nul)) /\ Body(Append(s, Nul)) = s
<1>1. s \in Seq(Chars \cup {Nul}) /\ s \in Seq(Stored) /\ \A n \in 1..Len(s) : s[n] # Nul
  BY StoredTexts, ConstantsAssumption DEF Strings
<1>2. /\ Append(s, Nul) \in Seq(Stored) /\ Append(s, Nul) # <<>>
      /\ Len(Append(s, Nul)) = Len(s) + 1 /\ Len(s) \in Nat
      /\ \A n \in 1..Len(s) : Append(s, Nul)[n] = s[n]
      /\ Append(s, Nul)[Len(s) + 1] = Nul
  BY <1>1, StoredTexts, AppendProperties, LenProperties
<1>3. \A n \in 1..Len(s) : s[n] \in Alphabet
  BY <1>1 DEF Alphabet
<1>4. EndsInNul(Append(s, Nul))
  BY <1>2, <1>3 DEF EndsInNul
<1>5. Body(Append(s, Nul)) = [n \in 1..Len(s) |-> s[n]]
  BY <1>2 DEF Body
<1>6. [n \in 1..Len(s) |-> s[n]] = s
  BY <1>1, LenProperties
<1>7. QED
  BY <1>4, <1>5, <1>6

LEMMA AllEndsInNul ==
  ASSUME IInv
  PROVE  /\ All \in Seq(Stored)
         /\ length = 0 => All = <<>>
         /\ length > 0 => EndsInNul(All)
<1>1. All \in Seq(Stored) /\ Len(All) = length
  BY CopyType DEF IInv
<1>2. length = 0 => All = <<>>
  BY <1>1, EmptySeq
<1>3. ASSUME length > 0 PROVE EndsInNul(All)
  <2>1. length \in Nat
    BY ConstantsAssumption, MaxCapacityIsNat DEF IInv, TypeOK
  <2>2. \A n \in 1..length : All[n] = items[n - 1]
    BY DEF All
  <2>3. All[length] = Nul
    BY <1>3, <2>1, <2>2 DEF IInv, Closed
  <2>4. \A n \in 1..(length - 1) : All[n] \in Alphabet
    BY <1>3, <2>1, <2>2 DEF IInv, Closed
  <2>5. QED
    BY <1>1, <1>3, <2>3, <2>4 DEF EndsInNul
<1>4. QED
  BY <1>1, <1>2, <1>3

LEMMA InitIInv == ASSUME Init PROVE IInv
BY InitType DEF Init, IInv, Closed, ViewClosed, OutClosed

\* What was handed out before is as good as it was.
LEMMA CopiesStay ==
  ASSUME IInv, UNCHANGED <<program, view, out>>
  PROVE  ViewClosed' /\ OutClosed'
BY DEF IInv, program, ViewClosed, OutClosed, EndsInNul, Alphabet

LEMMA StepIInv ==
  ASSUME proper, IInv, [Next]_vars
  PROVE  IInv'
<1>0. proper' = proper /\ nuls' = nuls
  BY ProgramStays
<1>1. TypeOK' /\ proper' = proper /\ nuls' = nuls /\ Alphabet' = Alphabet
  BY <1>0, StepType DEF IInv, Alphabet
<1>2. CASE UNCHANGED vars
  BY <1>1, <1>2, CopiesStay DEF IInv, Closed, vars
<1>3. ASSUME NEW s \in Appended, AppendBuf(s) \/ AppendFile(s)
      PROVE  IInv'
  <2>1. AppendBuf(s) /\ UNCHANGED <<program, view, out>>
    BY <1>3 DEF AppendFile, AppendBuf
  <2>2. QED
    BY <1>1, <2>1, AppendBufClosed, CopiesStay DEF IInv
<1>4. ASSUME NEW s \in Strings, FromCstr(s)
      PROVE  IInv'
  <2>1. FreshBuilder(Append(s, Nul), Len(Append(s, Nul))) /\ UNCHANGED <<program, view, out>>
    BY <1>4, SourceType DEF FromCstr, FreshBuilder, IInv
  <2>2. Append(s, Nul) \in Seq(Stored) /\ EndsInNul(Append(s, Nul))
    BY SourceType, CstrEndsInNul DEF IInv
  <2>3. QED
    BY <1>1, <2>1, <2>2, FreshBuilderClosed, CopiesStay DEF IInv
<1>5. ASSUME NEW s \in Sources, FromVstr(s)
      PROVE  IInv'
  <2>1. s = view /\ s \in Seq(Stored)
    BY SourceType DEF Sources, IInv
  <2>2. FreshBuilder(s, Len(s)) /\ UNCHANGED <<program, view, out>>
    BY <1>5 DEF FromVstr, FreshBuilder
  <2>3. QED
    BY <1>1, <2>1, <2>2, FreshBuilderClosed, CopiesStay DEF IInv, ViewClosed
<1>6. CASE Rewind
  <2>1. length' = 0 /\ UNCHANGED <<program, view, out>>
    BY <1>6 DEF Rewind
  <2> QED
    BY <1>1, <2>1, CopiesStay DEF IInv, Closed
<1>7. CASE ToVstr
  <2>1. view' = All /\ UNCHANGED <<program, items, length, capacity, out>>
    BY <1>7 DEF ToVstr
  <2>2. length = 0 \/ length > 0
    BY ConstantsAssumption, MaxCapacityIsNat DEF IInv, TypeOK
  <2>3. Closed' /\ OutClosed'
    BY <1>1, <2>1 DEF IInv, Closed, OutClosed, EndsInNul
  <2>4. ViewClosed'
    BY <1>1, <2>1, <2>2, AllEndsInNul DEF IInv, ViewClosed, EndsInNul
  <2>5. QED
    BY <1>1, <2>3, <2>4 DEF IInv
<1>8. CASE ToCstr
  <2>1. out' = All /\ length > 0 /\ UNCHANGED <<program, items, length, capacity, view>>
    BY <1>8 DEF ToCstr
  <2>2. Closed' /\ ViewClosed'
    BY <1>1, <2>1 DEF IInv, Closed, ViewClosed, EndsInNul
  <2>3. OutClosed'
    BY <1>1, <2>1, AllEndsInNul DEF IInv, OutClosed, EndsInNul
  <2>4. QED
    BY <1>1, <2>2, <2>3 DEF IInv
<1>9. ASSUME NEW s \in Appended, NEW got \in 0..(Len(s) - 1), AppendFileCut(s, got)
      PROVE  IInv'
  BY <1>9 DEF AppendFileCut
<1>10. CASE AppendEmpty
  BY <1>10 DEF AppendEmpty
<1>11. QED
  BY <1>2, <1>3, <1>4, <1>5, <1>6, <1>7, <1>8, <1>9, <1>10 DEF Next, Call

LEMMA Invariance == Spec => [](proper => IInv)
<1>1. Init => (proper => IInv)
  BY InitIInv
<1>2. (proper => IInv) /\ [Next]_vars => (proper => IInv)'
  BY StepIInv, ProgramStays
<1>3. QED
  BY <1>1, <1>2, PTL DEF Spec

\* README.md: ".items of non-empty StringBuilder is a cstr", for every program that
\* makes no builder of a view without a NUL, reads its files whole, takes no C string of
\* an empty builder and appends none, whatever else it appends.  It takes Closed, which
\* says of the other characters what they may be, to be kept by every step.
THEOREM HoldsCstr == Spec => []BuilderIsCstr
<1>1. IInv => ItemsAreCstr
  <2> SUFFICES ASSUME IInv, length > 0
               PROVE  /\ items[length - 1] = Nul
                      /\ ~nuls => \A p \in 0..(length - 2) : items[p] # Nul
    BY DEF ItemsAreCstr
  <2>1. items[length - 1] = Nul /\ \A p \in 0..(length - 2) : items[p] \in Alphabet
    BY DEF IInv, Closed
  <2>2. ~nuls => \A c \in Alphabet : c # Nul
    BY ConstantsAssumption DEF Alphabet
  <2>3. QED
    BY <2>1, <2>2
<1>2. IInv => (out # Untaken => out # <<>> /\ out[Len(out)] = Nul)
  <2> SUFFICES ASSUME IInv, out # Untaken
               PROVE  out # <<>> /\ out[Len(out)] = Nul
    OBVIOUS
  <2>1. out \in Seq(Stored) /\ Len(out) > 0 /\ out[Len(out)] = Nul
    BY DEF IInv, OutClosed, EndsInNul
  <2>2. QED
    BY <2>1, EmptySeq
<1>3. (proper => IInv) => BuilderIsCstr
  BY <1>1, <1>2 DEF BuilderIsCstr
<1>4. QED
  BY <1>3, Invariance, PTL

-----------------------------------------------------------------------------
(* Dstr implements Builder.                                                *)

\* The text of a builder, character by character.
TextIsInItems ==
  /\ Body(All) \in Seq(Alphabet)
  /\ Len(Body(All)) = IF length = 0 THEN 0 ELSE length - 1
  /\ \A n \in 1..(length - 1) : Body(All)[n] = items[n - 1]

LEMMA BodyOfAll == IInv => TextIsInItems
<1> SUFFICES ASSUME IInv PROVE TextIsInItems
  OBVIOUS
<1> DEFINE m == IF length = 0 THEN 0 ELSE length - 1
<1>1. length \in Nat /\ m \in Nat
  BY ConstantsAssumption, MaxCapacityIsNat DEF IInv, TypeOK
<1>2. All \in Seq(Stored) /\ Len(All) = length
  BY CopyType DEF IInv
<1>3. All = <<>> <=> length = 0
  BY <1>1, <1>2, EmptySeq
<1>4. Body(All) = [n \in 1..m |-> All[n]]
  BY <1>2, <1>3 DEF Body
<1>5. \A n \in 1..m : All[n] = items[n - 1] /\ items[n - 1] \in Alphabet
  BY <1>1 DEF All, IInv, Closed
<1>6. Body(All) \in [1..m -> Alphabet]
  BY <1>4, <1>5
<1>7. Body(All) \in Seq(Alphabet)
  BY <1>1, <1>6, SeqOfFunction
<1>8. 1..Len(Body(All)) = 1..m /\ Len(Body(All)) \in Nat
  BY <1>4, <1>7, LenProperties
<1>9. Len(Body(All)) = m
  BY <1>1, <1>8
<1>10. QED
  BY <1>1, <1>4, <1>5, <1>7, <1>9 DEF TextIsInItems

\* The text of a builder and the characters of it differ by the NUL alone.
LEMMA AllIsBody ==
  ASSUME IInv
  PROVE  /\ length > 0 => All = Append(Body(All), Nul)
         /\ length = 0 => All = <<>> /\ Body(All) = <<>>
<1>1. /\ Body(All) \in Seq(Alphabet)
      /\ Len(Body(All)) = IF length = 0 THEN 0 ELSE length - 1
      /\ \A n \in 1..(length - 1) : Body(All)[n] = items[n - 1]
  BY BodyOfAll DEF TextIsInItems
<1>2. All \in Seq(Stored) /\ Len(All) = length /\ length \in Nat
  BY CopyType, ConstantsAssumption, MaxCapacityIsNat DEF IInv, TypeOK
<1>3. \A n \in 1..length : All[n] = items[n - 1]
  BY DEF All
<1>4. Body(All) \in Seq(Stored) /\ Nul \in Stored
  BY <1>1, SeqMonotonic DEF Alphabet, Stored
<1>5. ASSUME length > 0 PROVE All = Append(Body(All), Nul)
  <2>1. /\ Append(Body(All), Nul) \in Seq(Stored)
        /\ Len(Append(Body(All), Nul)) = length
        /\ \A n \in 1..(length - 1) : Append(Body(All), Nul)[n] = Body(All)[n]
        /\ Append(Body(All), Nul)[length] = Nul
    BY <1>1, <1>2, <1>4, <1>5, AppendProperties
  <2>2. All[length] = Nul
    BY <1>2, <1>5, AllEndsInNul DEF EndsInNul
  <2>3. ASSUME NEW n \in 1..length PROVE All[n] = Append(Body(All), Nul)[n]
    <3>1. n = length \/ n \in 1..(length - 1)
      BY <1>2
    <3> QED
      BY <1>1, <1>3, <2>1, <2>2, <3>1
  <2> QED
    BY <1>2, <2>1, <2>3, SeqEqual
<1>6. ASSUME length = 0 PROVE All = <<>> /\ Body(All) = <<>>
  BY <1>1, <1>2, <1>6, EmptySeq
<1> QED
  BY <1>5, <1>6

\* A reader of the C string sees the text as far as its first NUL.
LEMMA ReadToFirstNul ==
  ASSUME IInv, length > 0
  PROVE  \E n \in 0..Len(Body(All)) :
           /\ \A m \in 1..n : Body(All)[m] # Nul
           /\ n < Len(Body(All)) => Body(All)[n + 1] = Nul
           /\ AsCstr(All) = SubSeq(Body(All), 1, n)
<1> DEFINE ends == {n \in 1..Len(All) + 1 : n = Len(All) + 1 \/ All[n] = Nul}
           least == CHOOSE n \in ends : \A m \in ends : n <= m
<1>1. /\ Body(All) \in Seq(Alphabet) /\ Len(Body(All)) = length - 1
      /\ length \in Nat /\ Len(All) = length /\ All \in Seq(Stored)
      /\ All[length] = Nul
      /\ \A n \in 1..(length - 1) : Body(All)[n] = All[n]
  <2>1. length \in Nat /\ All \in Seq(Stored) /\ Len(All) = length /\ EndsInNul(All)
    BY CopyType, AllEndsInNul, ConstantsAssumption, MaxCapacityIsNat DEF IInv, TypeOK
  <2>2. \A n \in 1..(length - 1) : Body(All)[n] = All[n]
    BY <2>1, BodyOfAll DEF All, TextIsInItems
  <2> QED
    BY <2>1, <2>2, BodyOfAll DEF TextIsInItems, EndsInNul
<1>2. length \in ends /\ ends \subseteq Nat
  BY <1>1
<1>3. PICK n \in ends : \A m \in ends : n <= m
  <2>1. \E n \in ends : \A m \in ends : ~(<<m, n>> \in OpToRel(<, Nat))
    BY <1>2, NatLessThanWellFounded, WFMin
  <2>2. \A m \in ends, n \in ends : ~(<<m, n>> \in OpToRel(<, Nat)) => n <= m
    BY <1>2 DEF OpToRel
  <2> QED
    BY <2>1, <2>2
<1>4. least \in ends /\ \A m \in ends : least <= m
  BY <1>3
<1> HIDE DEF least
<1>5. least \in 1..length /\ All[least] = Nul
  BY <1>1, <1>2, <1>4
<1>6. \A m \in 1..(least - 1) : All[m] # Nul
  BY <1>1, <1>4, <1>5
<1>7. least - 1 \in 0..Len(Body(All))
  BY <1>1, <1>5
<1>8. \A m \in 1..(least - 1) : Body(All)[m] # Nul
  BY <1>1, <1>5, <1>6
<1>9. least - 1 < Len(Body(All)) => Body(All)[least - 1 + 1] = Nul
  BY <1>1, <1>5
<1>10. AsCstr(All) = SubSeq(All, 1, least - 1)
  BY DEF AsCstr, least
<1>11. SubSeq(All, 1, least - 1) = SubSeq(Body(All), 1, least - 1)
  <2>1. SubSeq(All, 1, least - 1) = [m \in 1..(least - 1) |-> All[m]]
    BY <1>1, <1>5
  <2>2. SubSeq(Body(All), 1, least - 1) = [m \in 1..(least - 1) |-> Body(All)[m]]
    BY <1>1, <1>5
  <2>3. \A m \in 1..(least - 1) : Body(All)[m] = All[m]
    BY <1>1, <1>5
  <2> QED
    BY <2>1, <2>2, <2>3
<1> QED
  BY <1>7, <1>8, <1>9, <1>10, <1>11

LEMMA StepRefines ==
  ASSUME proper, IInv, IInv', [Next]_vars
  PROVE  [B!Next]_B!vars
<1>0. TextIsInItems /\ TextIsInItems'
  BY BodyOfAll, PTL
<1>q. proper' = proper /\ nuls' = nuls
  BY ProgramStays
<1>p. proper' /\ proper' = proper /\ nuls' = nuls /\ Alphabet' = Alphabet
  BY <1>q DEF Alphabet
<1> DEFINE Handed == IF ~proper \/ out = Untaken THEN Untaken ELSE AsCstr(out)
<1>h. UNCHANGED out => UNCHANGED Handed
  BY <1>p DEF AsCstr
<1>a. ASSUME length' = length, items' = items
      PROVE  All' = All /\ Body(All)' = Body(All)
  <2>1. All' = All
    BY <1>a DEF All
  <2> QED
    BY <2>1 DEF Body
<1> HIDE DEF Handed
<1> DEFINE Kept == IF proper THEN view ELSE <<>>
           Text == IF proper THEN Body(All) ELSE <<>>
<1>k. Kept = view /\ Kept' = view' /\ Text = Body(All) /\ Text' = Body(All)'
  BY <1>p
<1>1. CASE UNCHANGED vars
  <2>1. UNCHANGED <<view, out, items, length>>
    BY <1>1 DEF vars
  <2>2. UNCHANGED <<Text, Kept, Handed>>
    BY <1>a, <1>h, <1>k, <2>1
  <2> QED
    BY <2>2 DEF B!vars, Handed
<1>2. ASSUME NEW s \in Appended, AppendBuf(s) \/ AppendFile(s)
      PROVE  B!Next
  <2>1. AppendBuf(s) /\ UNCHANGED <<view, out>>
    BY <1>2 DEF AppendFile, AppendBuf
  <2>2. /\ length' = Start + Len(s) + 1
        /\ \A p \in 0..(Start + Len(s) - 1) :
             items'[p] = IF p < Start THEN items[p] ELSE s[p - Start + 1]
    BY <2>1, AppendBufClosed
  <2>3. /\ Body(All)' \in Seq(Alphabet)
        /\ Len(Body(All)') = IF length' = 0 THEN 0 ELSE length' - 1
        /\ \A n \in 1..(length' - 1) : Body(All)'[n] = items'[n - 1]
    BY <1>0, <1>p DEF TextIsInItems
  <2>4. /\ Body(All) \in Seq(Alphabet) /\ s \in Seq(Alphabet)
        /\ Len(Body(All)) = Start /\ Start \in Nat /\ Len(s) \in Nat
        /\ \A n \in 1..Start : Body(All)[n] = items[n - 1]
    BY <1>0, AppendedIs, ConstantsAssumption, MaxCapacityIsNat DEF Start, IInv, TypeOK, TextIsInItems
  <2>5. /\ Body(All) \o s \in Seq(Alphabet)
        /\ Len(Body(All) \o s) = Start + Len(s)
        /\ \A n \in 1..(Start + Len(s)) :
             (Body(All) \o s)[n] = IF n <= Start THEN Body(All)[n] ELSE s[n - Start]
    BY <2>4, ConcatProperties
  <2>6. Len(Body(All)') = Start + Len(s)
    BY <2>2, <2>3, <2>4
  <2>7. ASSUME NEW n \in 1..(Start + Len(s))
        PROVE  Body(All)'[n] = (Body(All) \o s)[n]
    <3>1. n - 1 \in 0..(Start + Len(s) - 1) /\ n \in 1..(length' - 1)
      BY <2>2, <2>4
    <3>2. Body(All)'[n] = items'[n - 1]
      BY <2>3, <3>1
    <3>3. items'[n - 1] = IF n - 1 < Start THEN items[n - 1] ELSE s[n - 1 - Start + 1]
      BY <2>2, <3>1
    <3>4. CASE n <= Start
      BY <2>4, <2>5, <3>2, <3>3, <3>4
    <3>5. CASE ~(n <= Start)
      <4>1. n - 1 - Start + 1 = n - Start /\ ~(n - 1 < Start)
        BY <2>4, <3>5
      <4>2. QED
        BY <2>5, <3>2, <3>3, <3>5, <4>1
    <3>6. QED
      BY <3>4, <3>5
  <2>8. Text' = Text \o s
    BY <1>k, <2>3, <2>5, <2>6, <2>7, SeqEqual
  <2>9. UNCHANGED <<Kept, Handed>>
    BY <1>h, <1>k, <2>1
  <2>10. s \in Pieces \cup {Kept}
    BY <1>k DEF Appended, Strings
  <2>11. B!Add(s)
    BY <2>8, <2>9 DEF B!Add, Handed
  <2>12. QED
    BY <2>10, <2>11 DEF B!Next
<1>3. ASSUME NEW s \in Strings, FromCstr(s)
      PROVE  B!Next
  <2>1. FreshBuilder(Append(s, Nul), Len(Append(s, Nul))) /\ UNCHANGED <<view, out>>
    BY <1>3, SourceType DEF FromCstr, FreshBuilder, IInv
  <2>2. All' = Append(s, Nul)
    BY <2>1, SourceType, CstrEndsInNul, FreshBuilderClosed DEF IInv
  <2>3. Text' = s
    BY <1>k, <2>2, CstrEndsInNul DEF Body
  <2>4. UNCHANGED <<Kept, Handed>>
    BY <1>h, <1>k, <2>1
  <2>5. B!Make(s) /\ s \in Pieces
    BY <2>3, <2>4 DEF B!Make, Strings, Handed
  <2>6. QED
    BY <2>5 DEF B!Next
<1>4. ASSUME NEW s \in Sources, FromVstr(s)
      PROVE  B!Next
  <2>1. s = view /\ s \in Seq(Stored) /\ FreshBuilder(s, Len(s)) /\ UNCHANGED <<view, out>>
    BY <1>4, SourceType DEF Sources, IInv, FromVstr, FreshBuilder
  <2>2. All' = view
    BY <2>1, FreshBuilderClosed DEF IInv, ViewClosed
  <2>3. Text' = Body(Kept)
    BY <1>k, <2>2 DEF Body
  <2>4. Body(Kept) = IF Kept = <<>> THEN <<>> ELSE SubSeq(Kept, 1, Len(Kept) - 1)
    <3>1. Kept \in Seq(Stored) /\ Len(Kept) \in Nat
      BY <1>k, <2>1, LenProperties
    <3>2. CASE Kept = <<>>
      BY <3>2 DEF Body
    <3>3. CASE Kept # <<>>
      <4>1. Len(Kept) > 0
        BY <3>1, <3>3, EmptySeq
      <4>2. SubSeq(Kept, 1, Len(Kept) - 1) = [n \in 1..(Len(Kept) - 1) |-> Kept[n]]
        BY <3>1, <4>1
      <4> QED
        BY <3>3, <4>2 DEF Body
    <3> QED
      BY <3>2, <3>3
  <2>5. UNCHANGED <<Kept, Handed>>
    BY <1>h, <1>k, <2>1
  <2>6. B!MakeOfKept
    BY <2>3, <2>4, <2>5 DEF B!MakeOfKept, Handed
  <2>7. QED
    BY <2>6 DEF B!Next
<1>5. CASE Rewind
  <2>1. length' = 0 /\ UNCHANGED <<view, out>>
    BY <1>5 DEF Rewind
  <2>2. Body(All)' \in Seq(Alphabet) /\ Len(Body(All)') = 0
    BY <1>0, <1>p, <2>1 DEF TextIsInItems
  <2>3. Text' = <<>>
    BY <1>k, <2>2, EmptySeq
  <2>4. UNCHANGED <<Kept, Handed>>
    BY <1>h, <1>k, <2>1
  <2>5. B!Rewind
    BY <2>3, <2>4 DEF B!Rewind, Handed
  <2>6. QED
    BY <2>5 DEF B!Next
<1>6. CASE ToVstr
  <2>1. view' = All /\ UNCHANGED <<items, length, out>>
    BY <1>6 DEF ToVstr
  <2>2. UNCHANGED <<Text, Handed>>
    BY <1>a, <1>h, <1>k, <2>1
  <2>3. length = 0 \/ length > 0
    BY ConstantsAssumption, MaxCapacityIsNat DEF IInv, TypeOK
  <2>4. Kept' = Append(Text, Nul) \/ (Text = <<>> /\ Kept' = <<>>)
    BY <1>k, <2>1, <2>3, AllIsBody
  <2>5. B!Keep
    BY <2>2, <2>4 DEF B!Keep, Handed
  <2>6. QED
    BY <2>5 DEF B!Next
<1>7. CASE ToCstr
  <2>1. out' = All /\ length > 0 /\ UNCHANGED <<items, length, view>>
    BY <1>7 DEF ToCstr
  <2>2. out' # Untaken
    BY <2>1, AllEndsInNul, ConstantsAssumption
  <2>3. Handed' = AsCstr(All)
    <3>1. Handed' = AsCstr(out)'
      BY <1>p, <2>2 DEF Handed
    <3>2. QED
      BY <2>1, <3>1 DEF AsCstr
  <2>4. UNCHANGED <<Text, Kept>>
    BY <1>a, <1>k, <2>1
  <2>5. \E n \in 0..Len(Text) :
          /\ \A m \in 1..n : Text[m] # Nul
          /\ n < Len(Text) => Text[n + 1] = Nul
          /\ Handed' = SubSeq(Text, 1, n)
    BY <1>k, <2>1, <2>3, ReadToFirstNul
  <2>6. B!Take
    BY <2>4, <2>5 DEF B!Take, Handed
  <2>7. QED
    BY <2>6 DEF B!Next
<1>8. ASSUME NEW s \in Appended, NEW got \in 0..(Len(s) - 1), AppendFileCut(s, got)
      PROVE  B!Next
  BY <1>8 DEF AppendFileCut
<1>9. CASE AppendEmpty
  BY <1>9 DEF AppendEmpty
<1>10. QED
  BY <1>1, <1>2, <1>3, <1>4, <1>5, <1>6, <1>7, <1>8, <1>9 DEF Next, Call

\* The builder of core/str.c is a text that grows, starts again and is handed out
\* whole: the moves of da_reserve and what a rewind leaves behind never show.
THEOREM Refinement == Spec => ImplementsBuilder
<1>1. Init => B!Init
  <2> SUFFICES ASSUME Init PROVE B!Init
    OBVIOUS
  <2>1. All = <<>> /\ view = <<>> /\ out = Untaken
    BY InitIInv, AllEndsInNul DEF Init
  <2>2. Body(<<>>) = <<>>
    BY DEF Body
  <2>3. QED
    BY <2>1, <2>2 DEF B!Init
<1>2. (proper => IInv) /\ (proper => IInv)' /\ [Next]_vars => [B!Next]_B!vars
  <2>1. CASE proper
    BY <2>1, ProgramStays, StepRefines
  <2>2. CASE ~proper
    <3>1. ~proper' \/ ~[Next]_vars
      BY <2>2, ProgramStays
    <3> QED
      BY <2>2, <3>1 DEF B!vars
  <2>3. QED
    BY <2>1, <2>2
<1>3. QED
  BY <1>1, <1>2, Invariance, PTL DEF Spec, ImplementsBuilder, B!Spec

\* Whatever is appended, even of a file that cannot be read to its end, the text that
\* was there stays where it was, also where the array moves to a bigger block: of
\* every program, proper or not.
THEOREM AppendKeeps == Spec => AppendKeepsText
<1> DEFINE Appends ==
      \E s \in Appended : AppendBuf(s) \/ \E got \in 0..(Len(s) - 1) : AppendFileCut(s, got)
<1>1. TypeOK /\ [Next]_vars =>
        [Appends => \A p \in 0..(Start - 1) : items'[p] = items[p]]_vars
  <2> SUFFICES ASSUME TypeOK, NEW s \in Appended, NEW p \in 0..(Start - 1),
                      \/ AppendBuf(s)
                      \/ \E got \in 0..(Len(s) - 1) : AppendFileCut(s, got)
               PROVE  items'[p] = items[p]
    OBVIOUS
  <2>1. /\ Start \in Nat /\ Start <= length /\ length <= capacity
        /\ length \in Nat /\ capacity \in Nat
    BY StartType, ConstantsAssumption, MaxCapacityIsNat DEF TypeOK
  <2>2. Len(s) \in Nat /\ Reserved(Len(s)) <= MaxLength
    BY PieceType DEF AppendBuf, AppendFileCut
  <2>3. Held(p) = items[p]
    BY <2>1 DEF Held
  <2>4. Reserved(Len(s)) <= Grown(Reserved(Len(s))) /\ Grown(Reserved(Len(s))) \in Nat
    BY <2>2, ReservedBounds, MaxCapacityIsNat
  <2>5. p \in 0..(Grown(Reserved(Len(s))) - 1)
    BY <2>1, <2>2, <2>4 DEF Reserved
  <2>6. CASE AppendBuf(s)
    BY <2>1, <2>2, <2>3, <2>5, <2>6 DEF AppendBuf
  <2>7. ASSUME NEW got \in 0..(Len(s) - 1), AppendFileCut(s, got)
        PROVE  items'[p] = items[p]
    BY <2>1, <2>2, <2>3, <2>5, <2>7 DEF AppendFileCut
  <2> QED
    BY <2>6, <2>7
<1> QED
  BY <1>1, TypeCorrect, PTL DEF Spec, AppendKeepsText

=============================================================================
