---------------------------- MODULE FormatsProofs ----------------------------
(***************************************************************************)
(* Proofs about the two readers, for any file.                             *)
(*                                                                         *)
(* CSV: a file that csv_tokenize does not refuse has all the tokens of     *)
(* each of its rows: the reader then never runs out of them.  The tokens   *)
(* found so far are those of the lines that are over, as many for each as  *)
(* the first had, and those counted in the line begun.  A table that was   *)
(* written, in whatever way, is read back: the tokenizer is always at a    *)
(* cell or at a separator, with a token for every cell before it.          *)
(*                                                                         *)
(* JSON: the tokens of a document that is not refused nest.  The calls     *)
(* that are running, and only these, tell what the tokens have open.       *)
(***************************************************************************)
EXTENDS Formats, TLAPS, SequenceTheorems, FiniteSetTheorems, WellFoundedInduction

-----------------------------------------------------------------------------
(* CSV.                                                                    *)

Counted ==
  /\ \E S : tokens \in Seq(S)
  /\ line \in Nat /\ col \in Nat /\ cur_col \in Nat
  /\ line = 0 => Len(tokens) = cur_col
  /\ line > 0 => Len(tokens) = line * col + cur_col

\* A line's worth of tokens more.
LEMMA OneMoreLine == \A m, n \in Nat : (m + 1) * n = m * n + n
  OBVIOUS

LEMMA ProductOfCounts == \A m, n \in Nat : m * n \in Nat
  OBVIOUS

\* A token taken, whatever it is, is counted.
LEMMA TakesCounts ==
  ASSUME NEW token, NEW size, Counted, Takes(token, size)
  PROVE  Counted'
<1>1. PICK S : tokens \in Seq(S)
  BY DEF Counted
<1>2. tokens \in Seq(S \cup {token}) /\ token \in S \cup {token}
  BY <1>1
<1>3. tokens' \in Seq(S \cup {token}) /\ Len(tokens') = Len(tokens) + 1
  BY <1>2 DEF Takes
<1>4. line * col \in Nat
  BY ProductOfCounts DEF Counted
<1> QED
  BY <1>3, <1>4 DEF Counted, Takes

LEMMA EmptyFieldsIsSeq ==
  /\ EmptyFields \in Seq({EmptyField(index - 1), EmptyField(index)})
  /\ Len(EmptyFields) \in Nat
<1> DEFINE S == {EmptyField(index - 1), EmptyField(index)}
<1>1. <<EmptyField(index - 1)>> \in Seq(S) /\ <<EmptyField(index)>> \in Seq(S) /\ << >> \in Seq(S)
  OBVIOUS
<1> DEFINE before == IF index > 0 /\ Char(index - 1) = Newline
                     THEN <<EmptyField(index - 1)>> ELSE <<>>
           after == IF index + 1 < Size /\ Char(index + 1) \in {Comma, Newline}
                    THEN <<EmptyField(index)>> ELSE <<>>
<1>2. before \in Seq(S) /\ after \in Seq(S)
  BY <1>1
<1>3. EmptyFields = before \o after
  BY DEF EmptyFields
<1>4. EmptyFields \in Seq(S)
  <2> HIDE DEF S, before, after
  <2> QED
    BY <1>2, <1>3
<1> QED
  BY <1>4

LEMMA CommaCounts ==
  ASSUME Counted, TakeComma
  PROVE  Counted'
<1>1. PICK S : tokens \in Seq(S)
  BY DEF Counted
<1> DEFINE T == S \cup {EmptyField(index - 1), EmptyField(index)}
<1>2. tokens \in Seq(T)
  BY <1>1
<1>3. EmptyFields \in Seq(T) /\ Len(EmptyFields) \in Nat
  BY EmptyFieldsIsSeq
<1>4. tokens' \in Seq(T) /\ Len(tokens') = Len(tokens) + Len(EmptyFields)
  BY <1>2, <1>3 DEF TakeComma
<1>5. line * col \in Nat
  BY ProductOfCounts DEF Counted
<1>6. /\ line' = line /\ col' = col /\ cur_col' = cur_col + Len(EmptyFields)
      /\ line' * col' = line * col
  BY DEF TakeComma
<1>7. \E Q : tokens' \in Seq(Q)
  BY <1>4
<1> HIDE DEF T
<1> QED
  BY <1>3, <1>4, <1>5, <1>6, <1>7 DEF Counted

LEMMA NewlineCounts ==
  ASSUME Counted, TakeNewline
  PROVE  Counted'
<1>1. CASE line > 0 /\ col # cur_col /\ Fails
  BY <1>1 DEF Counted, Fails, lexing
<1>2. CASE line = 0 /\ col' = cur_col /\ line' = line + 1 /\ cur_col' = 0 /\ tokens' = tokens
  BY <1>2 DEF Counted
<1>3. CASE line > 0 /\ col = cur_col /\ col' = cur_col /\ line' = line + 1 /\ cur_col' = 0
           /\ tokens' = tokens
  <2>1. (line + 1) * col = line * col + col
    BY OneMoreLine DEF Counted
  <2>2. line * col \in Nat
    BY ProductOfCounts DEF Counted
  <2>3. Len(tokens') = line' * col' + cur_col'
    BY <1>3, <2>1, <2>2 DEF Counted
  <2> QED
    BY <1>3, <2>3 DEF Counted
<1> QED
  BY <1>1, <1>2, <1>3 DEF TakeNewline, Counted

\* Every step keeps the count.
LEMMA StepCounts == Counted /\ [Next]_vars => Counted'
<1> SUFFICES ASSUME Counted, [Next]_vars PROVE Counted'
  OBVIOUS
<1>1. CASE TakeComma
  BY <1>1, CommaCounts
<1>2. CASE TakeNewline
  BY <1>2, NewlineCounts
<1>3. CASE TakeQuoted
  <2>1. CASE Fails
    BY <2>1 DEF Counted, Fails, lexing
  <2>2. CASE \E token, size : Takes(token, size)
    BY <2>2, TakesCounts
  <2> QED
    BY <1>3, <2>1, <2>2 DEF TakeQuoted
<1>4. CASE TakeField
  <2>1. CASE Fails
    BY <2>1 DEF Counted, Fails, lexing
  <2>2. CASE \E token, size : Takes(token, size)
    BY <2>2, TakesCounts
  <2> QED
    BY <1>4, <2>1, <2>2 DEF TakeField
<1>5. CASE BeforeContents \/ Tokenized \/ ParseHeaders \/ ReadString \/ ReadIntegral \/ ReadFloat \/ NextRow \/ End
  BY <1>5 DEF Counted, BeforeContents, Tokenized, ParseHeaders, ReadString, ReadIntegral, ReadFloat, NextRow, End, lexing
<1>6. CASE UNCHANGED vars
  BY <1>6 DEF Counted, vars, lexing
<1> QED
  BY <1>1, <1>2, <1>3, <1>4, <1>5, <1>6 DEF Next, Tokenize

LEMMA ZeroedStays == [Next]_vars => UNCHANGED zeroed
BY DEF Next, Tokenize, ParseHeaders, ReadString, ReadIntegral, ReadFloat, NextRow, End, vars

\* For any file: a program that asks csv_has_rows and csv_row_has_entries before it
\* reads never passes the last token, where the two locals of csv_tokenize that
\* nothing sets are 0.
THEOREM EveryRowHasItsTokens == Spec => []TokensForEveryRow
<1>1. Init => (zeroed => Counted)
  <2> SUFFICES ASSUME Init, zeroed PROVE Counted
    OBVIOUS
  <2>1. tokens = << >> /\ tokens \in Seq({}) /\ Len(tokens) = 0 /\ line = 0 /\ col = 1
    BY DEF Init
  <2>2. cur_col = 0
    BY Zenon DEF Init
  <2> QED
    BY <2>1, <2>2 DEF Counted
<1>2. (zeroed => Counted) => TokensForEveryRow
  <2> SUFFICES ASSUME Counted PROVE line * col <= Len(tokens)
    BY DEF TokensForEveryRow, rows, columns
  <2>1. CASE line = 0
    BY <2>1 DEF Counted
  <2>2. CASE line > 0
    BY <2>2, ProductOfCounts DEF Counted
  <2> QED
    BY <2>1, <2>2 DEF Counted
<1>3. (zeroed => Counted) /\ [Next]_vars => (zeroed => Counted)'
  BY StepCounts, ZeroedStays
<1> QED
  BY <1>1, <1>2, <1>3, PTL DEF Spec

-----------------------------------------------------------------------------
(* CSV: the tokens are parts of the file, in its order.                    *)

Token(t) == t = [at |-> t.at, length |-> t.length] /\ t.at \in Nat /\ t.length \in Nat
After(t) == t.at + t.length

\* Where the last token ends at most: an empty field at the start of a line is in front
\* of its comma, so that a newline is in none.
Reached == IF index > 0 /\ index <= Size /\ Char(index - 1) = Newline THEN index - 1 ELSE index

Ordered(list, size) ==
  /\ \A n \in 1..Len(list) : Token(list[n]) /\ After(list[n]) <= size
  /\ \A n \in 1..Len(list) - 1 : After(list[n]) <= list[n + 1].at

UpTo(list, n) == list # <<>> => After(list[Len(list)]) <= n

Placed ==
  /\ Size \in Nat /\ index \in Int
  /\ \E S : tokens \in Seq(S)
  /\ Ordered(tokens, Size)
  /\ UpTo(tokens, Reached)

LEMMA OrderedInOrder == Ordered(tokens, Size) => TokensInOrder
BY DEF Ordered, TokensInOrder, After

\* A token more, behind the others.
LEMMA OneMore ==
  ASSUME NEW S, NEW list \in Seq(S), NEW t, NEW size \in Nat, NEW n \in Nat,
         Token(t), After(t) <= size, n <= t.at, Ordered(list, size), UpTo(list, n)
  PROVE  /\ \E T : Append(list, t) \in Seq(T)
         /\ Ordered(Append(list, t), size)
         /\ UpTo(Append(list, t), After(t))
<1> DEFINE T == S \cup {t}
           more == Append(list, t)
           l == Len(list)
<1>1. list \in Seq(T) /\ t \in T
  OBVIOUS
<1>2. /\ more \in Seq(T) /\ Len(more) = l + 1 /\ l \in Nat
      /\ more[l + 1] = t
      /\ \A m \in 1..l : more[m] = list[m]
  BY <1>1
<1> HIDE DEF more, l, T
<1>3. \A m \in 1..l + 1 : Token(more[m]) /\ After(more[m]) <= size
  <2> TAKE m \in 1..l + 1
  <2>1. CASE m = l + 1
    BY <2>1, <1>2
  <2>2. CASE m # l + 1
    <3>1. m \in 1..l
      BY <2>2, <1>2
    <3> QED
      BY <3>1, <1>2 DEF Ordered, l
  <2> QED
    BY <2>1, <2>2
<1>4. \A m \in 1..l : After(more[m]) <= more[m + 1].at
  <2> TAKE m \in 1..l
  <2>1. CASE m = l
    <3>1. list # <<>> /\ After(list[l]) <= n
      BY <2>1, <1>2 DEF UpTo, l
    <3>2. Token(list[l])
      BY <2>1 DEF Ordered, l
    <3> QED
      BY <2>1, <1>2, <3>1, <3>2 DEF After, Token
  <2>2. CASE m # l
    <3>1. m \in 1..l - 1 /\ m + 1 \in 1..l
      BY <2>2, <1>2
    <3> QED
      BY <3>1, <1>2 DEF Ordered, l
  <2> QED
    BY <2>1, <2>2
<1>5. Ordered(more, size)
  BY <1>2, <1>3, <1>4 DEF Ordered
<1>6. UpTo(more, After(t))
  <2>1. Token(t)
    OBVIOUS
  <2> QED
    BY <1>2, <2>1 DEF UpTo, After, Token
<1> QED
  BY <1>2, <1>5, <1>6 DEF more

LEMMA DistinctMarks == Comma # Newline /\ Comma # Quote /\ Newline # Quote
<1>1. ASSUME NEW a, NEW b PROVE Cardinality({a, b}) # 3
  <2>1. CASE a = b
    <3>1. {a, b} = {a} /\ Cardinality({a}) = 1
      BY <2>1, FS_Singleton
    <3> QED
      BY <3>1
  <2>2. CASE a # b
    <3>1. IsFiniteSet({a}) /\ Cardinality({a}) = 1
      BY FS_Singleton
    <3>2. {a} \cup {b} = {a, b} /\ b \notin {a}
      BY <2>2
    <3>3. Cardinality({a} \cup {b}) = 1 + 1
      BY <3>1, <3>2, FS_AddElement
    <3> QED
      BY <3>2, <3>3
  <2> QED
    BY <2>1, <2>2
<1>2. Cardinality({Comma, Newline, Quote}) = 3
  BY ConstantsAssumption
<1>3. Comma = Newline => {Comma, Newline, Quote} = {Comma, Quote}
  OBVIOUS
<1>4. Comma = Quote => {Comma, Newline, Quote} = {Comma, Newline}
  OBVIOUS
<1>5. Newline = Quote => {Comma, Newline, Quote} = {Comma, Quote}
  OBVIOUS
<1> QED
  BY <1>1, <1>2, <1>3, <1>4, <1>5

LEMMA UpToMore ==
  ASSUME NEW S, NEW list \in Seq(S), NEW size, Ordered(list, size),
         NEW m \in Nat, NEW n \in Nat, m <= n, UpTo(list, m)
  PROVE  UpTo(list, n)
<1> SUFFICES ASSUME list # <<>> PROVE After(list[Len(list)]) <= n
  BY DEF UpTo
<1>1. Len(list) \in 1..Len(list)
  OBVIOUS
<1>2. Token(list[Len(list)])
  BY <1>1 DEF Ordered
<1> QED
  BY <1>2 DEF UpTo, After, Token

LEMMA EmptyIsToken ==
  ASSUME NEW n \in Nat
  PROVE  Token(EmptyField(n)) /\ EmptyField(n).at = n /\ After(EmptyField(n)) = n
BY DEF Token, After, EmptyField

LEMMA ReachedIs ==
  ASSUME index \in Nat
  PROVE  /\ Reached \in Nat /\ Reached <= index
         /\ index > 0 /\ index <= Size /\ Char(index - 1) = Newline => Reached = index - 1
BY DEF Reached

LEMMA CommaPlaces ==
  ASSUME Placed, TakeComma, UNCHANGED file
  PROVE  Placed'
<1>1. Size \in Nat /\ index \in Nat /\ index < Size /\ Char(index) = Comma
  BY DEF Placed, TakeComma, At
<1>2. PICK S : tokens \in Seq(S)
  BY DEF Placed
<1> DEFINE before == IF index > 0 /\ Char(index - 1) = Newline
                     THEN <<EmptyField(index - 1)>> ELSE <<>>
           after == IF index + 1 < Size /\ Char(index + 1) \in {Comma, Newline}
                    THEN <<EmptyField(index)>> ELSE <<>>
           first == tokens \o before
           all == first \o after
<1>3. /\ \E T : first \in Seq(T)
      /\ Ordered(first, Size) /\ UpTo(first, index)
  <2>1. CASE index > 0 /\ Char(index - 1) = Newline
    <3>1. Reached = index - 1 /\ index - 1 \in Nat
      BY <2>1, <1>1, ReachedIs
    <3>2. UpTo(tokens, index - 1) /\ Ordered(tokens, Size)
      BY <3>1 DEF Placed
    <3>3. /\ Token(EmptyField(index - 1)) /\ EmptyField(index - 1).at = index - 1
          /\ After(EmptyField(index - 1)) = index - 1
      BY <3>1, EmptyIsToken
    <3>4. index - 1 <= Size
      BY <1>1
    <3>5. /\ \E T : Append(tokens, EmptyField(index - 1)) \in Seq(T)
          /\ Ordered(Append(tokens, EmptyField(index - 1)), Size)
          /\ UpTo(Append(tokens, EmptyField(index - 1)), index - 1)
      BY <1>1, <1>2, <3>1, <3>2, <3>3, <3>4, OneMore
    <3>6. first = Append(tokens, EmptyField(index - 1))
      BY <2>1, <1>2
    <3>7. \E T : first \in Seq(T)
      BY <3>5, <3>6
    <3>8. Ordered(first, Size) /\ UpTo(first, index - 1)
      BY <3>5, <3>6
    <3>9. UpTo(first, index)
      <4> HIDE DEF first
      <4>1. index - 1 <= index
        BY <1>1
      <4> QED
        BY <3>1, <3>7, <3>8, <1>1, <4>1, UpToMore
    <3> QED
      BY <3>7, <3>8, <3>9
  <2>2. CASE ~(index > 0 /\ Char(index - 1) = Newline)
    <3>1. first = tokens
      BY <2>2, <1>2
    <3>2. Reached \in Nat /\ Reached <= index
      BY <1>1, ReachedIs
    <3>3. UpTo(tokens, Reached) /\ Ordered(tokens, Size)
      BY DEF Placed
    <3>4. UpTo(tokens, index)
      BY <1>1, <1>2, <3>2, <3>3, UpToMore
    <3> QED
      BY <1>2, <3>1, <3>3, <3>4
  <2> QED
    BY <2>1, <2>2
<1>4. \E T : all \in Seq(T)
  <2>1. PICK T : first \in Seq(T)
    BY <1>3
  <2> DEFINE U == T \cup {EmptyField(index)}
  <2>2. first \in Seq(U)
    <3> HIDE DEF first
    <3> QED
      BY <2>1
  <2>3. after \in Seq(U)
    <3>1. <<EmptyField(index)>> \in Seq(U) /\ <<>> \in Seq(U)
      OBVIOUS
    <3> QED
      BY <3>1
  <2> HIDE DEF U, after, first
  <2> QED
    BY <2>2, <2>3
<1>5. Ordered(all, Size) /\ UpTo(all, index)
  <2>1. PICK T : first \in Seq(T)
    BY <1>3
  <2>2. CASE index + 1 < Size /\ Char(index + 1) \in {Comma, Newline}
    <3>1. all = Append(first, EmptyField(index))
      <4> HIDE DEF first
      <4> QED
        BY <2>1, <2>2
    <3>2. Token(EmptyField(index)) /\ EmptyField(index).at = index /\ After(EmptyField(index)) = index
      BY <1>1, EmptyIsToken
    <3>3. index <= Size
      BY <1>1
    <3> HIDE DEF all, first
    <3> QED
      BY <1>1, <1>3, <2>1, <3>1, <3>2, <3>3, OneMore
  <2>3. CASE ~(index + 1 < Size /\ Char(index + 1) \in {Comma, Newline})
    <3>1. all = first
      <4> HIDE DEF first
      <4> QED
        BY <2>1, <2>3
    <3> HIDE DEF all, first
    <3> QED
      BY <1>3, <3>1
  <2> QED
    BY <2>2, <2>3
<1>6. tokens' = all
  <2>1. tokens' = tokens \o (before \o after)
    BY DEF TakeComma, EmptyFields
  <2>2. \E T : tokens \in Seq(T) /\ before \in Seq(T) /\ after \in Seq(T)
    <3> DEFINE T == S \cup {EmptyField(index - 1), EmptyField(index)}
    <3>1. tokens \in Seq(T)
      BY <1>2
    <3>2. <<EmptyField(index - 1)>> \in Seq(T) /\ <<EmptyField(index)>> \in Seq(T) /\ << >> \in Seq(T)
      OBVIOUS
    <3>3. before \in Seq(T) /\ after \in Seq(T)
      BY <3>2
    <3> HIDE DEF T, before, after
    <3> QED
      BY <3>1, <3>3
  <2> HIDE DEF before, after
  <2>3. tokens \o (before \o after) = (tokens \o before) \o after
    BY <2>2
  <2> QED
    BY <2>1, <2>3
<1>7. index' = index + 1 /\ Size' = Size
  BY DEF TakeComma, Size
<1>8. file' = file /\ file.text[index + 1] = Comma
  BY <1>1 DEF Char
<1>9. Reached' = index + 1
  <2>1. Comma # Newline
    BY DistinctMarks
  <2>2. index' - 1 + 1 = index + 1 /\ index + 1 - 1 = index
    BY <1>1, <1>7
  <2>3. file'.text[index' - 1 + 1] = Comma
    BY <1>8, <2>2
  <2> QED
    BY <1>1, <1>7, <2>1, <2>2, <2>3 DEF Reached, Char
<1> HIDE DEF all, first, before, after
<1>10. UpTo(all, index + 1)
  <2>1. index + 1 \in Nat /\ index <= index + 1
    BY <1>1
  <2>2. PICK T : all \in Seq(T)
    BY <1>4
  <2> QED
    BY <1>1, <1>5, <2>1, <2>2, UpToMore
<1> QED
  BY <1>1, <1>4, <1>5, <1>6, <1>7, <1>9, <1>10 DEF Placed

LEMMA NewlinePlaces ==
  ASSUME Placed, TakeNewline, UNCHANGED file
  PROVE  Placed'
<1>1. CASE Fails
  BY <1>1 DEF Placed, Fails, lexing, Reached, Size, Char
<1>2. CASE index' = index + 1 /\ tokens' = tokens
  <2>1. Size \in Nat /\ index \in Nat /\ index < Size /\ Char(index) = Newline
    BY DEF Placed, TakeNewline, At
  <2>2. Size' = Size /\ file' = file
    BY DEF Size
  <2>3. Reached' = index
    <3>1. index' - 1 + 1 = index + 1 /\ index + 1 - 1 = index
      BY <1>2, <2>1
    <3>2. file.text[index' - 1 + 1] = Newline
      BY <2>1, <3>1 DEF Char
    <3> QED
      BY <1>2, <2>1, <2>2, <3>1, <3>2 DEF Reached, Char
  <2>4. PICK S : tokens \in Seq(S)
    BY DEF Placed
  <2>5. UpTo(tokens, index)
    <3>1. Reached \in Nat /\ Reached <= index /\ UpTo(tokens, Reached) /\ Ordered(tokens, Size)
      BY <2>1, ReachedIs DEF Placed
    <3> QED
      BY <2>1, <2>4, <3>1, UpToMore
  <2> QED
    BY <1>2, <2>1, <2>2, <2>3, <2>4, <2>5 DEF Placed
<1> QED
  BY <1>1, <1>2 DEF TakeNewline

\* A token taken up to the place where the reader goes on, which no newline is in front of.
LEMMA TakesPlaces ==
  ASSUME Placed, index \in Nat, UNCHANGED file, NEW token, NEW size \in Nat, Takes(token, size),
         Token(token), index <= token.at, After(token) <= Size, After(token) <= index + size,
         ~(index + size > 0 /\ index + size <= Size /\ Char(index + size - 1) = Newline)
  PROVE  Placed'
<1>1. PICK S : tokens \in Seq(S)
  BY DEF Placed
<1>2. Size \in Nat /\ index \in Nat /\ Ordered(tokens, Size)
  BY DEF Placed
<1>3. UpTo(tokens, index)
  <2>1. Reached \in Nat /\ Reached <= index /\ UpTo(tokens, Reached)
    BY <1>2, ReachedIs DEF Placed
  <2> QED
    BY <1>1, <1>2, <2>1, UpToMore
<1>4. /\ \E T : Append(tokens, token) \in Seq(T)
      /\ Ordered(Append(tokens, token), Size)
      /\ UpTo(Append(tokens, token), After(token))
  BY <1>1, <1>2, <1>3, OneMore
<1>5. index' = index + size /\ tokens' = Append(tokens, token) /\ Size' = Size
  BY DEF Takes, Size
<1>6. Reached' = index + size
  <2>1. \A n : Char(n)' = file'.text[n' + 1]
    BY DEF Char
  <2> QED
    BY <1>2, <1>5 DEF Reached, Char
<1>7. UpTo(tokens', index + size)
  <2>1. After(token) \in Nat /\ index + size \in Nat
    BY <1>2 DEF Token, After
  <2>2. PICK T : Append(tokens, token) \in Seq(T)
    BY <1>4
  <2> QED
    BY <1>4, <1>5, <2>1, <2>2, UpToMore
<1> QED
  BY <1>2, <1>4, <1>5, <1>6, <1>7 DEF Placed

LEMMA LeastOf ==
  ASSUME NEW S, S \subseteq Nat, S # {}
  PROVE  Min(S) \in S /\ \A n \in S : Min(S) <= n
<1>1. PICK m \in S : \A n \in S : ~(<<n, m>> \in OpToRel(<, Nat))
  BY NatLessThanWellFounded, WFMin
<1>2. \A n \in S : ~(n < m)
  BY <1>1, Zenon DEF OpToRel
<1>3. \A n \in S : m <= n
  BY <1>2
<1> QED
  BY <1>3 DEF Min

LEMMA QuotedPlaces ==
  ASSUME Placed, TakeQuoted, UNCHANGED file
  PROVE  Placed'
<1>1. Size \in Nat /\ index \in Nat /\ index < Size /\ Char(index) = Quote
  BY DEF Placed, TakeQuoted, At
<1>2. CASE Fails
  BY <1>2 DEF Placed, Fails, lexing, Reached, Size, Char
<1>3. CASE index + 1 = Size /\ Takes(EmptyField(index + 1), 2)
  <2>1. /\ Token(EmptyField(index + 1)) /\ EmptyField(index + 1).at = index + 1
        /\ After(EmptyField(index + 1)) = index + 1
    BY <1>1, EmptyIsToken
  <2>2. index + 2 > Size
    BY <1>1, <1>3
  <2> DEFINE t == EmptyField(index + 1)
  <2>3. Token(t) /\ index <= t.at /\ After(t) <= Size /\ After(t) <= index + 2 /\ Takes(t, 2)
    BY <1>1, <1>3, <2>1
  <2> HIDE DEF t
  <2> QED
    BY <1>1, <2>2, <2>3, TakesPlaces
<1>4. ASSUME Closing(index) # {},
             Takes([at |-> index + 1, length |-> Min(Closing(index)) - index - 1],
                   Min(Closing(index)) - index + 1)
      PROVE  Placed'
  <2> DEFINE last == Min(Closing(index))
             t == [at |-> index + 1, length |-> last - index - 1]
  <2>1. Closing(index) \subseteq Nat
    BY <1>1 DEF Closing
  <2>2. last \in Closing(index)
    BY <1>4, <2>1, LeastOf
  <2>3. last \in index + 1..Size - 1 /\ Char(last) = Quote
    BY <2>2 DEF Closing
  <2> HIDE DEF last
  <2>4. Token(t) /\ index <= t.at /\ After(t) = last
    BY <1>1, <2>3 DEF Token, After
  <2>5. index + (last - index + 1) - 1 = last /\ last - index + 1 \in Nat /\ last <= Size
        /\ last <= index + (last - index + 1)
    BY <1>1, <2>3
  <2>6. Char(last) # Newline
    BY <2>3, DistinctMarks
  <2>7. Takes(t, last - index + 1)
    BY <1>4 DEF last
  <2> HIDE DEF t
  <2> DEFINE size == last - index + 1
  <2>8. size \in Nat /\ index + size - 1 = last /\ After(t) <= Size /\ After(t) <= index + size /\ Takes(t, size)
    BY <2>4, <2>5, <2>7
  <2> HIDE DEF size
  <2> QED
    BY <1>1, <2>4, <2>8, <2>6, TakesPlaces
<1> QED
  BY <1>2, <1>3, <1>4 DEF TakeQuoted

LEMMA FieldPlaces ==
  ASSUME Placed, TakeField, UNCHANGED file
  PROVE  Placed'
<1>1. Size \in Nat /\ index \in Nat /\ index < Size /\ Char(index) \in OtherChars
  BY DEF Placed, TakeField, At
<1>2. CASE Fails
  BY <1>2 DEF Placed, Fails, lexing, Reached, Size, Char
<1> DEFINE stops == {n \in index + 1..Size - 1 : Char(n) \in {Comma, Newline, Quote}}
           last == Min({Size} \cup stops)
           t == [at |-> index, length |-> last - index]
<1>3. ASSUME Takes(t, last - index)
      PROVE  Placed'
  <2>1. {Size} \cup stops \subseteq Nat
    BY <1>1
  <2>2. last \in {Size} \cup stops /\ \A n \in {Size} \cup stops : last <= n
    <3> HIDE DEF stops
    <3> QED
      BY <2>1, LeastOf
  <2>3. last \in index + 1..Size
    BY <1>1, <2>2
  <2>4. \A n \in index + 1..last - 1 : Char(n) # Newline
    <3> SUFFICES ASSUME NEW n \in index + 1..last - 1, Char(n) = Newline PROVE FALSE
      OBVIOUS
    <3>1. n \in stops
      <4> HIDE DEF last
      <4> QED
        BY <1>1, <2>3
    <3> HIDE DEF stops, last
    <3> QED
      BY <1>1, <2>2, <2>3, <3>1
  <2>5. Char(index) # Newline
    BY <1>1, ConstantsAssumption
  <2> HIDE DEF last, stops
  <2>6. last - 1 \in index..last - 1 /\ Char(last - 1) # Newline
    <3>1. CASE last - 1 = index
      BY <1>1, <2>3, <2>5, <3>1
    <3>2. CASE last - 1 # index
      BY <1>1, <2>3, <2>4, <3>2
    <3> QED
      BY <3>1, <3>2
  <2>7. Token(t) /\ index <= t.at /\ After(t) = last
    BY <1>1, <2>3 DEF Token, After
  <2> DEFINE size == last - index
  <2>8. size \in Nat /\ index + size = last /\ After(t) <= Size /\ After(t) <= index + size
    BY <1>1, <2>3, <2>7
  <2>9. Takes(t, size)
    BY <1>3
  <2> HIDE DEF size, t
  <2> QED
    BY <1>1, <2>6, <2>7, <2>8, <2>9, TakesPlaces
<1> QED
  BY <1>2, <1>3 DEF TakeField

LEMMA FileStays == [Next]_vars => UNCHANGED file
BY DEF Next, Tokenize, ParseHeaders, ReadString, ReadIntegral, ReadFloat, NextRow, End, vars

LEMMA PlacedAtFirst == Init => Placed
<1> SUFFICES ASSUME Init PROVE Placed
  OBVIOUS
<1>1. file \in Files /\ index \in Int /\ tokens = <<>>
  BY ConstantsAssumption DEF Init
<1>2. Size \in Nat
  BY <1>1, ConstantsAssumption DEF Size
<1>3. tokens \in Seq({}) /\ Len(tokens) = 0
  BY <1>1
<1> QED
  BY <1>1, <1>2, <1>3 DEF Placed, Ordered, UpTo

LEMMA StepPlaces == Placed /\ [Next]_vars => Placed'
<1> SUFFICES ASSUME Placed, [Next]_vars PROVE Placed'
  OBVIOUS
<1>1. UNCHANGED file
  BY FileStays
<1>2. CASE TakeComma
  BY <1>1, <1>2, CommaPlaces
<1>3. CASE TakeNewline
  BY <1>1, <1>3, NewlinePlaces
<1>4. CASE TakeQuoted
  BY <1>1, <1>4, QuotedPlaces
<1>5. CASE TakeField
  BY <1>1, <1>5, FieldPlaces
<1>6. CASE UNCHANGED <<file, index, tokens>>
  BY <1>6 DEF Placed, Reached, Size, Char
<1> QED
  BY <1>2, <1>3, <1>4, <1>5, <1>6
  DEF Next, Tokenize, BeforeContents, Tokenized, ParseHeaders, ReadString, ReadIntegral, ReadFloat, NextRow, End, vars, lexing

\* For any file, whatever the locals that nothing sets start as: the tokens are parts of
\* the file, in its order, and none overlaps another.
THEOREM TokensAreParts == Spec => []TokensInOrder
<1>1. Placed => TokensInOrder
  BY OrderedInOrder DEF Placed
<1> QED
  BY <1>1, PlacedAtFirst, StepPlaces, PTL DEF Spec

-----------------------------------------------------------------------------
(* CSV: what was written is what is read.  First the quotes that stand     *)
(* doubled in a cell.                                                      *)

Quotes(s, n) == Cardinality({m \in 1..n : s[m] = Quote})

\* A cell as it stands between quotes, or as it is if it has no quotes.
Inside(s, cell) ==
  /\ Len(s) = Doubled(cell, Len(cell))
  /\ \A n \in 1..Len(cell) : s[Doubled(cell, n)] = cell[n]
                            /\ (cell[n] = Quote => s[Doubled(cell, n) - 1] = Quote)

LEMMA QuotesCounted ==
  ASSUME NEW s, NEW n \in Nat
  PROVE  /\ Quotes(s, n) \in Nat
         /\ IsFiniteSet({m \in 1..n : s[m] = Quote})
<1>1. IsFiniteSet(1..n)
  BY FS_Interval
<1>2. {m \in 1..n : s[m] = Quote} \subseteq 1..n
  OBVIOUS
<1>3. IsFiniteSet({m \in 1..n : s[m] = Quote})
  BY <1>1, <1>2, FS_Subset
<1> QED
  BY <1>3, FS_CardinalityType DEF Quotes

LEMMA QuotesNone == \A s : Quotes(s, 0) = 0
<1>1. \A s : {m \in 1..0 : s[m] = Quote} = {}
  OBVIOUS
<1> QED
  BY <1>1, FS_EmptySet DEF Quotes

LEMMA QuotesOneMore ==
  ASSUME NEW s, NEW n \in Nat
  PROVE  /\ s[n + 1] = Quote => Quotes(s, n + 1) = Quotes(s, n) + 1
         /\ s[n + 1] # Quote => Quotes(s, n + 1) = Quotes(s, n)
<1> DEFINE T(k) == {m \in 1..k : s[m] = Quote}
<1>1. CASE s[n + 1] = Quote
  <2>1. T(n + 1) = T(n) \cup {n + 1} /\ n + 1 \notin T(n)
    BY <1>1
  <2>2. IsFiniteSet(T(n))
    BY QuotesCounted
  <2>3. Cardinality(T(n) \cup {n + 1}) = Cardinality(T(n)) + 1
    BY <2>1, <2>2, FS_AddElement
  <2> QED
    BY <1>1, <2>1, <2>3 DEF Quotes
<1>2. CASE s[n + 1] # Quote
  <2>1. T(n + 1) = T(n)
    BY <1>2
  <2> QED
    BY <1>2, <2>1 DEF Quotes
<1> QED
  BY <1>1, <1>2

LEMMA DoubledIs ==
  ASSUME NEW cell, NEW n \in Nat
  PROVE  /\ Doubled(cell, n) = n + Quotes(cell, n)
         /\ Doubled(cell, n) \in Nat
         /\ Doubled(cell, 0) = 0
<1>1. Doubled(cell, n) = n + Quotes(cell, n) /\ Doubled(cell, 0) = 0 + Quotes(cell, 0)
  BY DEF Doubled, Quotes
<1>2. Quotes(cell, n) \in Nat
  BY QuotesCounted
<1>3. Quotes(cell, 0) = 0
  BY QuotesNone
<1> QED
  BY <1>1, <1>2, <1>3

LEMMA DoubledOneMore ==
  ASSUME NEW cell, NEW n \in Nat
  PROVE  /\ cell[n + 1] = Quote => Doubled(cell, n + 1) = Doubled(cell, n) + 2
         /\ cell[n + 1] # Quote => Doubled(cell, n + 1) = Doubled(cell, n) + 1
<1>1. Doubled(cell, n) = n + Quotes(cell, n)
  BY DoubledIs
<1>2. n + 1 \in Nat
  OBVIOUS
<1>3. Doubled(cell, n + 1) = n + 1 + Quotes(cell, n + 1)
  BY <1>2, DoubledIs
<1>4. Quotes(cell, n) \in Nat
  BY QuotesCounted
<1> QED
  BY <1>1, <1>3, <1>4, QuotesOneMore

LEMMA DoubledGrows ==
  ASSUME NEW cell, NEW n \in Nat, NEW m \in Nat, n < m
  PROVE  Doubled(cell, n) < Doubled(cell, m)
<1> DEFINE T(k) == {j \in 1..k : cell[j] = Quote}
<1>1. T(n) \subseteq T(m)
  OBVIOUS
<1>2. IsFiniteSet(T(m))
  BY QuotesCounted
<1>3. Cardinality(T(n)) <= Cardinality(T(m))
  BY <1>1, <1>2, FS_Subset
<1>4. Quotes(cell, n) <= Quotes(cell, m)
  BY <1>3 DEF Quotes
<1>5. Quotes(cell, n) \in Nat /\ Quotes(cell, m) \in Nat
  BY QuotesCounted
<1>6. Doubled(cell, n) = n + Quotes(cell, n) /\ Doubled(cell, m) = m + Quotes(cell, m)
  BY DoubledIs
<1> QED
  BY <1>4, <1>5, <1>6

\* Each place of a cell as it stands is that of a character, or of the first of two quotes.
LEMMA PlacesReached ==
  ASSUME NEW cell, NEW k \in Nat, NEW p \in 1..Doubled(cell, k)
  PROVE  \E n \in 1..k : \/ p = Doubled(cell, n)
                         \/ cell[n] = Quote /\ p = Doubled(cell, n) - 1
<1> DEFINE S == {n \in Nat : p <= Doubled(cell, n)}
<1>1. k \in S /\ S \subseteq Nat /\ Doubled(cell, k) \in Nat
  BY DoubledIs
<1> DEFINE n == Min(S)
<1>2. n \in S /\ \A j \in S : n <= j
  <2> HIDE DEF S
  <2> QED
    BY <1>1, LeastOf
<1>3. n \in Nat /\ n <= k /\ p <= Doubled(cell, n)
  BY <1>1, <1>2
<1> HIDE DEF n
<1>4. n # 0
  BY <1>1, <1>3, DoubledIs
<1> DEFINE l == n - 1
<1>5. l \in Nat /\ n = l + 1
  BY <1>3, <1>4
<1>6. ~(p <= Doubled(cell, l))
  BY <1>2, <1>5
<1>7. Doubled(cell, l) \in Nat /\ p \in Nat
  BY <1>5, DoubledIs
<1>8. /\ cell[n] = Quote => Doubled(cell, n) = Doubled(cell, l) + 2
      /\ cell[n] # Quote => Doubled(cell, n) = Doubled(cell, l) + 1
  BY <1>5, DoubledOneMore
<1> HIDE DEF S, l
<1>9. n \in 1..k
  BY <1>3, <1>4
<1>10. p = Doubled(cell, n) \/ (cell[n] = Quote /\ p = Doubled(cell, n) - 1)
  BY <1>3, <1>6, <1>7, <1>8
<1> QED
  BY <1>9, <1>10

\* Up to the place of a character there are twice the quotes there are in the cell.
LEMMA QuotesInside ==
  ASSUME NEW s, NEW cell, Len(cell) \in Nat, Inside(s, cell), NEW n \in 0..Len(cell)
  PROVE  Quotes(s, Doubled(cell, n)) = 2 * Quotes(cell, n)
<1> DEFINE S == {k \in 0..Len(cell) : Quotes(s, Doubled(cell, k)) # 2 * Quotes(cell, k)}
<1> SUFFICES ASSUME S # {} PROVE FALSE
  OBVIOUS
<1> DEFINE k == Min(S)
<1>1. k \in S /\ \A j \in S : k <= j
  <2>1. S \subseteq Nat
    OBVIOUS
  <2> HIDE DEF S
  <2> QED
    BY <2>1, LeastOf
<1>2. k \in 0..Len(cell) /\ Quotes(s, Doubled(cell, k)) # 2 * Quotes(cell, k)
  BY <1>1
<1> HIDE DEF k
<1>3. k # 0
  BY <1>2, DoubledIs, QuotesNone
<1> DEFINE l == k - 1
<1>4. l \in 0..Len(cell) /\ k = l + 1 /\ l \in Nat
  BY <1>2, <1>3
<1>5. l \notin S
  <2>1. ~(k <= l)
    BY <1>4
  <2> QED
    BY <1>1, <2>1
<1>6. Quotes(s, Doubled(cell, l)) = 2 * Quotes(cell, l)
  BY <1>4, <1>5
<1> HIDE DEF S, l
<1>7. Doubled(cell, l) \in Nat /\ Quotes(cell, l) \in Nat
  BY <1>4, DoubledIs, QuotesCounted
<1>8. k \in 1..Len(cell)
  BY <1>2, <1>3
<1>9. s[Doubled(cell, k)] = cell[k] /\ (cell[k] = Quote => s[Doubled(cell, k) - 1] = Quote)
  BY <1>8 DEF Inside
<1> DEFINE e == Doubled(cell, l)
<1>10. CASE cell[k] = Quote
  <2>1. Doubled(cell, k) = e + 2 /\ Quotes(cell, k) = Quotes(cell, l) + 1
    BY <1>4, <1>10, DoubledOneMore, QuotesOneMore
  <2>2. s[e + 2] = Quote /\ s[e + 1] = Quote
    <3>1. e \in Nat
      BY <1>7
    <3> HIDE DEF e
    <3>2. Doubled(cell, k) - 1 = e + 1
      BY <2>1, <3>1
    <3>3. s[Doubled(cell, k)] = Quote /\ s[Doubled(cell, k) - 1] = Quote
      BY <1>9, <1>10
    <3> QED
      BY <2>1, <3>2, <3>3, Zenon
  <2>3. Quotes(s, e + 1) = Quotes(s, e) + 1
    BY <1>7, <2>2, QuotesOneMore
  <2>4. Quotes(s, e + 2) = Quotes(s, e + 1) + 1
    <3> DEFINE g == e + 1
    <3>1. g \in Nat /\ g + 1 = e + 2
      BY <1>7
    <3> HIDE DEF g
    <3>2. s[g + 1] = Quote
      BY <2>2, <3>1
    <3>3. Quotes(s, g + 1) = Quotes(s, g) + 1
      BY <3>1, <3>2, QuotesOneMore
    <3> QED
      BY <3>1, <3>3 DEF g
  <2> HIDE DEF e
  <2> QED
    BY <1>2, <1>6, <1>7, <2>1, <2>3, <2>4 DEF e
<1>11. CASE cell[k] # Quote
  <2>1. Doubled(cell, k) = e + 1 /\ Quotes(cell, k) = Quotes(cell, l)
    BY <1>4, <1>11, DoubledOneMore, QuotesOneMore
  <2>2. s[e + 1] # Quote
    BY <1>9, <1>11, <2>1
  <2>3. Quotes(s, e + 1) = Quotes(s, e)
    BY <1>7, <2>2, QuotesOneMore
  <2> QED
    BY <1>2, <1>6, <2>1, <2>3
<1> QED
  BY <1>10, <1>11

LEMMA TwiceIsEven == \A n \in Nat : (2 * n) % 2 = 0 /\ (n > 0 => (2 * n - 1) % 2 = 1)
  OBVIOUS

\* A place is a character's, with all quotes so far in pairs, or it has the first of two.
LEMMA QuotesAt ==
  ASSUME NEW s, NEW cell, Len(cell) \in Nat, Inside(s, cell), NEW p \in 1..Len(s)
  PROVE  \/ /\ \E n \in 1..Len(cell) : p = Doubled(cell, n)
            /\ Quotes(s, p) % 2 = 0
         \/ /\ s[p] = Quote /\ s[p + 1] = Quote /\ p + 1 <= Len(s)
            /\ Quotes(s, p) % 2 = 1
<1>1. Len(s) = Doubled(cell, Len(cell))
  BY DEF Inside
<1>2. PICK n \in 1..Len(cell) : \/ p = Doubled(cell, n)
                                \/ cell[n] = Quote /\ p = Doubled(cell, n) - 1
  BY <1>1, PlacesReached
<1>3. Quotes(s, Doubled(cell, n)) = 2 * Quotes(cell, n)
  BY QuotesInside
<1>4. Quotes(cell, n) \in Nat
  <2>1. n \in Nat
    OBVIOUS
  <2> QED
    BY <2>1, QuotesCounted
<1>5. CASE p = Doubled(cell, n)
  <2>1. Quotes(s, p) % 2 = 0
    BY <1>3, <1>4, <1>5, TwiceIsEven
  <2> QED
    BY <1>5, <2>1
<1>6. CASE cell[n] = Quote /\ p = Doubled(cell, n) - 1
  <2>1. s[Doubled(cell, n)] = Quote /\ s[Doubled(cell, n) - 1] = Quote
    BY <1>6 DEF Inside
  <2>2. p \in Nat /\ Doubled(cell, n) = p + 1
    BY <1>6, DoubledIs
  <2>3. s[p] = Quote /\ s[p + 1] = Quote
    BY <1>6, <2>1, <2>2
  <2>4. Quotes(s, p + 1) = Quotes(s, p) + 1
    BY <2>2, <2>3, QuotesOneMore
  <2>5. Quotes(s, p) = 2 * Quotes(cell, n) - 1 /\ Quotes(s, p) \in Nat
    <3>1. Quotes(s, p) \in Nat
      BY <2>2, QuotesCounted
    <3> QED
      BY <1>3, <1>4, <2>2, <2>4, <3>1
  <2>6. Quotes(s, p) % 2 = 1
    BY <1>4, <2>5, TwiceIsEven
  <2>7. p + 1 <= Len(s)
    <3>1. CASE n = Len(cell)
      BY <1>1, <2>2, <3>1
    <3>2. CASE n < Len(cell)
      <4>1. Doubled(cell, n) < Doubled(cell, Len(cell))
        BY <3>2, DoubledGrows
      <4>2. Doubled(cell, Len(cell)) \in Nat
        BY DoubledIs
      <4> QED
        BY <1>1, <2>2, <4>1, <4>2
    <3> QED
      BY <3>1, <3>2
  <2> QED
    BY <2>3, <2>6, <2>7
<1> QED
  BY <1>2, <1>5, <1>6

LEMMA LengthIsInside ==
  ASSUME NEW s, NEW cell, Len(cell) \in Nat, Inside(s, cell), NEW n \in 1..Len(cell)
  PROVE  Doubled(cell, n) \in 1..Len(s)
<1>1. Len(s) = Doubled(cell, Len(cell)) /\ Len(s) \in Nat
  BY DoubledIs DEF Inside
<1>2. Doubled(cell, n) \in Nat /\ Doubled(cell, n) >= n
  <2>1. n \in Nat
    OBVIOUS
  <2>2. Doubled(cell, n) = n + Quotes(cell, n) /\ Quotes(cell, n) \in Nat
    BY <2>1, DoubledIs, QuotesCounted
  <2> QED
    BY <2>2
<1>3. CASE n = Len(cell)
  BY <1>1, <1>2, <1>3
<1>4. CASE n < Len(cell)
  <2>1. Doubled(cell, n) < Doubled(cell, Len(cell))
    BY <1>4, DoubledGrows
  <2> QED
    BY <1>1, <1>2, <2>1
<1> QED
  BY <1>3, <1>4

\* What csv_string makes of a cell as it stands is the cell.
LEMMA UnescapedIs ==
  ASSUME NEW S, NEW cell \in Seq(S), NEW s, Inside(s, cell)
  PROVE  Unescaped(s) = cell
<1> DEFINE size == Len(cell)
           D(n) == Doubled(cell, n)
           kept == {n \in 1..Len(s) : Cardinality({m \in 1..n : s[m] = Quote}) % 2 = 0}
           upto(k) == {m \in kept : m <= D(k)}
           nth(k) == CHOOSE n \in kept : Cardinality({m \in kept : m <= n}) = k
<1>1. size \in Nat
  OBVIOUS
<1>2. kept = {n \in 1..Len(s) : Quotes(s, n) % 2 = 0}
  BY DEF Quotes
<1>3. \A n \in 1..size : D(n) \in kept
  <2> TAKE n \in 1..size
  <2>1. D(n) \in 1..Len(s)
    BY <1>1, LengthIsInside
  <2>2. Quotes(s, D(n)) = 2 * Quotes(cell, n) /\ Quotes(cell, n) \in Nat
    <3>1. n \in 0..Len(cell) /\ n \in Nat
      OBVIOUS
    <3>2. Quotes(s, Doubled(cell, n)) = 2 * Quotes(cell, n)
      BY <1>1, <3>1, QuotesInside
    <3> QED
      BY <3>1, <3>2, QuotesCounted
  <2>3. Quotes(s, D(n)) % 2 = 0
    BY <2>2, TwiceIsEven
  <2> HIDE DEF kept, D
  <2> QED
    BY <1>2, <2>1, <2>3
<1>4. \A p \in kept : \E n \in 1..size : p = D(n)
  <2> TAKE p \in kept
  <2>1. p \in 1..Len(s) /\ Quotes(s, p) % 2 = 0
    BY <1>2
  <2>2. 0 # 1
    OBVIOUS
  <2> HIDE DEF kept
  <2> QED
    BY <1>1, <2>1, <2>2, QuotesAt
<1>5. \A n, m \in 1..size : n < m => D(n) < D(m)
  BY <1>1, DoubledGrows
<1>6. \A n \in 1..size : D(n) \in Nat
  BY DoubledIs
<1> HIDE DEF D, kept
<1>7. \A k \in 1..size : upto(k) = {D(n) : n \in 1..k}
  <2> TAKE k \in 1..size
  <2>1. ASSUME NEW p \in upto(k) PROVE p \in {D(n) : n \in 1..k}
    <3>1. PICK n \in 1..size : p = D(n)
      BY <1>4
    <3>2. ~(k < n)
      <4> SUFFICES ASSUME k < n PROVE FALSE
        OBVIOUS
      <4>1. D(k) < D(n)
        BY <1>5
      <4>2. D(n) <= D(k)
        BY <3>1
      <4> QED
        BY <1>6, <4>1, <4>2
    <3> QED
      BY <1>1, <3>1, <3>2
  <2>2. ASSUME NEW n \in 1..k PROVE D(n) \in upto(k)
    <3>1. n \in 1..size /\ D(n) \in kept
      BY <1>1, <1>3
    <3>2. n = k \/ D(n) < D(k)
      BY <1>1, <1>5, <3>1
    <3>3. D(n) \in Nat /\ D(k) \in Nat
      BY <1>6, <3>1
    <3>4. D(n) <= D(k)
      BY <3>2, <3>3
    <3> QED
      BY <3>1, <3>4
  <2> QED
    BY <2>1, <2>2
<1>8. \A k \in 1..size : Cardinality(upto(k)) = k
  <2> TAKE k \in 1..size
  <2>1. k \in Nat /\ IsFiniteSet(1..k) /\ Cardinality(1..k) = k
    <3>1. k \in Nat
      BY <1>1
    <3> QED
      BY <3>1, FS_Interval
  <2> DEFINE f == [n \in 1..k |-> D(n)]
  <2>2. f \in Bijection(1..k, upto(k))
    <3>1. f \in [1..k -> upto(k)]
      BY <1>7
    <3>2. \A p \in upto(k) : \E n \in 1..k : f[n] = p
      <4> TAKE p \in upto(k)
      <4>1. PICK n \in 1..k : p = D(n)
        BY <1>7
      <4> QED
        BY <4>1
    <3>3. \A n, m \in 1..k : f[n] = f[m] => n = m
      <4> SUFFICES ASSUME NEW n \in 1..k, NEW m \in 1..k, D(n) = D(m) PROVE n = m
        OBVIOUS
      <4>1. n \in 1..size /\ m \in 1..size
        BY <1>1
      <4>2. ~(D(n) < D(m)) /\ ~(D(m) < D(n))
        BY <1>6, <4>1
      <4>3. ~(n < m) /\ ~(m < n)
        BY <1>5, <4>1, <4>2
      <4> QED
        BY <4>1, <4>3
    <3> HIDE DEF f
    <3>4. f \in Injection(1..k, upto(k)) /\ f \in Surjection(1..k, upto(k))
      BY <3>1, <3>2, <3>3 DEF Injection, Surjection, IsInjective
    <3> QED
      BY <3>4 DEF Bijection
  <2>3. ExistsBijection(1..k, upto(k))
    BY <2>2 DEF ExistsBijection
  <2> HIDE DEF upto, f
  <2> QED
    BY <2>1, <2>3, FS_Bijection
<1>9. \A k \in 1..size : nth(k) = D(k)
  <2> TAKE k \in 1..size
  <2>1. D(k) \in kept /\ Cardinality({m \in kept : m <= D(k)}) = k
    BY <1>3, <1>8
  <2>2. \A p \in kept : Cardinality({m \in kept : m <= p}) = k => p = D(k)
    <3> TAKE p \in kept
    <3>1. PICK n \in 1..size : p = D(n)
      BY <1>4
    <3>2. Cardinality({m \in kept : m <= p}) = n
      BY <1>8, <3>1
    <3> QED
      BY <3>1, <3>2
  <2> QED
    BY <2>1, <2>2
<1>10. Cardinality(kept) = size
  <2>1. CASE size = 0
    <3>1. kept = {}
      BY <1>4, <2>1
    <3> QED
      BY <2>1, <3>1, FS_EmptySet
  <2>2. CASE size # 0
    <3>1. size \in 1..size
      BY <1>1, <2>2
    <3>2. kept \subseteq upto(size)
      <4> SUFFICES ASSUME NEW p \in kept PROVE p <= D(size)
        OBVIOUS
      <4>1. PICK n \in 1..size : p = D(n)
        BY <1>4
      <4>2. n = size \/ D(n) < D(size)
        BY <1>1, <1>5, <3>1, <4>1
      <4> QED
        BY <1>6, <3>1, <4>1, <4>2
    <3>3. kept = upto(size)
      BY <3>2
    <3> QED
      BY <1>8, <3>1, <3>3
  <2> QED
    BY <2>1, <2>2
<1>11. \A k \in 1..size : s[D(k)] = cell[k]
  BY DEF Inside, D
<1>12. Unescaped(s) = [k \in 1..Cardinality(kept) |-> s[nth(k)]]
  BY DEF Unescaped, kept
<1>13. Unescaped(s) = [k \in 1..size |-> cell[k]]
  BY <1>9, <1>10, <1>11, <1>12
<1>14. cell = [k \in 1..size |-> cell[k]]
  OBVIOUS
<1> QED
  BY <1>13, <1>14

\* A cell with no quotes stands as it is, and one that stands with no quotes has none.
LEMMA PlainIs ==
  ASSUME NEW S, NEW cell \in Seq(S), NEW T, NEW s \in Seq(T), Inside(s, cell)
  PROVE  /\ Plain(cell) => s = cell
         /\ (\A n \in 1..Len(s) : s[n] # Quote) => Plain(cell)
<1>1. Len(cell) \in Nat
  OBVIOUS
<1>2. ASSUME Plain(cell) PROVE s = cell
  <2>1. \A n \in 0..Len(cell) : Doubled(cell, n) = n
    <3> TAKE n \in 0..Len(cell)
    <3>1. {m \in 1..n : cell[m] = Quote} = {}
      BY <1>1, <1>2 DEF Plain
    <3>2. Cardinality({m \in 1..n : cell[m] = Quote}) = 0
      BY <3>1, FS_EmptySet
    <3> QED
      BY <3>2 DEF Doubled
  <2>2. Len(s) = Len(cell) /\ \A n \in 1..Len(cell) : s[n] = cell[n]
    BY <1>1, <2>1 DEF Inside
  <2> QED
    BY <2>2
<1>3. ASSUME \A n \in 1..Len(s) : s[n] # Quote PROVE Plain(cell)
  <2> SUFFICES ASSUME NEW n \in 1..Len(cell) PROVE cell[n] # Quote
    BY DEF Plain
  <2>1. Doubled(cell, n) \in 1..Len(s)
    BY <1>1, LengthIsInside
  <2>2. s[Doubled(cell, n)] = cell[n]
    BY DEF Inside
  <2> QED
    BY <1>3, <2>1, <2>2
<1> QED
  BY <1>2, <1>3

-----------------------------------------------------------------------------
(* How a written file is laid out.                                         *)

Height == Len(file.cells)
Width == Len(file.cells[1])
Start(r, c) == Begins(file, r, c)
Break(r, c) == file.breaks[r][c]
Cell(r, c) == file.cells[r][c]
Marks == {Comma, Newline, Quote}
Signs == Marks \cup OtherChars

Bare(r, c) ==
  /\ \A p \in Start(r, c)..Break(r, c) - 1 : Char(p) \in OtherChars
  /\ Start(r, c) = Break(r, c) => Width > 1 /\ ~(r = 1 /\ c = 1)
  /\ Inside(SubSeq(file.text, Start(r, c) + 1, Break(r, c)), Cell(r, c))

InQuotes(r, c) ==
  /\ Start(r, c) + 2 <= Break(r, c)
  /\ Char(Start(r, c)) = Quote /\ Char(Break(r, c) - 1) = Quote
  /\ Inside(SubSeq(file.text, Start(r, c) + 2, Break(r, c) - 1), Cell(r, c))

Laid ==
  /\ Height \in Nat \ {0} /\ Width \in Nat \ {0} /\ Size \in Nat
  /\ file.text \in Seq(Signs)
  /\ Start(1, 1) = 0 /\ Break(Height, Width) = Size - 1
  /\ \A r \in 1..Height : Len(file.cells[r]) = Width
  /\ \A r \in 1..Height, c \in 1..Width :
       /\ Cell(r, c) \in Seq(Signs)
       /\ Start(r, c) \in Nat /\ Break(r, c) \in Nat
       /\ Start(r, c) <= Break(r, c) /\ Break(r, c) < Size
       /\ c < Width => Start(r, c + 1) = Break(r, c) + 1
       /\ Start(r + 1, 1) = Break(r, Width) + 1
       /\ Char(Break(r, c)) = IF c = Width THEN Newline ELSE Comma
       /\ Bare(r, c) \/ InQuotes(r, c)

LEMMA PartOf ==
  ASSUME NEW S, NEW s \in Seq(S), NEW b \in Nat, NEW e \in Nat, b <= e, e <= Len(s)
  PROVE  /\ SubSeq(s, b + 1, e) \in Seq(S)
         /\ Len(SubSeq(s, b + 1, e)) = e - b
         /\ \A k \in 1..e - b : SubSeq(s, b + 1, e)[k] = s[b + k]
<1> DEFINE m == b + 1
<1>1. m \in Int /\ e \in Int /\ \A j \in m..e : s[j] \in S
  OBVIOUS
<1>2. m = b + 1 /\ e - m + 1 = e - b
  OBVIOUS
<1> HIDE DEF m
<1>3. /\ SubSeq(s, m, e) \in Seq(S)
      /\ Len(SubSeq(s, m, e)) = IF m <= e THEN e - m + 1 ELSE 0
      /\ \A k \in 1..e - m + 1 : SubSeq(s, m, e)[k] = s[m + k - 1]
  BY <1>1, SubSeqProperties
<1>4. \A k \in 1..e - b : SubSeq(s, m, e)[k] = s[b + k]
  <2> TAKE k \in 1..e - b
  <2>1. m + k - 1 = b + k
    BY <1>2
  <2> QED
    BY <1>2, <1>3, <2>1
<1>5. Len(SubSeq(s, m, e)) = e - b
  BY <1>2, <1>3
<1> QED
  BY <1>2, <1>3, <1>4, <1>5

LEMMA StartsAt ==
  ASSUME file.breaks \in Seq(Seq(Nat)), Width \in Nat \ {0}, Len(file.breaks) = Height,
         \A r \in 1..Height : Len(file.breaks[r]) = Width,
         NEW r \in 1..Height, NEW c \in 1..Width
  PROVE  /\ Start(1, 1) = 0
         /\ Start(r, c) \in Nat /\ Break(r, c) \in Nat
         /\ Start(r, c + 1) = Break(r, c) + 1
         /\ Start(r + 1, 1) = Break(r, Width) + 1
<1>1. \A q \in 1..Height : file.breaks[q] \in Seq(Nat) /\ Len(file.breaks[q]) = Width
  OBVIOUS
<1>2. \A q \in 1..Height, e \in 1..Width : Break(q, e) \in Nat
  <2> TAKE q \in 1..Height, e \in 1..Width
  <2>1. file.breaks[q] \in Seq(Nat) /\ Len(file.breaks[q]) = Width
    BY <1>1
  <2> DEFINE ends == file.breaks[q]
  <2>2. ends \in Seq(Nat) /\ e \in 1..Len(ends)
    BY <2>1
  <2> HIDE DEF ends
  <2>3. ends[e] \in Nat
    BY <2>2
  <2> QED
    BY <2>3 DEF Break, ends
<1>3. Start(1, 1) = 0
  BY DEF Start, Begins
<1>4. Start(r, c + 1) = Break(r, c) + 1
  <2>1. c + 1 > 1 /\ c + 1 - 1 = c
    OBVIOUS
  <2> QED
    BY <2>1 DEF Start, Begins, Break
<1>5. Start(r + 1, 1) = Break(r, Width) + 1
  <2>1. ~(1 > 1) /\ r + 1 > 1 /\ r + 1 - 1 = r
    OBVIOUS
  <2>2. Len(file.breaks[r]) = Width
    OBVIOUS
  <2> QED
    BY <2>1, <2>2 DEF Start, Begins, Break
<1>6. Start(r, c) \in Nat
  <2>1. CASE c > 1
    <3>1. c - 1 \in 1..Width
      BY <2>1
    <3>2. Start(r, c) = Break(r, c - 1) + 1
      BY <2>1 DEF Start, Begins, Break
    <3> QED
      BY <1>2, <3>1, <3>2
  <2>2. CASE ~(c > 1) /\ r > 1
    <3>1. r - 1 \in 1..Height /\ Width \in 1..Width
      BY <2>2
    <3>2. Len(file.breaks[r - 1]) = Width
      BY <3>1
    <3>3. Start(r, c) = Break(r - 1, Width) + 1
      BY <2>2, <3>2 DEF Start, Begins, Break
    <3>4. Break(r - 1, Width) \in Nat
      BY <1>2, <3>1
    <3> QED
      BY <3>3, <3>4
  <2>3. CASE ~(c > 1) /\ ~(r > 1)
    BY <2>3 DEF Start, Begins
  <2> QED
    BY <2>1, <2>2, <2>3
<1> QED
  BY <1>2, <1>3, <1>4, <1>5, <1>6

\* A cell with no marks in it stands as it is.
LEMMA BareIsInside ==
  ASSUME NEW S, NEW cell \in Seq(S), \A n \in 1..Len(cell) : cell[n] # Quote
  PROVE  Inside(cell, cell)
<1>1. \A n \in 0..Len(cell) : Doubled(cell, n) = n
  <2> TAKE n \in 0..Len(cell)
  <2>1. {m \in 1..n : cell[m] = Quote} = {}
    OBVIOUS
  <2>2. Cardinality({m \in 1..n : cell[m] = Quote}) = 0
    BY <2>1, FS_EmptySet
  <2> QED
    BY <2>2 DEF Doubled
<1>2. Len(cell) \in 0..Len(cell)
  OBVIOUS
<1>3. Doubled(cell, Len(cell)) = Len(cell)
  BY <1>1, <1>2
<1>4. \A n \in 1..Len(cell) : Doubled(cell, n) = n
  BY <1>1
<1> QED
  BY <1>3, <1>4 DEF Inside

\* Between the quotes, a cell stands.
LEMMA QuotedIsInside ==
  ASSUME NEW S, NEW s \in Seq(S), NEW cell, Len(cell) \in Nat, IsQuoted(s, cell),
         NEW inner \in Seq(S), Len(inner) = Len(s) - 2,
         \A k \in 1..Len(inner) : inner[k] = s[k + 1]
  PROVE  Inside(inner, cell)
<1>1. Len(s) = Doubled(cell, Len(cell)) + 2
  BY DEF IsQuoted
<1>2. Doubled(cell, Len(cell)) \in Nat
  BY DoubledIs
<1>3. Len(inner) = Doubled(cell, Len(cell))
  BY <1>1, <1>2
<1>4. ASSUME NEW n \in 1..Len(cell)
      PROVE  inner[Doubled(cell, n)] = cell[n] /\ (cell[n] = Quote => inner[Doubled(cell, n) - 1] = Quote)
  <2> DEFINE p == Doubled(cell, n)
             q == n - 1
  <2>1. q \in Nat /\ n = q + 1
    OBVIOUS
  <2>2. Doubled(cell, q) \in Nat /\ p \in Nat
    BY <2>1, DoubledIs
  <2>3. /\ cell[n] = Quote => p = Doubled(cell, q) + 2
        /\ cell[n] # Quote => p = Doubled(cell, q) + 1
    BY <2>1, DoubledOneMore
  <2>4. p <= Len(inner)
    <3>1. n = Len(cell) \/ p < Doubled(cell, Len(cell))
      <4>1. CASE n < Len(cell)
        <5>1. n \in Nat
          OBVIOUS
        <5> QED
          BY <4>1, <5>1, DoubledGrows
      <4> QED
        BY <4>1
    <3> QED
      BY <1>2, <1>3, <2>2, <3>1
  <2>5. s[p + 1] = cell[n] /\ (cell[n] = Quote => s[p] = Quote)
    BY DEF IsQuoted
  <2> HIDE DEF p, q
  <2>6. inner[p] = s[p + 1]
    <3>1. p \in 1..Len(inner)
      BY <1>3, <2>2, <2>3, <2>4
    <3> QED
      BY <3>1
  <2>7. ASSUME cell[n] = Quote PROVE inner[p - 1] = s[p]
    <3>1. p - 1 \in 1..Len(inner) /\ p - 1 + 1 = p
      BY <1>3, <2>2, <2>3, <2>4, <2>7
    <3> DEFINE o == p - 1
    <3>2. o \in 1..Len(inner) /\ o + 1 = p
      BY <3>1
    <3> HIDE DEF o
    <3>3. inner[o] = s[p]
      BY <3>2
    <3> QED
      BY <3>3 DEF o
  <2> QED
    BY <2>5, <2>6, <2>7 DEF p
<1> QED
  BY <1>3, <1>4 DEF Inside

LEMMA FileLaid ==
  ASSUME file \in Files, file.cells # <<>>
  PROVE  Laid
<1>1. IsWritten(file)
  BY WritingAssumption
<1>2. file.text \in Seq(Signs)
  BY ConstantsAssumption DEF Signs, Marks
<1>3. /\ Width > 0 /\ file.cells \in Seq(Seq(Seq(Signs)))
      /\ file.breaks \in Seq(Seq(Nat))
      /\ Len(file.breaks) = Height /\ Break(Height, Width) = Size - 1
      /\ \A r \in 1..Height : Len(file.cells[r]) = Width /\ Len(file.breaks[r]) = Width
      /\ \A r \in 1..Height, c \in 1..Width :
           /\ Break(r, c) \in Start(r, c)..Size - 1
           /\ file.text[Break(r, c) + 1] = IF c = Width THEN Newline ELSE Comma
           /\ \/ IsQuoted(WrittenCell(file, r, c), Cell(r, c))
              \/ /\ IsBare(WrittenCell(file, r, c), Cell(r, c))
                 /\ Cell(r, c) = <<>> => Width > 1 /\ <<r, c>> # <<1, 1>>
  BY <1>1 DEF IsWritten, Width, Height, Start, Break, Cell, Size, Signs, Marks
<1>4. Height \in Nat \ {0}
  BY <1>3 DEF Height
<1>5. Width \in Nat \ {0}
  <2>1. file.cells[1] \in Seq(Seq(Signs))
    BY <1>3, <1>4 DEF Height
  <2> QED
    BY <1>3, <2>1 DEF Width
<1>6. Size \in Nat
  BY <1>2 DEF Size
<1>7. \A r \in 1..Height, c \in 1..Width : Cell(r, c) \in Seq(Signs)
  <2> TAKE r \in 1..Height, c \in 1..Width
  <2>1. file.cells[r] \in Seq(Seq(Signs)) /\ Len(file.cells[r]) = Width
    BY <1>3 DEF Height
  <2> DEFINE written == file.cells[r]
  <2>2. written \in Seq(Seq(Signs)) /\ c \in 1..Len(written)
    BY <2>1
  <2> HIDE DEF written
  <2>3. written[c] \in Seq(Signs)
    BY <2>2
  <2> QED
    BY <2>3 DEF Cell, written
<1>8. \A r \in 1..Height, c \in 1..Width :
        /\ Start(1, 1) = 0
        /\ Start(r, c) \in Nat /\ Break(r, c) \in Nat
        /\ Start(r, c + 1) = Break(r, c) + 1
        /\ Start(r + 1, 1) = Break(r, Width) + 1
  BY <1>3, <1>5, StartsAt
<1>9. Start(1, 1) = 0
  <2>1. 1 \in 1..Height /\ 1 \in 1..Width
    BY <1>4, <1>5
  <2> QED
    BY <1>8, <2>1
<1>10. ASSUME NEW r \in 1..Height, NEW c \in 1..Width
       PROVE  Bare(r, c) \/ InQuotes(r, c)
  <2> DEFINE b == Start(r, c)
             e == Break(r, c)
             s == SubSeq(file.text, b + 1, e)
             cell == Cell(r, c)
  <2>1. b \in Nat /\ e \in Nat /\ b <= e /\ e < Size
    BY <1>3, <1>6, <1>8
  <2>2. s \in Seq(Signs) /\ Len(s) = e - b /\ \A k \in 1..e - b : s[k] = file.text[b + k]
    <3> HIDE DEF b, e
    <3>1. e <= Len(file.text)
      BY <1>6, <2>1 DEF Size
    <3> QED
      BY <1>2, <2>1, <3>1, PartOf
  <2>3. cell \in Seq(Signs) /\ Len(cell) \in Nat
    BY <1>7
  <2>4. \/ IsQuoted(s, cell)
        \/ IsBare(s, cell) /\ (cell = <<>> => Width > 1 /\ <<r, c>> # <<1, 1>>)
    BY <1>3 DEF WrittenCell, Start, Break
  <2>5. CASE IsQuoted(s, cell)
    <3> DEFINE inner == SubSeq(file.text, b + 2, e - 1)
    <3>1. Len(s) = Doubled(cell, Len(cell)) + 2 /\ s[1] = Quote /\ s[Len(s)] = Quote
      BY <2>5 DEF IsQuoted
    <3>2. Doubled(cell, Len(cell)) \in Nat
      BY <2>3, DoubledIs
    <3> HIDE DEF b, e, s, cell
    <3>3. b + 2 <= e
      BY <2>1, <2>2, <3>1, <3>2
    <3>4. /\ inner \in Seq(Signs) /\ Len(inner) = Len(s) - 2
          /\ \A k \in 1..Len(inner) : inner[k] = s[k + 1]
      <4> DEFINE o == b + 1
                 t == e - 1
      <4>1. o \in Nat /\ t \in Nat /\ o <= t /\ t <= Len(file.text) /\ o + 1 = b + 2
            /\ t - o = e - b - 2
        BY <1>6, <2>1, <3>3 DEF Size
      <4>2. o = b + 1
        OBVIOUS
      <4> HIDE DEF o, t
      <4>3. /\ SubSeq(file.text, o + 1, t) \in Seq(Signs)
            /\ Len(SubSeq(file.text, o + 1, t)) = t - o
            /\ \A k \in 1..t - o : SubSeq(file.text, o + 1, t)[k] = file.text[o + k]
        BY <1>2, <4>1, PartOf
      <4>4. inner = SubSeq(file.text, o + 1, t)
        BY <4>1 DEF t
      <4> HIDE DEF inner
      <4>5. inner \in Seq(Signs) /\ Len(inner) = Len(s) - 2
        BY <2>1, <2>2, <4>1, <4>3, <4>4
      <4>6. \A k \in 1..Len(inner) : inner[k] = s[k + 1]
        <5> TAKE k \in 1..Len(inner)
        <5> DEFINE j == k + 1
        <5>1. k \in 1..t - o /\ j \in 1..e - b /\ o + k = b + j
          BY <2>1, <2>2, <4>1, <4>2, <4>3, <4>4
        <5> HIDE DEF j
        <5>2. inner[k] = file.text[b + j]
          BY <4>3, <4>4, <5>1
        <5>3. s[j] = file.text[b + j]
          BY <2>2, <5>1
        <5> QED
          BY <5>2, <5>3 DEF j
      <4> QED
        BY <4>5, <4>6
    <3>5. Inside(inner, cell)
      <4> HIDE DEF inner
      <4> QED
        BY <2>2, <2>3, <2>5, <3>4, QuotedIsInside
    <3>6. Char(b) = Quote
      BY <2>1, <2>2, <3>1, <3>3 DEF Char
    <3>7. Char(e - 1) = Quote
      <4>1. e - b \in 1..e - b /\ b + (e - b) = e - 1 + 1
        BY <2>1, <3>3
      <4>2. s[e - b] = file.text[b + (e - b)]
        BY <2>2, <4>1
      <4> QED
        BY <2>2, <3>1, <4>1, <4>2 DEF Char
    <3>8. InQuotes(r, c)
      BY <3>3, <3>5, <3>6, <3>7 DEF InQuotes, b, e, cell
    <3> QED
      BY <3>8
  <2>6. CASE IsBare(s, cell) /\ (cell = <<>> => Width > 1 /\ <<r, c>> # <<1, 1>>)
    <3>1. s = cell /\ \A n \in 1..Len(cell) : cell[n] \notin Marks
      BY <2>6 DEF IsBare, Marks
    <3>2. Inside(s, cell)
      <4>1. \A n \in 1..Len(cell) : cell[n] # Quote
        BY <3>1 DEF Marks
      <4> HIDE DEF s, cell
      <4> QED
        BY <2>3, <3>1, <4>1, BareIsInside
    <3> HIDE DEF b, e, s, cell
    <3>3. ASSUME NEW p \in b..e - 1
          PROVE  Char(p) \in OtherChars
      <4> DEFINE k == p + 1 - b
      <4>1. k \in 1..e - b /\ b + k = p + 1
        BY <2>1
      <4> HIDE DEF k
      <4>2. s[k] = file.text[p + 1]
        BY <2>2, <4>1
      <4>3. s[k] \in Signs /\ s[k] \notin Marks
        BY <2>2, <3>1, <4>1
      <4> QED
        BY <4>2, <4>3 DEF Char, Signs
    <3>4. b = e => Width > 1 /\ ~(r = 1 /\ c = 1)
      <4> SUFFICES ASSUME b = e PROVE Width > 1 /\ ~(r = 1 /\ c = 1)
        OBVIOUS
      <4>1. Len(s) = 0
        BY <2>1, <2>2
      <4>2. cell = <<>>
        BY <2>3, <3>1, <4>1
      <4>3. Width > 1 /\ <<r, c>> # <<1, 1>>
        BY <2>6, <4>2
      <4> QED
        BY <4>3
    <3>5. Bare(r, c)
      BY <3>2, <3>3, <3>4 DEF Bare, b, e, s, cell
    <3> QED
      BY <3>5
  <2> QED
    BY <2>4, <2>5, <2>6
<1>11. \A r \in 1..Height, c \in 1..Width :
         /\ Start(r, c) <= Break(r, c) /\ Break(r, c) < Size
         /\ Char(Break(r, c)) = IF c = Width THEN Newline ELSE Comma
  BY <1>3, <1>6, <1>8 DEF Char
<1> QED
  BY <1>2, <1>3, <1>4, <1>5, <1>6, <1>7, <1>8, <1>9, <1>10, <1>11 DEF Laid

-----------------------------------------------------------------------------
(* What the reader has when it is at a cell.                               *)

\* The cells are numbered row by row.
Ordinal(r, c) == (r - 1) * Width + c

LEMMA OrdinalIs ==
  ASSUME Width \in Nat \ {0}, NEW n \in Nat, NEW c \in Nat
  PROVE  /\ Ordinal(n + 1, c) = n * Width + c /\ n * Width \in Nat
         /\ (n + 1) * Width = n * Width + Width
<1>1. n + 1 - 1 = n
  OBVIOUS
<1>2. Ordinal(n + 1, c) = n * Width + c
  BY <1>1 DEF Ordinal
<1> DEFINE w == Width
<1>3. w \in Nat
  OBVIOUS
<1> HIDE DEF w
<1>4. n * w \in Nat /\ (n + 1) * w = n * w + w
  BY <1>3, OneMoreLine, ProductOfCounts
<1> QED
  BY <1>2, <1>4 DEF w

LEMMA TimesGrows ==
  ASSUME NEW w \in Nat, NEW m \in Nat, NEW n \in Nat, m < n
  PROVE  m * w + w <= n * w /\ m * w \in Nat /\ n * w \in Nat
<1> DEFINE d == n - m - 1
<1>1. d \in Nat /\ n = (m + 1) + d
  OBVIOUS
<1> HIDE DEF d
<1>2. ((m + 1) + d) * w = (m + 1) * w + d * w
  BY <1>1
<1>3. (m + 1) * w = m * w + w
  BY OneMoreLine
<1>4. d * w \in Nat /\ m * w \in Nat /\ n * w \in Nat
  BY <1>1, ProductOfCounts
<1>5. n * w = m * w + w + d * w
  BY <1>1, <1>2, <1>3
<1> QED
  BY <1>4, <1>5

LEMMA OrdinalIsOnes ==
  ASSUME Width \in Nat \ {0}, NEW r \in Nat \ {0}, NEW s \in Nat \ {0},
         NEW c \in 1..Width, NEW e \in 1..Width, Ordinal(r, c) <= Ordinal(s, e)
  PROVE  r < s \/ (r = s /\ c <= e)
<1> DEFINE w == Width
           m == r - 1
           n == s - 1
<1>1. w \in Nat /\ m \in Nat /\ n \in Nat /\ c \in 1..w /\ e \in 1..w /\ r = m + 1 /\ s = n + 1
  OBVIOUS
<1>2. m * w + c <= n * w + e
  BY DEF Ordinal
<1> HIDE DEF w, m, n
<1>3. m * w \in Nat /\ n * w \in Nat
  BY <1>1, ProductOfCounts
<1>4. CASE n < m
  <2>1. n * w + w <= m * w
    BY <1>1, <1>4, TimesGrows
  <2> QED
    BY <1>1, <1>2, <1>3, <2>1
<1>5. CASE m = n
  BY <1>1, <1>2, <1>3, <1>5
<1>6. CASE m < n
  BY <1>1, <1>6
<1> QED
  BY <1>1, <1>4, <1>5, <1>6

LEMMA OrdinalFits ==
  ASSUME Width \in Nat \ {0}, Height \in Nat \ {0}, NEW r \in 1..Height, NEW c \in 1..Width
  PROVE  Ordinal(r, c) \in 1..Height * Width
<1> DEFINE w == Width
           h == Height
           m == r - 1
<1>1. w \in Nat /\ h \in Nat /\ m \in Nat /\ m < h /\ c \in 1..w
  OBVIOUS
<1>2. Ordinal(r, c) = m * w + c
  BY DEF Ordinal
<1> HIDE DEF w, h, m
<1>3. m * w + w <= h * w /\ m * w \in Nat /\ h * w \in Nat
  BY <1>1, TimesGrows
<1>4. Ordinal(r, c) \in 1..h * w
  BY <1>1, <1>2, <1>3
<1> QED
  BY <1>4 DEF h, w

\* Each token of a list is of the cell that has its number.
HeldIn(list) ==
  \A r \in 1..Height, c \in 1..Width :
    Ordinal(r, c) <= Len(list) => Inside(Text(list[Ordinal(r, c)]), Cell(r, c))

LEMMA HeldOneMore ==
  ASSUME Laid, NEW S, NEW list \in Seq(S), NEW t, NEW r \in 1..Height, NEW c \in 1..Width,
         Len(list) + 1 = Ordinal(r, c), HeldIn(list), Inside(Text(t), Cell(r, c))
  PROVE  /\ \E T : Append(list, t) \in Seq(T)
         /\ Len(Append(list, t)) = Ordinal(r, c)
         /\ HeldIn(Append(list, t))
<1> DEFINE T == S \cup {t}
           more == Append(list, t)
           l == Len(list)
<1>1. list \in Seq(T) /\ t \in T
  OBVIOUS
<1>2. /\ more \in Seq(T) /\ Len(more) = l + 1 /\ l \in Nat
      /\ more[l + 1] = t
      /\ \A m \in 1..l : more[m] = list[m]
  BY <1>1
<1>3. l + 1 = Ordinal(r, c) /\ Height \in Nat \ {0} /\ Width \in Nat \ {0}
  BY DEF Laid
<1> HIDE DEF more, l, T
<1>4. ASSUME NEW q \in 1..Height, NEW e \in 1..Width, Ordinal(q, e) <= Len(more)
      PROVE  Inside(Text(more[Ordinal(q, e)]), Cell(q, e))
  <2>1. Ordinal(q, e) \in Nat \ {0}
    BY <1>3, OrdinalFits
  <2>2. CASE Ordinal(q, e) = l + 1
    <3>1. Ordinal(q, e) <= Ordinal(r, c) /\ Ordinal(r, c) <= Ordinal(q, e)
      BY <1>3, <2>1, <2>2
    <3>2. q \in Nat \ {0} /\ r \in Nat \ {0}
      BY <1>3
    <3>3. (q < r \/ (q = r /\ e <= c)) /\ (r < q \/ (r = q /\ c <= e))
      BY <1>3, <3>1, <3>2, OrdinalIsOnes
    <3>4. q = r /\ e = c
      BY <1>3, <3>2, <3>3
    <3> QED
      BY <1>2, <2>2, <3>4
  <2>3. CASE Ordinal(q, e) # l + 1
    <3>1. Ordinal(q, e) \in 1..l
      BY <1>2, <1>4, <2>1, <2>3
    <3>2. Ordinal(q, e) <= Len(list)
      BY <3>1 DEF l
    <3> QED
      BY <1>2, <3>1, <3>2 DEF HeldIn
  <2> QED
    BY <2>2, <2>3
<1>5. HeldIn(more)
  BY <1>4 DEF HeldIn
<1> QED
  BY <1>2, <1>3, <1>5 DEF more

AsCounted(r, c) == IF c = 1 /\ Start(r, 1) = Break(r, 1) THEN 0 ELSE c

\* The reader stands at the first character of a cell that has one, at the separator
\* behind a cell, whose token it has unless that is empty and the first of its row (a
\* token that the comma shows), or at the end of the file.
Stands ==
  \/ line = Height /\ index = Size /\ cur_col = 0
  \/ /\ line < Height
     /\ \E c \in 1..Width :
          \/ /\ index = Start(line + 1, c) /\ index # Break(line + 1, c)
             /\ cur_col = c - 1
          \/ index = Break(line + 1, c) /\ cur_col = AsCounted(line + 1, c)

Lexed ==
  /\ line \in Nat /\ line <= Height /\ cur_col \in Nat /\ index \in Nat
  /\ line > 0 => col = Width
  /\ \E S : tokens \in Seq(S)
  /\ Len(tokens) = line * Width + cur_col
  /\ HeldIn(tokens)

\* A cell begins with what is no separator, unless it is empty and stands as it is.
LEMMA AtStart ==
  ASSUME Laid, NEW r \in 1..Height, NEW c \in 1..Width
  PROVE  /\ Start(r, c) # Break(r, c) =>
              /\ Char(Start(r, c)) \notin {Comma, Newline}
              /\ Bare(r, c) <=> Char(Start(r, c)) \in OtherChars
              /\ InQuotes(r, c) <=> Char(Start(r, c)) = Quote
         /\ Start(r, c) = Break(r, c) => Bare(r, c) /\ ~InQuotes(r, c)
         /\ Char(Break(r, c)) \in {Comma, Newline}
<1>1. /\ Start(r, c) \in Nat /\ Break(r, c) \in Nat /\ Start(r, c) <= Break(r, c)
      /\ Bare(r, c) \/ InQuotes(r, c)
      /\ Char(Break(r, c)) \in {Comma, Newline}
  BY DEF Laid
<1>2. {Comma, Newline, Quote} \cap OtherChars = {}
  BY ConstantsAssumption
<1>3. Comma # Quote /\ Newline # Quote
  BY DistinctMarks
<1>4. InQuotes(r, c) => Char(Start(r, c)) = Quote /\ Start(r, c) + 2 <= Break(r, c)
  BY DEF InQuotes
<1>5. Bare(r, c) /\ Start(r, c) # Break(r, c) => Char(Start(r, c)) \in OtherChars
  <2> SUFFICES ASSUME Bare(r, c), Start(r, c) # Break(r, c)
               PROVE  Char(Start(r, c)) \in OtherChars
    OBVIOUS
  <2>1. Start(r, c) \in Start(r, c)..Break(r, c) - 1
    BY <1>1
  <2> QED
    BY <2>1 DEF Bare
<1> QED
  BY <1>1, <1>2, <1>3, <1>4, <1>5

\* In front of a separator is a newline only where a row begins with an empty cell.
LEMMA BeforeBreak ==
  ASSUME Laid, NEW r \in 1..Height, NEW c \in 1..Width
  PROVE  /\ Break(r, c) > 0
         /\ Char(Break(r, c) - 1) = Newline <=> c = 1 /\ Start(r, c) = Break(r, c)
<1>1. /\ Start(r, c) \in Nat /\ Break(r, c) \in Nat /\ Start(r, c) <= Break(r, c)
      /\ Bare(r, c) \/ InQuotes(r, c)
      /\ Width \in Nat \ {0} /\ Height \in Nat \ {0}
  BY DEF Laid
<1>2. {Comma, Newline, Quote} \cap OtherChars = {}
  BY ConstantsAssumption
<1>3. Comma # Newline /\ Newline # Quote
  BY DistinctMarks
<1>4. CASE Start(r, c) # Break(r, c)
  <2>1. Break(r, c) - 1 \in Start(r, c)..Break(r, c) - 1
    BY <1>1, <1>4
  <2>2. Bare(r, c) => Char(Break(r, c) - 1) \in OtherChars
    BY <2>1 DEF Bare
  <2>3. InQuotes(r, c) => Char(Break(r, c) - 1) = Quote
    BY DEF InQuotes
  <2>4. Char(Break(r, c) - 1) # Newline
    BY <1>1, <1>2, <1>3, <2>2, <2>3
  <2> QED
    BY <1>1, <1>4, <2>4
<1>5. CASE Start(r, c) = Break(r, c) /\ c > 1
  <2> DEFINE d == c - 1
  <2>1. d \in 1..Width /\ d < Width /\ c = d + 1
    BY <1>1, <1>5
  <2> HIDE DEF d
  <2>2. Start(r, d + 1) = Break(r, d) + 1 /\ Char(Break(r, d)) = Comma /\ Break(r, d) \in Nat
    <3>1. d < Width => Start(r, d + 1) = Break(r, d) + 1
      BY <2>1, Zenon DEF Laid
    <3>2. Char(Break(r, d)) = IF d = Width THEN Newline ELSE Comma
      BY <2>1, Zenon DEF Laid
    <3>3. Break(r, d) \in Nat
      BY <2>1, Zenon DEF Laid
    <3> QED
      BY <1>1, <2>1, <3>1, <3>2, <3>3
  <2>3. Break(r, c) = Break(r, d) + 1 /\ Break(r, c) - 1 = Break(r, d)
    BY <1>1, <1>5, <2>1, <2>2
  <2>4. Char(Break(r, c) - 1) = Comma
    BY <2>2, <2>3
  <2> QED
    BY <1>3, <1>5, <2>2, <2>3, <2>4
<1>6. CASE Start(r, c) = Break(r, c) /\ c = 1
  <2>1. Bare(r, c)
    BY <1>6, AtStart
  <2>2. r # 1
    BY <1>6, <2>1 DEF Bare
  <2> DEFINE q == r - 1
  <2>3. q \in 1..Height /\ r = q + 1 /\ Width \in 1..Width
    BY <1>1, <2>2
  <2> HIDE DEF q
  <2>4. Start(q + 1, 1) = Break(q, Width) + 1 /\ Char(Break(q, Width)) = Newline /\ Break(q, Width) \in Nat
    BY <2>3 DEF Laid
  <2>5. Break(r, c) = Break(q, Width) + 1 /\ Break(r, c) - 1 = Break(q, Width)
    BY <1>1, <1>6, <2>3, <2>4
  <2>6. Char(Break(r, c) - 1) = Newline
    BY <2>4, <2>5
  <2> QED
    BY <1>6, <2>4, <2>5, <2>6
<1> QED
  BY <1>1, <1>4, <1>5, <1>6

-----------------------------------------------------------------------------
(* A cell at a time.                                                       *)

\* All that is said of the file is said of it still.
LEMMA SameFile ==
  ASSUME UNCHANGED file
  PROVE  /\ Height' = Height /\ Width' = Width /\ Size' = Size
         /\ \A r, c : /\ Start(r, c)' = Start(r, c) /\ Break(r, c)' = Break(r, c)
                      /\ Cell(r, c)' = Cell(r, c) /\ Ordinal(r, c)' = Ordinal(r, c)
         /\ \A t : Text(t)' = Text(t)
BY DEF Height, Width, Size, Start, Break, Cell, Ordinal, Text, Begins

LEMMA HeldThen ==
  ASSUME UNCHANGED file, HeldIn(tokens')
  PROVE  HeldIn(tokens)'
<1> SUFFICES ASSUME NEW r \in 1..Height', NEW c \in 1..Width', Ordinal(r, c)' <= Len(tokens')
             PROVE  Inside(Text(tokens[Ordinal(r, c)]), Cell(r, c))'
  BY DEF HeldIn
<1>1. Height' = Height /\ Width' = Width /\ Ordinal(r, c)' = Ordinal(r, c)
  BY SameFile
<1>2. Inside(Text(tokens'[Ordinal(r, c)]), Cell(r, c))
  BY <1>1 DEF HeldIn
<1>3. Text(tokens[Ordinal(r, c)])' = Text(tokens'[Ordinal(r, c)])
  BY <1>1 DEF Text
<1>4. Cell(r, c)' = Cell(r, c)
  BY SameFile
<1> QED
  BY <1>2, <1>3, <1>4 DEF Inside

LEMMA StandsThen ==
  ASSUME UNCHANGED file,
         \/ line' = Height /\ index' = Size /\ cur_col' = 0
         \/ /\ line' < Height
            /\ \E c \in 1..Width :
                 \/ /\ index' = Start(line' + 1, c) /\ index' # Break(line' + 1, c)
                    /\ cur_col' = c - 1
                 \/ index' = Break(line' + 1, c) /\ cur_col' = AsCounted(line' + 1, c)
  PROVE  Stands'
BY DEF Stands, AsCounted, Height, Width, Size, Start, Break, Begins

\* A token and the reader is at the separator behind its cell.
LEMMA TokenLexes ==
  ASSUME Laid, Lexed, UNCHANGED file, line < Height, NEW c \in 1..Width, cur_col = c - 1,
         Start(line + 1, c) # Break(line + 1, c),
         NEW t, NEW n, Takes(t, n), index + n = Break(line + 1, c),
         Inside(Text(t), Cell(line + 1, c))
  PROVE  Lexed' /\ Stands' /\ UNCHANGED state
<1>1. /\ line \in Nat /\ line + 1 \in 1..Height /\ Width \in Nat \ {0} /\ Height \in Nat \ {0}
      /\ c \in Nat
  BY DEF Laid, Lexed
<1>2. PICK S : tokens \in Seq(S)
  BY DEF Lexed
<1>3. Ordinal(line + 1, c) = line * Width + c /\ line * Width \in Nat
  BY <1>1, OrdinalIs
<1>4. Len(tokens) + 1 = Ordinal(line + 1, c)
  BY <1>1, <1>3 DEF Lexed
<1>5. /\ \E T : Append(tokens, t) \in Seq(T)
      /\ Len(Append(tokens, t)) = Ordinal(line + 1, c)
      /\ HeldIn(Append(tokens, t))
  <2> DEFINE r == line + 1
  <2>1. r \in 1..Height /\ Len(tokens) + 1 = Ordinal(r, c) /\ Inside(Text(t), Cell(r, c)) /\ HeldIn(tokens)
    BY <1>1, <1>4 DEF Lexed
  <2> HIDE DEF r
  <2>2. /\ \E T : Append(tokens, t) \in Seq(T)
        /\ Len(Append(tokens, t)) = Ordinal(r, c)
        /\ HeldIn(Append(tokens, t))
    BY <1>2, <2>1, HeldOneMore
  <2> QED
    BY <2>2 DEF r
<1>6. /\ tokens' = Append(tokens, t) /\ line' = line /\ col' = col
      /\ cur_col' = c /\ index' = Break(line + 1, c) /\ state' = state
  BY <1>1 DEF Takes
<1>7. HeldIn(tokens)'
  BY <1>5, <1>6, HeldThen
<1>8. Break(line + 1, c) \in Nat
  BY <1>1 DEF Laid
<1>9. Lexed'
  <2>1. Height' = Height /\ Width' = Width
    BY SameFile
  <2>2. Len(tokens') = line' * Width' + cur_col'
    BY <1>3, <1>5, <1>6, <2>1
  <2>3. \E T : tokens' \in Seq(T)
    BY <1>5, <1>6
  <2>4. /\ line' \in Nat /\ line' <= Height' /\ cur_col' \in Nat /\ index' \in Nat
        /\ line' > 0 => col' = Width'
    BY <1>1, <1>6, <1>8, <2>1 DEF Lexed
  <2> QED
    BY <1>7, <2>2, <2>3, <2>4 DEF Lexed
<1>10. Stands'
  <2>1. AsCounted(line + 1, c) = c
    BY DEF AsCounted
  <2>2. /\ line' < Height
        /\ index' = Break(line' + 1, c) /\ cur_col' = AsCounted(line' + 1, c)
    BY <1>6, <2>1
  <2> QED
    BY <2>2, StandsThen
<1> QED
  BY <1>6, <1>9, <1>10

\* What the reader finds tells where it stands.
LEMMA WhereItStands ==
  ASSUME Laid, Lexed, Stands, index < Size
  PROVE  /\ line < Height /\ line + 1 \in 1..Height
         /\ \E c \in 1..Width :
              \/ /\ index = Start(line + 1, c) /\ index # Break(line + 1, c)
                 /\ cur_col = c - 1
                 /\ Char(index) \notin {Comma, Newline}
              \/ /\ index = Break(line + 1, c) /\ cur_col = AsCounted(line + 1, c)
                 /\ Char(index) = IF c = Width THEN Newline ELSE Comma
<1>1. Size \in Nat /\ index \in Nat /\ line \in Nat /\ Height \in Nat
  BY DEF Laid, Lexed
<1>2. /\ line < Height
      /\ \E c \in 1..Width :
          \/ /\ index = Start(line + 1, c) /\ index # Break(line + 1, c)
             /\ cur_col = c - 1
          \/ index = Break(line + 1, c) /\ cur_col = AsCounted(line + 1, c)
  BY <1>1 DEF Stands
<1>3. line + 1 \in 1..Height
  BY <1>1, <1>2
<1> DEFINE r == line + 1
<1>4. PICK c \in 1..Width :
          \/ /\ index = Start(r, c) /\ index # Break(r, c)
             /\ cur_col = c - 1
          \/ index = Break(r, c) /\ cur_col = AsCounted(r, c)
  BY <1>2
<1>5. r \in 1..Height
  BY <1>3
<1> HIDE DEF r
<1>6. Start(r, c) # Break(r, c) => Char(Start(r, c)) \notin {Comma, Newline}
  BY <1>5, AtStart
<1>7. Char(Break(r, c)) = IF c = Width THEN Newline ELSE Comma
  BY <1>5 DEF Laid
<1>8. \/ /\ index = Start(r, c) /\ index # Break(r, c)
         /\ cur_col = c - 1
         /\ Char(index) \notin {Comma, Newline}
      \/ /\ index = Break(r, c) /\ cur_col = AsCounted(r, c)
         /\ Char(index) = IF c = Width THEN Newline ELSE Comma
  BY <1>4, <1>6, <1>7
<1> QED
  BY <1>2, <1>3, <1>8 DEF r

LEMMA NewlineLexes ==
  ASSUME Laid, Lexed, Stands, TakeNewline, UNCHANGED file
  PROVE  Lexed' /\ Stands' /\ UNCHANGED state
<1>1. index < Size /\ Char(index) = Newline /\ Comma # Newline
  BY DistinctMarks DEF TakeNewline, At
<1>2. line < Height /\ line + 1 \in 1..Height
  BY <1>1, WhereItStands
<1>3. PICK c \in 1..Width :
              \/ /\ index = Start(line + 1, c) /\ index # Break(line + 1, c)
                 /\ cur_col = c - 1
                 /\ Char(index) \notin {Comma, Newline}
              \/ /\ index = Break(line + 1, c) /\ cur_col = AsCounted(line + 1, c)
                 /\ Char(index) = IF c = Width THEN Newline ELSE Comma
  BY <1>1, WhereItStands
<1>4. c = Width /\ index = Break(line + 1, Width) /\ cur_col = AsCounted(line + 1, Width)
  BY <1>1, <1>3
<1> DEFINE r == line + 1
<1>5. r \in 1..Height /\ Width \in 1..Width /\ Width \in Nat \ {0} /\ Height \in Nat \ {0}
  BY <1>2 DEF Laid
<1>6. cur_col = Width
  <2>1. ~(Width = 1 /\ Start(r, 1) = Break(r, 1))
    <3> SUFFICES ASSUME Width = 1, Start(r, 1) = Break(r, 1) PROVE FALSE
      OBVIOUS
    <3>1. 1 \in 1..Width
      BY <1>5
    <3> HIDE DEF r
    <3>2. Bare(r, 1)
      BY <1>5, <3>1, AtStart
    <3> QED
      BY <3>2 DEF Bare
  <2> QED
    BY <1>4, <2>1 DEF AsCounted
<1>7. line = 0 \/ col = Width
  BY DEF Lexed
<1>8. line \in Nat /\ index \in Nat
  BY DEF Lexed
<1>9. /\ col' = Width /\ cur_col' = 0 /\ line' = line + 1 /\ index' = Break(r, Width) + 1
      /\ tokens' = tokens /\ state' = state
  BY <1>4, <1>6, <1>7, <1>8 DEF TakeNewline
<1>10. Lexed'
  <2>1. Height' = Height /\ Width' = Width
    BY SameFile
  <2>2. (line + 1) * Width = line * Width + Width /\ line * Width \in Nat
    BY <1>5, <1>8, OrdinalIs
  <2>3. Len(tokens') = line' * Width' + cur_col'
    BY <1>5, <1>6, <1>9, <2>1, <2>2 DEF Lexed
  <2>4. HeldIn(tokens)'
    BY <1>9, HeldThen DEF Lexed
  <2>5. Break(r, Width) \in Nat
    <3> HIDE DEF r
    <3> QED
      BY <1>5 DEF Laid
  <2>6. line' \in Nat /\ line' <= Height' /\ cur_col' \in Nat /\ index' \in Nat /\ col' = Width'
    BY <1>2, <1>5, <1>8, <1>9, <2>1, <2>5
  <2>7. \E T : tokens' \in Seq(T)
    BY <1>9 DEF Lexed
  <2> QED
    BY <2>3, <2>4, <2>6, <2>7 DEF Lexed
<1>11. Stands'
  <2>1. CASE line' = Height
    <3>1. r = Height /\ Break(Height, Width) = Size - 1 /\ Size \in Nat
      BY <1>9, <2>1 DEF Laid
    <3>2. index' = Size
      BY <1>9, <3>1
    <3> QED
      BY <1>9, <2>1, <3>2, StandsThen
  <2>2. CASE line' # Height
    <3>1. line' < Height /\ line' = r
      BY <1>2, <1>5, <1>8, <1>9, <2>2
    <3> HIDE DEF r
    <3>2. index' = Start(r + 1, 1)
      <4>1. Start(r + 1, 1) = Break(r, Width) + 1
        BY <1>5 DEF Laid
      <4> QED
        BY <1>9, <4>1
    <3>3. 1 \in 1..Width
      BY <1>5
    <3>4. CASE index' # Break(r + 1, 1)
      <4>1. index' = Start(line' + 1, 1) /\ index' # Break(line' + 1, 1) /\ cur_col' = 1 - 1
        BY <1>9, <3>1, <3>2, <3>4
      <4> QED
        BY <3>1, <3>3, <4>1, StandsThen
    <3>5. CASE index' = Break(r + 1, 1)
      <4>1. AsCounted(r + 1, 1) = 0
        BY <3>2, <3>5 DEF AsCounted
      <4>2. index' = Break(line' + 1, 1) /\ cur_col' = AsCounted(line' + 1, 1)
        BY <1>9, <3>1, <3>5, <4>1
      <4> QED
        BY <3>1, <3>3, <4>2, StandsThen
    <3> QED
      BY <3>4, <3>5
  <2> QED
    BY <2>1, <2>2
<1> QED
  BY <1>9, <1>10, <1>11

LEMMA FieldLexes ==
  ASSUME Laid, Lexed, Stands, TakeField, UNCHANGED file
  PROVE  Lexed' /\ Stands' /\ UNCHANGED state
<1>1. index < Size /\ Char(index) \in OtherChars
  BY DEF TakeField, At
<1>2. line < Height /\ line + 1 \in 1..Height
  BY <1>1, WhereItStands
<1>3. PICK c \in 1..Width :
              \/ /\ index = Start(line + 1, c) /\ index # Break(line + 1, c)
                 /\ cur_col = c - 1
                 /\ Char(index) \notin {Comma, Newline}
              \/ /\ index = Break(line + 1, c) /\ cur_col = AsCounted(line + 1, c)
                 /\ Char(index) = IF c = Width THEN Newline ELSE Comma
  BY <1>1, WhereItStands
<1>4. {Comma, Newline, Quote} \cap OtherChars = {}
  BY ConstantsAssumption
<1>5. index = Start(line + 1, c) /\ index # Break(line + 1, c) /\ cur_col = c - 1
  BY <1>1, <1>3, <1>4
<1> DEFINE r == line + 1
           e == Break(r, c)
           stops == {n \in index + 1..Size - 1 : Char(n) \in {Comma, Newline, Quote}}
           last == Min({Size} \cup stops)
<1>6. r \in 1..Height /\ Bare(r, c)
  <2>1. r \in 1..Height
    BY <1>2
  <2>2. Start(r, c) # Break(r, c) /\ Char(Start(r, c)) \in OtherChars
    BY <1>1, <1>5
  <2> HIDE DEF r
  <2> QED
    BY <2>1, <2>2, AtStart
<1>7. index \in Nat /\ e \in Nat /\ Size \in Nat /\ index < e /\ e < Size /\ Char(e) \in {Comma, Newline}
  <2> HIDE DEF r
  <2>1. /\ Start(r, c) \in Nat /\ Break(r, c) \in Nat /\ Start(r, c) <= Break(r, c)
        /\ Break(r, c) < Size /\ Size \in Nat
    BY <1>6 DEF Laid
  <2>2. Char(Break(r, c)) \in {Comma, Newline}
    BY <1>6, AtStart
  <2>3. index = Start(r, c) /\ index # Break(r, c)
    BY <1>5 DEF r
  <2> QED
    BY <2>1, <2>2, <2>3
<1>8. last = e
  <2>1. {Size} \cup stops \subseteq Nat /\ e \in stops
    <3> HIDE DEF e
    <3> QED
      BY <1>7
  <2>2. last \in {Size} \cup stops /\ \A n \in {Size} \cup stops : last <= n
    <3> HIDE DEF stops, e
    <3> QED
      BY <2>1, LeastOf
  <2>3. last \in index + 1..Size /\ last <= e
    <3> HIDE DEF e, last
    <3> QED
      BY <1>7, <2>1, <2>2
  <2>4. ~(last < e)
    <3> SUFFICES ASSUME last < e PROVE FALSE
      OBVIOUS
    <3>1. last \in stops
      <4> HIDE DEF stops, last, e
      <4> QED
        BY <1>7, <2>2, <2>3
    <3>2. Char(last) \in {Comma, Newline, Quote}
      <4> HIDE DEF last
      <4> QED
        BY <3>1
    <3>3. last \in Start(r, c)..Break(r, c) - 1
      <4> HIDE DEF last
      <4>1. index = Start(r, c)
        BY <1>5
      <4>2. last \in index..e - 1
        <5> HIDE DEF e, stops
        <5> QED
          BY <1>7, <2>3
      <4> QED
        BY <4>1, <4>2
    <3>4. Char(last) \in OtherChars
      <4> HIDE DEF last, r
      <4> QED
        BY <1>6, <3>3 DEF Bare
    <3> HIDE DEF last
    <3> QED
      BY <1>4, <3>2, <3>4
  <2> HIDE DEF last, e
  <2> QED
    BY <1>7, <2>3, <2>4
<1> DEFINE t == [at |-> index, length |-> e - index]
<1>9. Takes(t, e - index)
  <2>1. Char(e) # Quote
    BY <1>7, DistinctMarks
  <2>2. \/ last < Size /\ Char(last) = Quote /\ Fails
        \/ Takes([at |-> index, length |-> last - index], last - index)
    BY DEF TakeField
  <2> HIDE DEF e, last
  <2> QED
    BY <1>8, <2>1, <2>2
<1>10. Text(t) = SubSeq(file.text, Start(r, c) + 1, Break(r, c))
  <2>1. t.at = index /\ t.length = e - index
    OBVIOUS
  <2>2. t.at + t.length = e /\ index = Start(r, c)
    <3> HIDE DEF t, e
    <3> QED
      BY <1>5, <1>7, <2>1
  <2> HIDE DEF t
  <2> QED
    BY <2>1, <2>2 DEF Text
<1>11. Inside(Text(t), Cell(r, c))
  <2> HIDE DEF t, r
  <2> QED
    BY <1>6, <1>10 DEF Bare
<1>12. index + (e - index) = Break(r, c)
  BY <1>7
<1> DEFINE n == e - index
<1>13. Takes(t, n) /\ index + n = Break(line + 1, c) /\ Inside(Text(t), Cell(line + 1, c))
       /\ Start(line + 1, c) # Break(line + 1, c)
  BY <1>5, <1>9, <1>11, <1>12
<1> HIDE DEF n, t
<1> QED
  BY <1>2, <1>5, <1>13, TokenLexes

\* What stands between the quotes of a cell.
LEMMA BetweenQuotes ==
  ASSUME Laid, NEW r \in 1..Height, NEW c \in 1..Width, InQuotes(r, c),
         NEW b, NEW e, b = Start(r, c), e = Break(r, c)
  PROVE  LET s == SubSeq(file.text, b + 2, e - 1)
         IN  /\ b \in Nat /\ e \in Nat /\ b + 2 <= e /\ e < Size /\ Size \in Nat
             /\ s \in Seq(Signs) /\ Len(s) = e - b - 2
             /\ \A k \in 1..e - b - 2 : s[k] = Char(b + k)
<1>1. b \in Nat /\ e \in Nat /\ b + 2 <= e /\ e < Size /\ Size \in Nat /\ file.text \in Seq(Signs)
  BY DEF Laid, InQuotes
<1> DEFINE o == b + 1
           t == e - 1
<1>2. o \in Nat /\ t \in Nat /\ o <= t /\ t <= Len(file.text) /\ o + 1 = b + 2 /\ t - o = e - b - 2
  BY <1>1 DEF Size
<1>3. o = b + 1
  OBVIOUS
<1> HIDE DEF o, t
<1>4. /\ SubSeq(file.text, o + 1, t) \in Seq(Signs)
      /\ Len(SubSeq(file.text, o + 1, t)) = t - o
      /\ \A k \in 1..t - o : SubSeq(file.text, o + 1, t)[k] = file.text[o + k]
  <2>1. file.text \in Seq(Signs) /\ o \in Nat /\ t \in Nat /\ o <= t /\ t <= Len(file.text)
    BY <1>1, <1>2
  <2> QED
    BY <2>1, PartOf
<1>5. \A k \in 1..e - b - 2 : SubSeq(file.text, o + 1, t)[k] = Char(b + k)
  <2> TAKE k \in 1..e - b - 2
  <2>1. k \in 1..t - o /\ o + k = b + k + 1
    BY <1>1, <1>2, <1>3
  <2> QED
    BY <1>4, <2>1 DEF Char
<1>6. SubSeq(file.text, o + 1, t) = SubSeq(file.text, b + 2, e - 1)
  BY <1>2 DEF t
<1> QED
  BY <1>1, <1>2, <1>4, <1>5, <1>6

LEMMA QuotesShifted ==
  ASSUME NEW b \in Nat, NEW s, NEW l \in Nat, \A k \in 1..l : s[k] = Char(b + k), NEW n \in 0..l
  PROVE  Cardinality({m \in b + 1..b + n : Char(m) = Quote}) = Quotes(s, n)
<1> DEFINE T == {m \in 1..n : s[m] = Quote}
           U == {m \in b + 1..b + n : Char(m) = Quote}
           f == [m \in T |-> b + m]
<1>1. f \in [T -> U]
  OBVIOUS
<1>2. \A m, k \in T : f[m] = f[k] => m = k
  OBVIOUS
<1>3. \A m \in U : \E k \in T : f[k] = m
  <2> TAKE m \in U
  <2> DEFINE k == m - b
  <2>1. k \in 1..n /\ b + k = m
    OBVIOUS
  <2>2. s[k] = Char(b + k)
    <3> HIDE DEF k
    <3> QED
      BY <2>1
  <2>3. k \in T
    BY <2>1, <2>2
  <2> QED
    BY <2>1, <2>3
<1>4. f \in Bijection(T, U)
  <2> HIDE DEF f
  <2>1. f \in Injection(T, U) /\ f \in Surjection(T, U)
    BY <1>1, <1>2, <1>3 DEF Injection, Surjection, IsInjective
  <2> QED
    BY <2>1 DEF Bijection
<1>5. ExistsBijection(T, U)
  BY <1>4 DEF ExistsBijection
<1>6. IsFiniteSet(T)
  <2>1. n \in Nat
    OBVIOUS
  <2> QED
    BY <2>1, QuotesCounted
<1> HIDE DEF T, U, f
<1>7. Cardinality(U) = Cardinality(T)
  BY <1>5, <1>6, FS_Bijection
<1> QED
  BY <1>7 DEF T, U, Quotes

\* The first quote that does not stand for one in the cell is the one behind it.
LEMMA ClosingIs ==
  ASSUME Laid, NEW r \in 1..Height, NEW c \in 1..Width, InQuotes(r, c)
  PROVE  /\ Closing(Start(r, c)) # {}
         /\ Min(Closing(Start(r, c))) = Break(r, c) - 1
<1> DEFINE b == Start(r, c)
           e == Break(r, c)
           s == SubSeq(file.text, b + 2, e - 1)
           cell == Cell(r, c)
           l == e - b - 2
<1>1. /\ b \in Nat /\ e \in Nat /\ b + 2 <= e /\ e < Size /\ Size \in Nat
      /\ s \in Seq(Signs) /\ Len(s) = l
      /\ \A k \in 1..l : s[k] = Char(b + k)
  <2> HIDE DEF s
  <2>1. b = Start(r, c) /\ e = Break(r, c)
    OBVIOUS
  <2> HIDE DEF b, e
  <2> QED
    BY <2>1, BetweenQuotes DEF s
<1>2. Inside(s, cell) /\ Char(e - 1) = Quote
  BY DEF InQuotes
<1>3. cell \in Seq(Signs) /\ Char(e) \in {Comma, Newline}
  <2>1. Cell(r, c) \in Seq(Signs)
    BY DEF Laid
  <2>2. Char(Break(r, c)) \in {Comma, Newline}
    BY AtStart
  <2> QED
    BY <2>1, <2>2
<1>4. Len(cell) \in Nat
  BY <1>3
<1>5. Comma # Quote /\ Newline # Quote
  BY DistinctMarks
<1> HIDE DEF b, e, s, cell
<1>6. l \in Nat /\ b + l = e - 2 /\ b + l + 1 = e - 1
  BY <1>1
<1> HIDE DEF l
<1>7. \A n \in 0..l : Cardinality({m \in b + 1..b + n : Char(m) = Quote}) = Quotes(s, n)
  BY <1>1, <1>6, QuotesShifted
<1>8. e - 1 \in Closing(b)
  <2>1. Quotes(s, l) % 2 = 0
    <3>1. Len(cell) \in 0..Len(cell)
      BY <1>4
    <3>2. Quotes(s, Doubled(cell, Len(cell))) = 2 * Quotes(cell, Len(cell))
      BY <1>2, <1>4, <3>1, QuotesInside
    <3>3. Doubled(cell, Len(cell)) = l
      BY <1>1, <1>2 DEF Inside
    <3>4. Quotes(cell, Len(cell)) \in Nat
      BY <1>4, QuotesCounted
    <3> QED
      BY <3>2, <3>3, <3>4, TwiceIsEven
  <2>2. e - 1 - 1 = b + l /\ e - 1 + 1 = e /\ e - 1 \in b + 1..Size - 1
    BY <1>1, <1>6
  <2>3. Cardinality({m \in b + 1..b + l : Char(m) = Quote}) % 2 = 0
    <3>1. l \in 0..l
      BY <1>6
    <3> QED
      BY <1>7, <2>1, <3>1
  <2> DEFINE n == e - 1
  <2>4. n - 1 = b + l /\ n + 1 = e /\ n \in b + 1..Size - 1 /\ Char(n) = Quote
    BY <1>2, <2>2
  <2> HIDE DEF n
  <2>5. n \in Closing(b)
    BY <1>3, <1>5, <2>3, <2>4 DEF Closing
  <2> QED
    BY <2>5 DEF n
<1>9. ASSUME NEW n \in Closing(b), n < e - 1
      PROVE  FALSE
  <2>1. /\ n \in b + 1..Size - 1 /\ Char(n) = Quote
        /\ Cardinality({m \in b + 1..n - 1 : Char(m) = Quote}) % 2 = 0
        /\ n + 1 < Size => Char(n + 1) # Quote
    BY DEF Closing
  <2> DEFINE p == n - b
             q == p - 1
  <2>2. p \in 1..l /\ b + p = n /\ p \in Nat
    BY <1>1, <1>6, <1>9, <2>1
  <2>3. q \in 0..l /\ b + q = n - 1 /\ q \in Nat /\ q + 1 = p
    BY <1>1, <1>6, <1>9, <2>1
  <2> HIDE DEF p, q
  <2>4. Quotes(s, q) % 2 = 0
    BY <1>7, <2>1, <2>3
  <2>5. s[p] = Quote
    BY <1>1, <2>1, <2>2
  <2>6. Quotes(s, p) = Quotes(s, q) + 1 /\ Quotes(s, q) \in Nat
    <3>1. s[q + 1] = Quote
      BY <2>3, <2>5
    <3>2. Quotes(s, q + 1) = Quotes(s, q) + 1 /\ Quotes(s, q) \in Nat
      BY <2>3, <3>1, QuotesOneMore, QuotesCounted
    <3> QED
      BY <2>3, <3>2
  <2>7. Quotes(s, p) % 2 # 0
    BY <2>4, <2>6
  <2>8. s[p + 1] = Quote /\ p + 1 <= l
    <3>1. p \in 1..Len(s)
      BY <1>1, <2>2
    <3>2. \/ Quotes(s, p) % 2 = 0
          \/ s[p + 1] = Quote /\ p + 1 <= Len(s)
      BY <1>2, <1>4, <3>1, QuotesAt
    <3> QED
      BY <1>1, <2>7, <3>2
  <2> DEFINE o == p + 1
  <2>9. o \in 1..l /\ b + o = n + 1 /\ n + 1 < Size
    BY <1>1, <1>6, <2>1, <2>2, <2>8
  <2>10. s[o] = Char(b + o)
    <3> HIDE DEF o
    <3> QED
      BY <1>1, <2>9
  <2>11. Char(n + 1) = Quote
    BY <2>8, <2>9, <2>10
  <2> QED
    BY <2>1, <2>9, <2>11
<1>10. Closing(b) \subseteq Nat
  BY <1>1 DEF Closing
<1>11. Min(Closing(b)) \in Closing(b) /\ \A n \in Closing(b) : Min(Closing(b)) <= n
  BY <1>8, <1>10, LeastOf
<1>12. Min(Closing(b)) = e - 1
  <2> DEFINE n == Min(Closing(b))
  <2>1. n <= e - 1 /\ ~(n < e - 1) /\ n \in Nat
    BY <1>8, <1>9, <1>10, <1>11
  <2> HIDE DEF n
  <2>2. n = e - 1
    BY <1>1, <2>1
  <2> QED
    BY <2>2 DEF n
<1> QED
  BY <1>8, <1>12 DEF b, e

LEMMA QuotedLexes ==
  ASSUME Laid, Lexed, Stands, TakeQuoted, UNCHANGED file
  PROVE  Lexed' /\ Stands' /\ UNCHANGED state
<1>1. index < Size /\ Char(index) = Quote
  BY DEF TakeQuoted, At
<1>2. line < Height /\ line + 1 \in 1..Height
  BY <1>1, WhereItStands
<1>3. PICK c \in 1..Width :
              \/ /\ index = Start(line + 1, c) /\ index # Break(line + 1, c)
                 /\ cur_col = c - 1
                 /\ Char(index) \notin {Comma, Newline}
              \/ /\ index = Break(line + 1, c) /\ cur_col = AsCounted(line + 1, c)
                 /\ Char(index) = IF c = Width THEN Newline ELSE Comma
  BY <1>1, WhereItStands
<1>4. Comma # Quote /\ Newline # Quote
  BY DistinctMarks
<1>5. index = Start(line + 1, c) /\ index # Break(line + 1, c) /\ cur_col = c - 1
  BY <1>1, <1>3, <1>4
<1> DEFINE r == line + 1
           e == Break(r, c)
           last == Min(Closing(index))
<1>6. r \in 1..Height /\ InQuotes(r, c)
  <2>1. r \in 1..Height
    BY <1>2
  <2>2. Start(r, c) # Break(r, c) /\ Char(Start(r, c)) = Quote
    BY <1>1, <1>5
  <2> HIDE DEF r
  <2> QED
    BY <2>1, <2>2, AtStart
<1>7. Closing(index) # {} /\ last = e - 1
  <2>1. index = Start(r, c)
    BY <1>5
  <2> HIDE DEF r
  <2> QED
    BY <1>6, <2>1, ClosingIs
<1>8. /\ index \in Nat /\ e \in Nat /\ index + 2 <= e /\ e < Size /\ Size \in Nat
      /\ Char(e) \in {Comma, Newline}
  <2> HIDE DEF r
  <2>1. /\ Start(r, c) \in Nat /\ Break(r, c) \in Nat /\ Break(r, c) < Size /\ Size \in Nat
    BY <1>6 DEF Laid
  <2>2. Char(Break(r, c)) \in {Comma, Newline} /\ Start(r, c) + 2 <= Break(r, c)
    BY <1>6, AtStart DEF InQuotes
  <2>3. index = Start(r, c)
    BY <1>5 DEF r
  <2> QED
    BY <2>1, <2>2, <2>3
<1> DEFINE t == [at |-> index + 1, length |-> last - index - 1]
           n == last - index + 1
<1>9. Takes(t, n)
  <2>1. last + 1 = e
    BY <1>7, <1>8
  <2>2. \/ index + 1 = Size
        \/ Closing(index) = {}
        \/ last + 1 < Size /\ Char(last + 1) \notin {Comma, Newline}
        \/ Takes(t, n)
    BY DEF TakeQuoted
  <2> HIDE DEF last, e, t, n
  <2> QED
    BY <1>7, <1>8, <2>1, <2>2
<1>10. Text(t) = SubSeq(file.text, Start(r, c) + 2, Break(r, c) - 1)
  <2>1. t.at = index + 1 /\ t.length = last - index - 1
    OBVIOUS
  <2>2. t.at + t.length = e - 1 /\ t.at + 1 = Start(r, c) + 2
    <3>1. index = Start(r, c)
      BY <1>5
    <3> HIDE DEF t, e, last
    <3> QED
      BY <1>7, <1>8, <2>1, <3>1
  <2> HIDE DEF t
  <2> QED
    BY <2>2 DEF Text
<1>11. Inside(Text(t), Cell(r, c))
  <2> HIDE DEF t, r
  <2> QED
    BY <1>6, <1>10 DEF InQuotes
<1>12. index + n = Break(r, c)
  <2> HIDE DEF last
  <2> QED
    BY <1>7, <1>8
<1>13. Takes(t, n) /\ index + n = Break(line + 1, c) /\ Inside(Text(t), Cell(line + 1, c))
       /\ Start(line + 1, c) # Break(line + 1, c)
  BY <1>5, <1>9, <1>11, <1>12
<1> HIDE DEF n, t
<1> QED
  BY <1>2, <1>5, <1>13, TokenLexes

LEMMA JoinOne ==
  ASSUME NEW S, NEW list \in Seq(S), NEW e
  PROVE  list \o <<e>> = Append(list, e) /\ list \o <<>> = list
<1> DEFINE T == S \cup {e}
<1>1. list \in Seq(T) /\ e \in T
  OBVIOUS
<1> HIDE DEF T
<1> QED
  BY <1>1

\* The tokens when a comma has added that of the empty field in front of it.
WithBefore == IF index > 0 /\ Char(index - 1) = Newline
              THEN Append(tokens, EmptyField(index - 1)) ELSE tokens

\* The tokens that a comma adds.
LEMMA CommaTokens ==
  ASSUME NEW S, tokens \in Seq(S), cur_col \in Nat, TakeComma
  PROVE  /\ \E T : WithBefore \in Seq(T)
         /\ tokens' = IF index + 1 < Size /\ Char(index + 1) \in {Comma, Newline}
                      THEN Append(WithBefore, EmptyField(index)) ELSE WithBefore
         /\ Len(tokens') = Len(tokens) + (cur_col' - cur_col)
<1> DEFINE before == IF index > 0 /\ Char(index - 1) = Newline
                     THEN <<EmptyField(index - 1)>> ELSE <<>>
           after == IF index + 1 < Size /\ Char(index + 1) \in {Comma, Newline}
                    THEN <<EmptyField(index)>> ELSE <<>>
           T == S \cup {EmptyField(index - 1), EmptyField(index)}
<1>1. tokens \in Seq(T)
  OBVIOUS
<1>2. <<EmptyField(index - 1)>> \in Seq(T) /\ <<EmptyField(index)>> \in Seq(T) /\ << >> \in Seq(T)
  OBVIOUS
<1>3. before \in Seq(T) /\ after \in Seq(T)
  BY <1>2
<1>4. tokens' = tokens \o (before \o after)
  BY DEF TakeComma, EmptyFields
<1>5. WithBefore = tokens \o before
  BY JoinOne DEF WithBefore
<1>6. WithBefore \in Seq(T)
  <2> HIDE DEF T, before
  <2> QED
    BY <1>1, <1>3, <1>5
<1>7. tokens' = WithBefore \o after
  <2> HIDE DEF T, before, after
  <2>1. (tokens \o before) \o after = tokens \o (before \o after)
    BY <1>1, <1>3
  <2> QED
    BY <1>4, <1>5, <2>1
<1>8. tokens' = IF index + 1 < Size /\ Char(index + 1) \in {Comma, Newline}
                THEN Append(WithBefore, EmptyField(index)) ELSE WithBefore
  <2> HIDE DEF T
  <2> QED
    BY <1>6, <1>7, JoinOne
<1>9. Len(tokens') = Len(tokens) + (cur_col' - cur_col)
  <2>1. EmptyFields \in Seq({EmptyField(index - 1), EmptyField(index)}) /\ Len(EmptyFields) \in Nat
    BY EmptyFieldsIsSeq
  <2>2. EmptyFields \in Seq(T)
    BY <2>1
  <2>3. tokens' = tokens \o EmptyFields /\ cur_col' = cur_col + Len(EmptyFields)
    BY DEF TakeComma
  <2> HIDE DEF T
  <2>4. Len(tokens') = Len(tokens) + Len(EmptyFields) /\ Len(tokens) \in Nat
    BY <1>1, <2>2, <2>3
  <2> QED
    BY <2>1, <2>3, <2>4
<1> HIDE DEF T
<1> QED
  BY <1>6, <1>8, <1>9

\* An empty cell that stands as it is has an empty token, wherever that is said to be.
LEMMA EmptyIsInside ==
  ASSUME Laid, NEW r \in 1..Height, NEW c \in 1..Width, Start(r, c) = Break(r, c), NEW n \in Nat
  PROVE  Inside(Text(EmptyField(n)), Cell(r, c))
<1>1. Bare(r, c) /\ Start(r, c) \in Nat
  BY AtStart DEF Laid
<1>2. Inside(SubSeq(file.text, Start(r, c) + 1, Start(r, c)), Cell(r, c))
  BY <1>1 DEF Bare
<1>3. \A m \in Nat : SubSeq(file.text, m + 1, m) = <<>>
  <2> TAKE m \in Nat
  <2> DEFINE k == m + 1
  <2>1. k \in Int /\ m \in Int /\ m < k
    OBVIOUS
  <2> HIDE DEF k
  <2>2. SubSeq(file.text, k, m) = <<>>
    BY <2>1, SubSeqEmpty
  <2> QED
    BY <2>2 DEF k
<1>4. Text(EmptyField(n)) = SubSeq(file.text, n + 1, n)
  <2>1. EmptyField(n).at = n /\ EmptyField(n).length = 0 /\ n + 0 = n
    BY DEF EmptyField
  <2> QED
    BY <2>1 DEF Text
<1> QED
  BY <1>1, <1>2, <1>3, <1>4

LEMMA CommaLexes ==
  ASSUME Laid, Lexed, Stands, TakeComma, UNCHANGED file
  PROVE  Lexed' /\ Stands' /\ UNCHANGED state
<1>1. index < Size /\ Char(index) = Comma /\ Comma # Newline
  BY DistinctMarks DEF TakeComma, At
<1>2. line < Height /\ line + 1 \in 1..Height
  BY <1>1, WhereItStands
<1>3. PICK c \in 1..Width :
              \/ /\ index = Start(line + 1, c) /\ index # Break(line + 1, c)
                 /\ cur_col = c - 1
                 /\ Char(index) \notin {Comma, Newline}
              \/ /\ index = Break(line + 1, c) /\ cur_col = AsCounted(line + 1, c)
                 /\ Char(index) = IF c = Width THEN Newline ELSE Comma
  BY <1>1, WhereItStands
<1>4. c # Width /\ index = Break(line + 1, c) /\ cur_col = AsCounted(line + 1, c)
  BY <1>1, <1>3
<1> DEFINE r == line + 1
           n == c + 1
<1>5. /\ Width \in Nat \ {0} /\ Height \in Nat \ {0} /\ Size \in Nat
      /\ line \in Nat /\ index \in Nat /\ cur_col \in Nat
      /\ HeldIn(tokens) /\ Len(tokens) = line * Width + cur_col
      /\ line > 0 => col = Width
  BY DEF Laid, Lexed
<1>6. r \in 1..Height /\ n \in 1..Width /\ c < Width /\ c \in Nat /\ n \in Nat
  BY <1>2, <1>4, <1>5
<1>7. index = Break(r, c) /\ cur_col = AsCounted(r, c)
  BY <1>4
<1>8. Ordinal(r, c) = line * Width + c /\ Ordinal(r, n) = line * Width + n /\ line * Width \in Nat
  BY <1>5, <1>6, OrdinalIs
<1>9. n = c + 1 /\ r = line + 1
  OBVIOUS
<1> HIDE DEF r, n
<1>10. /\ Start(r, n) = index + 1 /\ Start(r, n) <= Break(r, n) /\ Break(r, n) < Size
       /\ Start(r, n) \in Nat /\ Break(r, n) \in Nat
  <2>1. c < Width => Start(r, c + 1) = Break(r, c) + 1
    BY <1>6, Zenon DEF Laid
  <2>2. /\ Start(r, n) <= Break(r, n) /\ Break(r, n) < Size
        /\ Start(r, n) \in Nat /\ Break(r, n) \in Nat
    BY <1>6, Zenon DEF Laid
  <2> QED
    BY <1>6, <1>7, <1>9, <2>1, <2>2
<1>11. index > 0 /\ (Char(index - 1) = Newline <=> c = 1 /\ Start(r, c) = Break(r, c))
  BY <1>6, <1>7, BeforeBreak
<1>12. index + 1 < Size /\ (Char(index + 1) \in {Comma, Newline} <=> Start(r, n) = Break(r, n))
  <2>1. index + 1 < Size
    BY <1>5, <1>10
  <2>2. /\ Start(r, n) # Break(r, n) => Char(Start(r, n)) \notin {Comma, Newline}
        /\ Char(Break(r, n)) \in {Comma, Newline}
    BY <1>6, AtStart
  <2> QED
    BY <1>10, <2>1, <2>2
<1>13. PICK S : tokens \in Seq(S)
  BY DEF Lexed
<1>14. /\ \E T : WithBefore \in Seq(T)
       /\ tokens' = IF index + 1 < Size /\ Char(index + 1) \in {Comma, Newline}
                    THEN Append(WithBefore, EmptyField(index)) ELSE WithBefore
       /\ Len(tokens') = Len(tokens) + (cur_col' - cur_col)
  BY <1>5, <1>13, CommaTokens
<1>15. /\ Len(WithBefore) = Ordinal(r, c) /\ HeldIn(WithBefore)
  <2>1. CASE c = 1 /\ Start(r, c) = Break(r, c)
    <3>1. WithBefore = Append(tokens, EmptyField(index - 1)) /\ index - 1 \in Nat
      BY <1>5, <1>11, <2>1 DEF WithBefore
    <3>2. cur_col = 0
      BY <1>7, <2>1 DEF AsCounted
    <3>3. Len(tokens) + 1 = Ordinal(r, c)
      BY <1>5, <1>8, <2>1, <3>2
    <3> DEFINE t == EmptyField(index - 1)
    <3>4. Inside(Text(t), Cell(r, c))
      BY <1>6, <2>1, <3>1, EmptyIsInside
    <3> HIDE DEF t
    <3>5. Len(Append(tokens, t)) = Ordinal(r, c) /\ HeldIn(Append(tokens, t))
      BY <1>5, <1>6, <1>13, <3>3, <3>4, HeldOneMore
    <3> QED
      BY <3>1, <3>5 DEF t
  <2>2. CASE ~(c = 1 /\ Start(r, c) = Break(r, c))
    <3>1. WithBefore = tokens
      BY <1>11, <2>2 DEF WithBefore
    <3>2. cur_col = c
      BY <1>7, <2>2 DEF AsCounted
    <3> QED
      BY <1>5, <1>8, <3>1, <3>2
  <2> QED
    BY <2>1, <2>2
<1>16. line' = line /\ col' = col /\ index' = Start(r, n) /\ state' = state
  BY <1>10 DEF TakeComma
<1>17. cur_col' = Len(tokens') - line * Width /\ (Len(tokens') \in Nat => cur_col' \in Int)
  <2>1. cur_col' = cur_col + Len(EmptyFields) /\ Len(EmptyFields) \in Nat
    BY EmptyFieldsIsSeq DEF TakeComma
  <2> QED
    BY <1>5, <1>8, <1>14, <2>1
<1>18. ASSUME Start(r, n) = Break(r, n)
       PROVE  /\ Len(tokens') = Ordinal(r, n) /\ HeldIn(tokens')
              /\ \E T : tokens' \in Seq(T)
              /\ cur_col' = n
  <2>1. tokens' = Append(WithBefore, EmptyField(index))
    BY <1>12, <1>14, <1>18
  <2> DEFINE t == EmptyField(index)
  <2>2. Inside(Text(t), Cell(r, n))
    BY <1>5, <1>6, <1>18, EmptyIsInside
  <2> HIDE DEF t
  <2>3. Len(WithBefore) + 1 = Ordinal(r, n)
    BY <1>6, <1>8, <1>9, <1>15
  <2>4. PICK T : WithBefore \in Seq(T)
    BY <1>14
  <2>5. /\ Len(Append(WithBefore, t)) = Ordinal(r, n) /\ HeldIn(Append(WithBefore, t))
        /\ \E U : Append(WithBefore, t) \in Seq(U)
    BY <1>6, <1>15, <2>2, <2>3, <2>4, HeldOneMore
  <2>6. Len(tokens') = Ordinal(r, n) /\ HeldIn(tokens') /\ \E T1 : tokens' \in Seq(T1)
    BY <2>1, <2>5 DEF t
  <2> QED
    BY <1>6, <1>8, <1>17, <2>6
<1>19. ASSUME Start(r, n) # Break(r, n)
       PROVE  /\ Len(tokens') = Ordinal(r, c) /\ HeldIn(tokens')
              /\ \E T : tokens' \in Seq(T)
              /\ cur_col' = c
  <2>1. tokens' = WithBefore
    BY <1>12, <1>14, <1>19
  <2>2. Len(tokens') = Ordinal(r, c) /\ HeldIn(tokens')
    BY <1>15, <2>1
  <2>3. \E T : tokens' \in Seq(T)
    BY <1>14, <2>1
  <2>4. cur_col' = c
    BY <1>6, <1>8, <1>17, <2>2
  <2> QED
    BY <2>2, <2>3, <2>4
<1>20. Lexed'
  <2>1. Height' = Height /\ Width' = Width
    BY SameFile
  <2>2. HeldIn(tokens)'
    BY <1>18, <1>19, HeldThen
  <2>3. \E T : tokens' \in Seq(T)
    BY <1>18, <1>19
  <2>4. cur_col' \in Nat /\ Len(tokens') = line * Width + cur_col'
    BY <1>6, <1>8, <1>18, <1>19
  <2>5. line' \in Nat /\ line' <= Height' /\ index' \in Nat /\ (line' > 0 => col' = Width')
    BY <1>2, <1>5, <1>10, <1>16, <2>1
  <2>6. Len(tokens') = line' * Width' + cur_col'
    BY <1>16, <2>1, <2>4
  <2> QED
    BY <2>2, <2>3, <2>4, <2>5, <2>6 DEF Lexed
<1>21. Stands'
  <2>1. line' < Height /\ line' + 1 = r
    BY <1>2, <1>9, <1>16
  <2>2. CASE Start(r, n) = Break(r, n)
    <3>1. AsCounted(r, n) = n
      BY <1>6, <1>9 DEF AsCounted
    <3>2. index' = Break(line' + 1, n) /\ cur_col' = AsCounted(line' + 1, n)
      BY <1>16, <1>18, <2>1, <2>2, <3>1
    <3> QED
      BY <1>6, <2>1, <3>2, StandsThen
  <2>3. CASE Start(r, n) # Break(r, n)
    <3>1. n - 1 = c
      BY <1>6, <1>9
    <3>2. index' = Start(line' + 1, n) /\ index' # Break(line' + 1, n) /\ cur_col' = n - 1
      BY <1>16, <1>19, <2>1, <2>3, <3>1
    <3> QED
      BY <1>6, <2>1, <3>2, StandsThen
  <2> QED
    BY <2>2, <2>3
<1> QED
  BY <1>16, <1>20, <1>21

-----------------------------------------------------------------------------
(* The reading.  First the numbers that atof takes whole.                  *)

LEMMA NumeralBegins ==
  ASSUME NEW T, NEW s \in Seq(T), NEW digits, NEW letter, N!IsNumeral(s, digits, letter)
  PROVE  s # <<>> /\ s[1] \in digits \cup {"."}
<1>1. PICK i \in 0..Len(s) : \E j \in i..Len(s) :
        LET fraction == SubSeq(s, i + 1, j)
        IN  /\ N!Made(SubSeq(s, 1, i), digits) /\ (i > 0 \/ j > 1)
            /\ fraction # <<>> => fraction[1] = "."
  BY Zenon DEF N!IsNumeral
<1>2. PICK j \in i..Len(s) :
        /\ N!Made(SubSeq(s, 1, i), digits) /\ (i > 0 \/ j > 1)
        /\ SubSeq(s, i + 1, j) # <<>> => SubSeq(s, i + 1, j)[1] = "."
  BY <1>1
<1>3. Len(s) \in Nat /\ i \in Nat /\ j \in Nat /\ i <= j /\ j <= Len(s) /\ Len(s) > 0
  BY <1>2
<1>4. CASE i > 0
  <2>1. 1 \in 1..Len(SubSeq(s, 1, i)) /\ SubSeq(s, 1, i)[1] = s[1] /\ SubSeq(s, 1, i) \in Seq(T)
    BY <1>3, <1>4
  <2>2. 1 \in DOMAIN SubSeq(s, 1, i)
    BY <2>1
  <2>3. SubSeq(s, 1, i)[1] \in digits
    BY <1>2, <2>2 DEF N!Made, N!ToSet
  <2> QED
    BY <1>3, <2>1, <2>3
<1>5. CASE i = 0
  <2>1. Len(SubSeq(s, 1, j)) = j /\ SubSeq(s, 1, j)[1] = s[1] /\ j > 0
    BY <1>2, <1>3, <1>5
  <2>2. SubSeq(s, 1, j)[1] = "."
    BY <1>2, <1>5, <2>1
  <2> QED
    BY <1>3, <2>1, <2>2
<1> QED
  BY <1>3, <1>4, <1>5

\* A number begins with none of the spaces.
LEMMA NumberBegins ==
  ASSUME NEW T, NEW s \in Seq(T), N!IsReal(s)
  PROVE  s # <<>> /\ s[1] \in N!NumberCharacters
<1>1. CASE s # <<>> /\ s[1] \in N!Signs
  BY <1>1 DEF N!NumberCharacters
<1>2. CASE N!Unsigned(s) = s
  <2>1. ASSUME N!IsDecimal(s) PROVE s # <<>> /\ s[1] \in N!DecimalDigits \cup {"."}
    BY <1>2, <2>1, NumeralBegins DEF N!IsDecimal
  <2>2. ASSUME N!IsHex(s) PROVE s # <<>> /\ s[1] = "0"
    <3> DEFINE t == <<"0", "x">>
    <3>1. Len(t) = 2 /\ SubSeq(t, 1, 2)[1] = "0"
      OBVIOUS
    <3>2. N!IsPrefix(t, s)
      BY <1>2, <2>2 DEF N!IsHex
    <3> HIDE DEF t
    <3>3. 2 <= Len(s) /\ SubSeq(t, 1, 2) = SubSeq(s, 1, 2)
      BY <3>1, <3>2 DEF N!IsPrefix
    <3>4. SubSeq(s, 1, 2)[1] = s[1] /\ s # <<>>
      BY <3>3
    <3> QED
      BY <3>1, <3>3, <3>4
  <2>3. ASSUME N!IsInf(s) PROVE s # <<>> /\ s[1] = "i"
    <3>1. s = N!Inf \/ s = N!Infinity
      BY <1>2, <2>3 DEF N!IsInf
    <3>2. N!Inf # <<>> /\ N!Inf[1] = "i" /\ N!Infinity # <<>> /\ N!Infinity[1] = "i"
      BY DEF N!Inf, N!Infinity
    <3> QED
      BY <3>1, <3>2
  <2>4. ASSUME s = N!Nan PROVE s # <<>> /\ s[1] = "n"
    BY <2>4 DEF N!Nan
  <2> QED
    BY <1>2, <2>1, <2>2, <2>3, <2>4
    DEF N!IsReal, N!NumberCharacters, N!NanCharacters, N!HexNumerals, N!DecimalDigits
<1>3. N!Unsigned(s) = s \/ (s # <<>> /\ s[1] \in N!Signs)
  BY DEF N!Unsigned
<1> QED
  BY <1>1, <1>2, <1>3

LEMMA GreatestIs ==
  ASSUME NEW n \in Nat, NEW P, P \subseteq 0..n, n \in P
  PROVE  Max(P) = n
<1>1. \A m \in P : m <= n /\ m \in Nat
  OBVIOUS
<1>2. \A m \in P : (\A k \in P : m >= k) => m = n
  BY <1>1
<1> QED
  BY <1>1, <1>2 DEF Max

\* A number is read as itself.
LEMMA NumberIsRead ==
  ASSUME NEW T, NEW s \in Seq(T), N!IsReal(s)
  PROVE  Atof(s) = s
<1> DEFINE l == Len(s)
           B == {n \in 0..Len(s) : \A m \in 1..n : s[m] \in SpaceChars}
           E(t) == {0} \cup {n \in 1..Len(t) : N!IsReal(SubSeq(t, 1, n))}
<1>1. s # <<>> /\ s[1] \notin SpaceChars /\ l \in Nat /\ l > 0
  BY NumberBegins, ConstantsAssumption
<1>2. B = {0}
  BY <1>1
<1>3. Max(B) = 0
  <2>1. 0 \in Nat /\ {0} \subseteq 0..0 /\ 0 \in {0}
    OBVIOUS
  <2>2. Max({0}) = 0
    BY ONLY <2>1, GreatestIs
  <2> QED
    BY <1>2, <2>2
<1>4. SubSeq(s, 0 + 1, Len(s)) = s
  OBVIOUS
<1>5. SubSeq(s, 1, l) = s
  OBVIOUS
<1>6. l \in E(s) /\ E(s) \subseteq 0..l
  <2>1. l \in 1..Len(s)
    BY <1>1
  <2>2. l \in E(s)
    BY <1>5, <2>1, Zenon
  <2>3. 1..Len(s) \subseteq 0..l /\ 0 \in 0..l
    BY <1>1
  <2> HIDE DEF l
  <2> QED
    BY <2>2, <2>3, Zenon
<1>7. Max(E(s)) = l
  <2> HIDE DEF E, l
  <2> QED
    BY <1>1, <1>6, GreatestIs
<1>8. Atof(s) = SubSeq(SubSeq(s, Max(B) + 1, Len(s)), 1, Max(E(SubSeq(s, Max(B) + 1, Len(s)))))
  BY Zenon DEF Atof
<1> QED
  BY <1>3, <1>4, <1>5, <1>7, <1>8

Reading ==
  /\ row_index \in Nat /\ column_index \in Nat
  /\ row_index <= Height /\ column_index <= Width
  /\ token_index = row_index * Width + column_index
  /\ row_index = Height => column_index = 0
  /\ headers # NoHeaders => headers = [n \in 1..Width |-> Text(tokens[n])]
  /\ got.read => /\ got.row \in Nat /\ got.row < Height
                 /\ got.column \in Nat /\ got.column < Width
  /\ ValueWritten

\* A written file is being cut up, with nothing read yet, or all of it is.
Back ==
  /\ Lexed /\ Reading
  /\ \/ state = "tokenizing" /\ Stands /\ headers = NoHeaders
     \/ /\ state \in {"ready", "read", "failed", "undefined"}
        /\ line = Height /\ cur_col = 0 /\ index >= Size
  /\ state = "read" => row_index = Height

BackInv ==
  /\ file \in Files /\ Placed
  /\ zeroed /\ file.cells # <<>> => Back

LEMMA TextIsPart ==
  ASSUME Placed, file.text \in Seq(Signs), NEW n \in 1..Len(tokens)
  PROVE  Text(tokens[n]) \in Seq(Signs)
<1> DEFINE b == tokens[n].at
           e == tokens[n].at + tokens[n].length
<1>1. b \in Nat /\ e \in Nat /\ b <= e /\ e <= Len(file.text)
  <2> DEFINE t == tokens[n]
  <2>1. Token(t) /\ After(t) <= Size
    BY DEF Placed, Ordered
  <2> HIDE DEF t
  <2>2. t.at \in Nat /\ t.length \in Nat /\ t.at + t.length <= Size
    BY <2>1 DEF Token, After
  <2> QED
    BY <2>2 DEF Size, t
<1>2. Text(tokens[n]) = SubSeq(file.text, b + 1, e)
  BY DEF Text
<1> HIDE DEF b, e
<1>3. SubSeq(file.text, b + 1, e) \in Seq(Signs)
  BY <1>1, PartOf
<1> QED
  BY <1>2, <1>3

\* The token that is read is that of the cell the reader says it is at.
LEMMA ReadsTheCell ==
  ASSUME Laid, Lexed, Reading, Placed, line = Height, cur_col = 0, HasRows, RowHasEntries
  PROVE  /\ row_index < Height /\ column_index < Width
         /\ token_index + 1 \in 1..Len(tokens)
         /\ Inside(Text(tokens[token_index + 1]), Cell(row_index + 1, column_index + 1))
         /\ Text(tokens[token_index + 1]) \in Seq(Signs)
         /\ Cell(row_index + 1, column_index + 1) \in Seq(Signs)
<1>1. /\ Height \in Nat \ {0} /\ Width \in Nat \ {0} /\ col = Width
      /\ row_index \in Nat /\ column_index \in Nat /\ row_index < Height
      /\ file.text \in Seq(Signs)
  BY DEF Laid, Lexed, Reading, HasRows, rows
<1>2. token_index = row_index * Width + column_index /\ token_index < Width * (row_index + 1)
  BY <1>1 DEF Reading, RowHasEntries, columns
<1>3. (row_index + 1) * Width = row_index * Width + Width /\ row_index * Width \in Nat
  BY <1>1, OrdinalIs
<1>4. Width * (row_index + 1) = (row_index + 1) * Width
  BY <1>1
<1>5. column_index < Width
  BY <1>1, <1>2, <1>3, <1>4
<1> DEFINE r == row_index + 1
           c == column_index + 1
<1>6. r \in 1..Height /\ c \in 1..Width
  BY <1>1, <1>5
<1>7. Ordinal(r, c) = token_index + 1
  <2>1. c \in Nat
    BY <1>1
  <2> HIDE DEF c
  <2>2. Ordinal(r, c) = row_index * Width + c
    BY <1>1, <2>1, OrdinalIs
  <2> QED
    BY <1>1, <1>2, <1>3, <2>2 DEF c
<1> HIDE DEF r, c
<1>8. Len(tokens) = Height * Width /\ Ordinal(r, c) \in 1..Height * Width
  <2>1. Ordinal(r, c) \in 1..Height * Width
    BY <1>1, <1>6, OrdinalFits
  <2>2. Height * Width \in Nat
    BY <1>1, ProductOfCounts
  <2>3. Len(tokens) = Height * Width + 0
    BY DEF Lexed
  <2> QED
    BY <2>1, <2>2, <2>3
<1>9. Ordinal(r, c) \in 1..Len(tokens) /\ Ordinal(r, c) <= Len(tokens)
  BY <1>1, <1>8
<1>10. Inside(Text(tokens[Ordinal(r, c)]), Cell(r, c))
  BY <1>6, <1>9 DEF Lexed, HeldIn
<1>11. Text(tokens[Ordinal(r, c)]) \in Seq(Signs)
  BY <1>1, <1>9, TextIsPart
<1>12. Cell(r, c) \in Seq(Signs)
  BY <1>6 DEF Laid
<1> QED
  BY <1>1, <1>5, <1>7, <1>9, <1>10, <1>11, <1>12 DEF r, c

LEMMA ValueThen ==
  ASSUME UNCHANGED <<file, got>>, ValueWritten
  PROVE  ValueWritten'
BY DEF ValueWritten, IntegralWritten, FloatWritten

\* What a read of the cell's token says of the cell.
LEMMA AskedOfTheCell ==
  ASSUME UNCHANGED file, NEW kind, NEW taken \in BOOLEAN, NEW value,
         got' = Asked(kind, taken, value),
         NEW S, NEW cell \in Seq(S), cell = Cell(row_index + 1, column_index + 1),
         NEW T, NEW text \in Seq(T), Inside(text, cell),
         kind = "string" => value = cell,
         kind = "integral" => (taken <=> N!IsInt(text)) /\ (taken => value = Atol(text)),
         kind = "float" => (taken <=> N!IsFloat(text)) /\ (taken => value = Atof(text))
  PROVE  ValueWritten'
<1>1. /\ got'.read = TRUE /\ got'.kind = kind /\ got'.taken = taken /\ got'.value = value
      /\ got'.row = row_index /\ got'.column = column_index
  BY DEF Asked
<1>2. file'.cells[got'.row + 1][got'.column + 1] = cell
  BY <1>1 DEF Cell
<1>3. Plain(cell) => text = cell
  BY PlainIs
<1>4. ASSUME kind = "integral", Plain(cell)
      PROVE  /\ taken <=> N!IsInt(cell)
             /\ taken => value = Atol(cell)
             /\ taken /\ N!Signed(cell) \in -Long..Long - 1 => value = N!Signed(cell)
  <2>1. N!Signed(cell) \in -Long..Long - 1 => Atol(cell) = N!Signed(cell)
    BY Zenon DEF Atol
  <2> QED
    BY <1>3, <1>4, <2>1
<1>5. ASSUME kind = "float", Plain(cell)
      PROVE  /\ taken <=> N!IsFloat(cell)
             /\ taken => value = IF N!IsReal(cell) THEN cell ELSE Atof(cell)
  BY <1>3, <1>5, NumberIsRead
<1>6. IntegralWritten(cell)' <=>
        /\ taken <=> N!IsInt(cell)
        /\ taken => value = Atol(cell)
        /\ taken /\ N!Signed(cell) \in -Long..Long - 1 => value = N!Signed(cell)
  BY <1>1, Zenon DEF IntegralWritten
<1>7. FloatWritten(cell)' <=>
        /\ taken <=> N!IsFloat(cell)
        /\ taken => value = IF N!IsReal(cell) THEN cell ELSE Atof(cell)
  BY <1>1, Zenon DEF FloatWritten
<1>8. /\ got'.kind = "string" => got'.value = cell
      /\ got'.kind = "integral" /\ Plain(cell) => IntegralWritten(cell)'
      /\ got'.kind = "float" /\ Plain(cell) => FloatWritten(cell)'
  BY <1>1, <1>4, <1>5, <1>6, <1>7, Zenon
<1> QED
  BY <1>2, <1>8 DEF ValueWritten, IntegralWritten, FloatWritten

LEMMA ReadingThen ==
  ASSUME UNCHANGED <<file, headers, got>>, Reading, headers # NoHeaders => UNCHANGED tokens,
         /\ row_index' \in Nat /\ column_index' \in Nat
         /\ row_index' <= Height /\ column_index' <= Width
         /\ token_index' = row_index' * Width + column_index'
         /\ row_index' = Height => column_index' = 0
  PROVE  Reading'
<1>1. Height' = Height /\ Width' = Width
  BY SameFile
<1>2. got'.read => /\ got'.row \in Nat /\ got'.row < Height'
                   /\ got'.column \in Nat /\ got'.column < Width'
  BY <1>1 DEF Reading
<1>4. ValueWritten'
  BY ValueThen DEF Reading
<1>3. headers' # NoHeaders => headers' = [n \in 1..Width' |-> Text(tokens[n])']
  BY <1>1 DEF Reading, Text
<1> QED
  BY <1>1, <1>2, <1>3, <1>4 DEF Reading

LEMMA LexedThen ==
  ASSUME UNCHANGED <<file, lexing>>, Lexed
  PROVE  Lexed'
<1>1. Height' = Height /\ Width' = Width /\ UNCHANGED <<index, line, col, cur_col, tokens>>
  BY SameFile DEF lexing
<1>2. HeldIn(tokens)'
  BY <1>1, HeldThen DEF Lexed
<1> QED
  BY <1>1, <1>2 DEF Lexed

\* While the file is cut up.
LEMMA TokenizeBack ==
  ASSUME Laid, Back, Tokenize
  PROVE  Back'
<1>1. UNCHANGED <<file, headers, row_index, column_index, token_index, got>>
  BY DEF Tokenize, reading
<1>2. state = "tokenizing"
  BY DEF Tokenize, TakeComma, TakeNewline, TakeQuoted, TakeField, BeforeContents, Tokenized, At
<1>3. Lexed /\ Stands /\ Reading /\ headers = NoHeaders
  BY <1>2 DEF Back
<1>4. Reading'
  BY <1>1, <1>3, ReadingThen DEF Reading
<1>5. CASE TakeComma \/ TakeNewline \/ TakeQuoted \/ TakeField
  <2>1. Lexed' /\ Stands' /\ UNCHANGED state
    BY <1>1, <1>3, <1>5, CommaLexes, NewlineLexes, QuotedLexes, FieldLexes
  <2> QED
    BY <1>1, <1>2, <1>3, <1>4, <2>1 DEF Back
<1>6. CASE Tokenized
  <2>1. index >= Size /\ state' = "ready" /\ UNCHANGED lexing
    BY <1>6 DEF Tokenized
  <2>2. Lexed'
    BY <1>1, <1>3, <2>1, LexedThen
  <2>3. line = Height /\ cur_col = 0
    <3>1. ~(index < Size)
      BY <1>3, <2>1 DEF Laid, Lexed
    <3>2. /\ line + 1 \in Nat /\ (line < Height => line + 1 \in 1..Height)
      BY <1>3 DEF Laid, Lexed
    <3>3. ASSUME line < Height, NEW c \in 1..Width,
                 index = Start(line + 1, c) \/ index = Break(line + 1, c)
          PROVE  FALSE
      <4> DEFINE r == line + 1
      <4>1. r \in 1..Height
        BY <3>2, <3>3
      <4> HIDE DEF r
      <4>2. /\ Start(r, c) \in Nat /\ Break(r, c) \in Nat /\ Size \in Nat
            /\ Start(r, c) <= Break(r, c) /\ Break(r, c) < Size
        BY <4>1 DEF Laid
      <4> QED
        BY <3>1, <3>3, <4>2 DEF r
    <3> QED
      BY <1>3, <3>3 DEF Stands
  <2>4. Height' = Height /\ Size' = Size
    BY <1>1, SameFile
  <2> QED
    BY <1>4, <2>1, <2>2, <2>3, <2>4 DEF Back, lexing
<1>7. ~BeforeContents
  BY <1>3 DEF BeforeContents, Lexed
<1> QED
  BY <1>5, <1>6, <1>7 DEF Tokenize

LEMMA MovesAlike ==
  ASSUME NEW before \in Int, NEW c \in Int, NEW t \in Int, NEW d \in Int, NEW u \in Int,
         t = before + c, u - t = d - c
  PROVE  u = before + d
  OBVIOUS

\* While it is read.
LEMMA ReadBack ==
  ASSUME Laid, Placed, Back, ParseHeaders \/ ReadString \/ ReadIntegral \/ ReadFloat \/ NextRow \/ End
  PROVE  Back'
<1>1. UNCHANGED <<file, lexing>> /\ UNCHANGED <<index, line, col, cur_col, tokens>>
  BY DEF ParseHeaders, ReadString, ReadIntegral, ReadFloat, NextRow, End, lexing
<1>2. state = "ready"
  BY DEF ParseHeaders, ReadString, ReadIntegral, ReadFloat, NextRow, End, Ready
<1>3. Lexed /\ Reading /\ line = Height /\ cur_col = 0 /\ index >= Size
  BY <1>2 DEF Back
<1>4. Lexed' /\ line' = Height' /\ cur_col' = 0 /\ index' >= Size'
  BY <1>1, <1>3, LexedThen, SameFile
<1>5. /\ Height \in Nat \ {0} /\ Width \in Nat \ {0} /\ col = Width
      /\ row_index \in Nat /\ column_index \in Nat
      /\ row_index <= Height /\ column_index <= Width
      /\ token_index = row_index * Width + column_index
      /\ row_index = Height => column_index = 0
  BY <1>3 DEF Laid, Lexed, Reading
<1>6. Height' = Height /\ Width' = Width
  BY <1>1, SameFile
<1>7. CASE UNCHANGED <<reading, got>> /\ state' \in {"failed", "undefined"}
  <2>1. Reading'
    BY <1>1, <1>3, <1>5, <1>7, ReadingThen DEF reading
  <2> QED
    BY <1>4, <1>7, <2>1 DEF Back
<1>8. CASE /\ row_index = 0 /\ headers' = [n \in 1..columns |-> Text(tokens[n])]
           /\ token_index' = (IF columns > 0 THEN columns ELSE 0)
           /\ row_index' = 1 /\ column_index' = 0
           /\ got' = Nothing /\ UNCHANGED state
  <2>1. 1 * Width + 0 = Width /\ token_index' = Width /\ 1 <= Height
    BY <1>5, <1>8 DEF columns
  <2>2. headers' = [n \in 1..Width' |-> Text(tokens[n])']
    BY <1>1, <1>5, <1>6, <1>8 DEF columns, Text
  <2>3. got'.read = FALSE
    BY <1>8 DEF Nothing
  <2>4. /\ row_index' \in Nat /\ column_index' \in Nat
        /\ row_index' <= Height' /\ column_index' <= Width'
        /\ token_index' = row_index' * Width' + column_index'
        /\ row_index' = Height' => column_index' = 0
    BY <1>5, <1>6, <1>8, <2>1
  <2>5. ValueWritten'
    BY <2>3 DEF ValueWritten
  <2>6. Reading'
    BY <2>2, <2>3, <2>4, <2>5 DEF Reading
  <2> QED
    BY <1>2, <1>4, <1>8, <2>6 DEF Back
<1> DEFINE text == Text(tokens[token_index + 1])
<1>9. ASSUME HasRows, RowHasEntries, NEW kind, NEW taken \in BOOLEAN, NEW value,
             got' = Asked(kind, taken, value),
             IF taken THEN NextColumn /\ UNCHANGED <<headers, row_index, state>>
             ELSE state' = "failed" /\ UNCHANGED reading,
             kind = "string" => value = Unescaped(text),
             kind = "integral" => (taken <=> N!IsInt(text)) /\ (taken => value = Atol(text)),
             kind = "float" => (taken <=> N!IsFloat(text)) /\ (taken => value = Atof(text))
      PROVE  Back'
  <2>1. /\ row_index < Height /\ column_index < Width
        /\ Inside(text, Cell(row_index + 1, column_index + 1)) /\ text \in Seq(Signs)
        /\ Cell(row_index + 1, column_index + 1) \in Seq(Signs)
    BY <1>3, <1>9, ReadsTheCell
  <2>2. got'.row = row_index /\ got'.column = column_index
    BY <1>9 DEF Asked
  <2>3. ValueWritten'
    <3>1. Unescaped(text) = Cell(row_index + 1, column_index + 1)
      BY <2>1, UnescapedIs
    <3> HIDE DEF text
    <3> QED
      BY <1>1, <1>9, <2>1, <3>1, AskedOfTheCell
  <2>4. got'.read => /\ got'.row \in Nat /\ got'.row < Height'
                     /\ got'.column \in Nat /\ got'.column < Width'
    BY <1>5, <1>6, <2>1, <2>2
  <2>5. headers' = headers
    BY <1>9 DEF reading
  <2>6. headers' # NoHeaders => headers' = [n \in 1..Width' |-> Text(tokens[n])']
    BY <1>1, <1>3, <1>6, <2>5 DEF Reading, Text
  <2>7. /\ row_index' = row_index /\ column_index' \in column_index..column_index + 1
        /\ token_index' - token_index = column_index' - column_index
    BY <1>5, <1>9 DEF NextColumn, reading
  <2>8. token_index' = row_index' * Width' + column_index'
    <3>1. row_index * Width \in Nat
      BY <1>5, ProductOfCounts
    <3>2. token_index = row_index * Width + column_index /\ token_index \in Int
      BY <1>5, <3>1
    <3>3. token_index' \in Int
      BY <1>9, <3>2 DEF NextColumn, reading
    <3>4. token_index' = row_index * Width + column_index'
      <4>1. column_index \in Int /\ column_index' \in Int /\ row_index * Width \in Int
        BY <1>5, <2>7, <3>1
      <4>2. token_index' - token_index = column_index' - column_index
        BY <2>7
      <4>3. token_index = row_index * Width + column_index
        BY <3>2
      <4> QED
        BY <3>2, <3>3, <4>1, <4>2, <4>3, MovesAlike
    <3> QED
      BY <1>6, <2>7, <3>4
  <2>9. /\ row_index' \in Nat /\ column_index' \in Nat
        /\ row_index' <= Height' /\ column_index' <= Width'
        /\ row_index' = Height' => column_index' = 0
    BY <1>5, <1>6, <2>1, <2>7
  <2>10. Reading'
    BY <2>3, <2>4, <2>6, <2>8, <2>9 DEF Reading
  <2> QED
    BY <1>2, <1>4, <1>9, <2>10 DEF Back
<1>10. CASE ParseHeaders
  BY <1>7, <1>8, <1>10 DEF ParseHeaders
<1>11. CASE ReadString
  <2>1. CASE PastTokens
    BY <1>7, <2>1 DEF PastTokens
  <2>2. CASE Reads("string", Unescaped(text))
    <3>1. HasRows /\ RowHasEntries
      BY <1>11 DEF ReadString
    <3>2. got' = Asked("string", TRUE, Unescaped(text)) /\ NextColumn /\ UNCHANGED <<headers, row_index, state>>
      BY <2>2 DEF Reads
    <3> HIDE DEF text
    <3> QED
      BY <1>9, <3>1, <3>2
  <2> QED
    BY <1>11, <2>1, <2>2 DEF ReadString
<1>12. CASE ReadIntegral
  <2>1. CASE PastTokens
    BY <1>7, <2>1 DEF PastTokens
  <2>2. HasRows /\ RowHasEntries
    BY <1>12 DEF ReadIntegral
  <2>3. CASE N!IsInt(text) /\ Reads("integral", Atol(text))
    <3>1. got' = Asked("integral", TRUE, Atol(text)) /\ NextColumn /\ UNCHANGED <<headers, row_index, state>>
      BY <2>3 DEF Reads
    <3> HIDE DEF text
    <3> QED
      BY <1>9, <2>2, <2>3, <3>1
  <2>4. CASE ~N!IsInt(text) /\ Refuses("integral")
    <3>1. got' = Asked("integral", FALSE, <<>>) /\ state' = "failed" /\ UNCHANGED reading
      BY <2>4 DEF Refuses
    <3> HIDE DEF text
    <3> QED
      BY <1>9, <2>2, <2>4, <3>1
  <2> QED
    BY <1>12, <2>1, <2>3, <2>4 DEF ReadIntegral
<1>15. CASE ReadFloat
  <2>1. CASE PastTokens
    BY <1>7, <2>1 DEF PastTokens
  <2>2. HasRows /\ RowHasEntries
    BY <1>15 DEF ReadFloat
  <2>3. CASE N!IsFloat(text) /\ Reads("float", Atof(text))
    <3>1. got' = Asked("float", TRUE, Atof(text)) /\ NextColumn /\ UNCHANGED <<headers, row_index, state>>
      BY <2>3 DEF Reads
    <3> HIDE DEF text
    <3> QED
      BY <1>9, <2>2, <2>3, <3>1
  <2>4. CASE ~N!IsFloat(text) /\ Refuses("float")
    <3>1. got' = Asked("float", FALSE, <<>>) /\ state' = "failed" /\ UNCHANGED reading
      BY <2>4 DEF Refuses
    <3> HIDE DEF text
    <3> QED
      BY <1>9, <2>2, <2>4, <3>1
  <2> QED
    BY <1>15, <2>1, <2>3, <2>4 DEF ReadFloat
<1>13. CASE NextRow
  <2>1. /\ row_index < Height /\ ~(token_index < Width * (row_index + 1))
        /\ row_index' = row_index + 1 /\ column_index' = 0 /\ got' = Nothing
        /\ UNCHANGED <<headers, token_index, state>>
    BY <1>3, <1>5, <1>13 DEF NextRow, HasRows, rows, RowHasEntries, columns
  <2>2. (row_index + 1) * Width = row_index * Width + Width /\ row_index * Width \in Nat
    BY <1>5, OrdinalIs
  <2>3. Width * (row_index + 1) = (row_index + 1) * Width
    BY <1>5
  <2>4. token_index = (row_index + 1) * Width + 0
    BY <1>5, <2>1, <2>2, <2>3
  <2>5. /\ row_index' \in Nat /\ column_index' \in Nat
        /\ row_index' <= Height' /\ column_index' <= Width'
        /\ token_index' = row_index' * Width' + column_index'
        /\ row_index' = Height' => column_index' = 0
    BY <1>5, <1>6, <2>1, <2>4
  <2>6. got'.read = FALSE
    BY <2>1 DEF Nothing
  <2>7. headers' # NoHeaders => headers' = [n \in 1..Width' |-> Text(tokens[n])']
    BY <1>1, <1>3, <1>6, <2>1 DEF Reading, Text
  <2>8. ValueWritten'
    BY <2>6 DEF ValueWritten
  <2>9. Reading'
    BY <2>5, <2>6, <2>7, <2>8 DEF Reading
  <2> QED
    BY <1>2, <1>4, <2>1, <2>9 DEF Back
<1>14. CASE End
  <2>1. state' = "read" /\ UNCHANGED <<reading, got>> /\ row_index = Height
    BY <1>3, <1>5, <1>14 DEF End, HasRows, rows
  <2>2. Reading'
    BY <1>1, <1>3, <1>5, <2>1, ReadingThen DEF reading
  <2> QED
    BY <1>4, <1>6, <2>1, <2>2 DEF Back, reading
<1> QED
  BY <1>10, <1>11, <1>12, <1>13, <1>14, <1>15

LEMMA BackAtFirst == Init => BackInv
<1> SUFFICES ASSUME Init PROVE BackInv
  OBVIOUS
<1>1. file \in Files /\ Placed
  BY PlacedAtFirst DEF Init
<1>2. ASSUME zeroed, file.cells # <<>> PROVE Back
  <2>1. Laid
    BY <1>1, <1>2, FileLaid
  <2>2. index = 0 /\ cur_col = 0
    BY <1>2, Zenon DEF Init
  <2>3. /\ line = 0 /\ tokens = <<>> /\ headers = NoHeaders /\ row_index = 0 /\ column_index = 0
        /\ token_index = 0 /\ got = Nothing /\ state = "tokenizing"
    BY DEF Init
  <2>4. Height \in Nat \ {0} /\ Width \in Nat \ {0} /\ Start(1, 1) = 0
    BY <2>1 DEF Laid
  <2>5. 1 \in 1..Height /\ 1 \in 1..Width
    BY <2>4
  <2>6. 0 * Width = 0
    BY <2>4
  <2>7. Lexed
    <3>1. tokens \in Seq({}) /\ Len(tokens) = 0
      BY <2>3
    <3>2. HeldIn(tokens)
      <4> SUFFICES ASSUME NEW r \in 1..Height, NEW c \in 1..Width, Ordinal(r, c) <= Len(tokens)
                   PROVE  FALSE
        BY DEF HeldIn
      <4>1. Ordinal(r, c) \in 1..Height * Width
        BY <2>4, OrdinalFits
      <4> QED
        BY <3>1, <4>1
    <3> QED
      BY <2>2, <2>3, <2>4, <2>6, <3>1, <3>2 DEF Lexed
  <2>8. Stands
    <3>1. Start(1, 1) # Break(1, 1)
      <4>1. Start(1, 1) = Break(1, 1) => Bare(1, 1)
        BY <2>1, <2>5, AtStart
      <4> QED
        BY <4>1 DEF Bare
    <3>2. line + 1 = 1 /\ cur_col = 1 - 1 /\ line < Height
      BY <2>2, <2>3, <2>4
    <3> QED
      BY <2>2, <2>4, <2>5, <3>1, <3>2 DEF Stands
  <2>9. got.read = FALSE
    BY <2>3 DEF Nothing
  <2>10. Reading
    BY <2>3, <2>4, <2>6, <2>9 DEF Reading, ValueWritten
  <2> QED
    BY <2>3, <2>7, <2>8, <2>10 DEF Back
<1> QED
  BY <1>1, <1>2 DEF BackInv

LEMMA StepBack == BackInv /\ [Next]_vars => BackInv'
<1> SUFFICES ASSUME BackInv, [Next]_vars PROVE BackInv'
  OBVIOUS
<1>1. file' = file /\ zeroed' = zeroed /\ file \in Files /\ Placed
  BY FileStays, ZeroedStays DEF BackInv
<1>2. Placed'
  BY <1>1, StepPlaces
<1>3. ASSUME zeroed, file.cells # <<>> PROVE Back'
  <2>1. Laid /\ Back
    BY <1>1, <1>3, FileLaid DEF BackInv
  <2>2. CASE Tokenize
    BY <2>1, <2>2, TokenizeBack
  <2>3. CASE ParseHeaders \/ ReadString \/ ReadIntegral \/ ReadFloat \/ NextRow \/ End
    BY <1>1, <2>1, <2>3, ReadBack
  <2>4. CASE UNCHANGED vars
    <3>1. /\ UNCHANGED <<file, lexing, headers, got, state>> /\ UNCHANGED <<index, line, col, cur_col, tokens>>
          /\ UNCHANGED <<row_index, column_index, token_index>>
      BY <2>4 DEF vars, lexing, reading
    <3>2. Lexed' /\ Reading'
      <4>1. Lexed /\ Reading
        BY <2>1 DEF Back
      <4>2. /\ row_index' \in Nat /\ column_index' \in Nat
            /\ row_index' <= Height /\ column_index' <= Width
            /\ token_index' = row_index' * Width + column_index'
            /\ row_index' = Height => column_index' = 0
        BY <3>1, <4>1 DEF Reading
      <4> QED
        BY <3>1, <4>1, <4>2, LexedThen, ReadingThen
    <3>3. Stands => Stands'
      BY <3>1, StandsThen DEF Stands
    <3>4. Height' = Height /\ Size' = Size
      BY <1>1, SameFile
    <3> QED
      BY <2>1, <3>1, <3>2, <3>3, <3>4 DEF Back
  <2> QED
    BY <2>2, <2>3, <2>4 DEF Next
<1> QED
  BY <1>1, <1>2, <1>3 DEF BackInv

LEMMA BackIsReadBack == BackInv => CsvReadsBack
<1> SUFFICES ASSUME BackInv PROVE CsvReadsBack
  OBVIOUS
<1>1. TokensInOrder /\ file \in Files /\ Placed
  BY OrderedInOrder DEF BackInv, Placed
<1>2. ASSUME zeroed, file.cells # <<>>
      PROVE  ValueWritten /\ HeadersWritten /\ NothingPassedOver
  <2>1. Laid /\ Back /\ Lexed /\ Reading
    BY <1>1, <1>2, FileLaid DEF BackInv, Back
  <2>2. Height \in Nat \ {0} /\ Width \in Nat \ {0} /\ file.text \in Seq(Signs)
    BY <2>1 DEF Laid
  <2>3. ValueWritten
    BY <2>1 DEF Reading
  <2>4. state # "tokenizing" => Len(tokens) = Height * Width /\ Height * Width \in Nat
    <3>1. Height * Width \in Nat
      BY <2>2, ProductOfCounts
    <3>2. state # "tokenizing" => Len(tokens) = Height * Width + 0
      BY <2>1 DEF Lexed, Back
    <3> QED
      BY <3>1, <3>2
  <2>5. HeadersWritten
    <3> SUFFICES ASSUME headers # NoHeaders
                 PROVE  /\ Len(headers) = Len(file.cells[1])
                        /\ \A n \in 1..Len(headers) :
                             Plain(file.cells[1][n]) => headers[n] = file.cells[1][n]
      BY DEF HeadersWritten
    <3>1. headers = [n \in 1..Width |-> Text(tokens[n])] /\ state # "tokenizing"
      BY <2>1 DEF Back, Reading
    <3>2. headers \in Seq({Text(tokens[n]) : n \in 1..Width})
      BY <2>2, <3>1
    <3>3. Len(headers) = Width
      BY <2>2, <3>1, <3>2
    <3>4. ASSUME NEW n \in 1..Width, Plain(Cell(1, n)) PROVE Text(tokens[n]) = Cell(1, n)
      <4>1. 1 \in 1..Height
        BY <2>2
      <4>2. Ordinal(1, n) = n
        BY <2>2 DEF Ordinal
      <4>3. n \in 1..Len(tokens)
        <5>1. Ordinal(1, n) \in 1..Height * Width
          BY <2>2, <4>1, OrdinalFits
        <5> QED
          BY <2>4, <3>1, <4>2, <5>1
      <4>4. Inside(Text(tokens[n]), Cell(1, n))
        BY <2>1, <4>1, <4>2, <4>3 DEF Lexed, HeldIn
      <4>5. Text(tokens[n]) \in Seq(Signs)
        BY <1>1, <2>2, <4>3, TextIsPart
      <4>6. Cell(1, n) \in Seq(Signs)
        BY <2>1, <4>1 DEF Laid
      <4> QED
        BY <3>4, <4>4, <4>5, <4>6, PlainIs
    <3> QED
      BY <3>1, <3>3, <3>4 DEF Width, Cell
  <2>6. NothingPassedOver
    <3>1. state = "failed" => index >= Size
      BY <2>1 DEF Back
    <3>2. state = "read" => rows = Len(file.cells) /\ token_index = Len(tokens)
      <4> SUFFICES ASSUME state = "read" PROVE rows = Len(file.cells) /\ token_index = Len(tokens)
        OBVIOUS
      <4>1. line = Height /\ row_index = Height
        BY <2>1 DEF Back
      <4>2. token_index = Height * Width + 0
        BY <2>1, <4>1 DEF Reading
      <4> QED
        BY <2>4, <4>1, <4>2 DEF rows, Height
    <3> QED
      BY <3>1, <3>2 DEF NothingPassedOver
  <2> QED
    BY <2>3, <2>5, <2>6
<1> QED
  BY <1>1, <1>2 DEF CsvReadsBack

\* For any table, however it is written: each cell is read back in its place, the headers
\* are those that were written, no written file is refused, and nothing of it is passed
\* over, where the two locals that nothing sets are 0.
THEOREM ReadsBackWhatWasWritten == Spec => []CsvReadsBack
BY BackAtFirst, StepBack, BackIsReadBack, PTL DEF Spec

-----------------------------------------------------------------------------
(* JSON: what a list of tokens has open.                                   *)

IsRun(list, n, f) ==
  f = [m \in 0..n |-> IF m = 0 THEN <<>> ELSE J!TokenRead(f[m - 1], list[m].type)]

LEMMA RunExists ==
  ASSUME NEW list, NEW n \in Nat
  PROVE  \E f : IsRun(list, n, f)
<1> DEFINE none == {m \in Nat : ~\E f : IsRun(list, m, f)}
<1> SUFFICES ASSUME none # {} PROVE FALSE
  OBVIOUS
<1>1. PICK m \in none : \A k \in none : ~(<<k, m>> \in OpToRel(<, Nat))
  BY WFMin, NatLessThanWellFounded
<1>2. \A k \in none : ~(k < m)
  BY <1>1, Zenon DEF OpToRel
<1>3. CASE m = 0
  <2> DEFINE f == [k \in 0..0 |-> <<>>]
  <2>1. IsRun(list, 0, f)
    BY DEF IsRun
  <2> QED
    BY <1>3, <2>1
<1>4. CASE m # 0
  <2>1. m \in Nat /\ m - 1 \in Nat /\ m - 1 < m
    BY <1>4
  <2>2. PICK f : IsRun(list, m - 1, f)
    BY <1>2, <2>1
  <2> DEFINE g == [k \in 0..m |-> IF k = m THEN J!TokenRead(f[m - 1], list[m].type) ELSE f[k]]
  <2>3. ASSUME NEW k \in 0..m
        PROVE  g[k] = IF k = 0 THEN <<>> ELSE J!TokenRead(g[k - 1], list[k].type)
    <3>1. CASE k = m
      BY <1>4, <2>1, <3>1
    <3>2. CASE k # m
      <4>1. k \in 0..m - 1
        BY <2>1, <3>2
      <4>2. f[k] = IF k = 0 THEN <<>> ELSE J!TokenRead(f[k - 1], list[k].type)
        BY <2>2, <4>1 DEF IsRun
      <4>3. CASE k = 0
        BY <3>2, <4>2, <4>3
      <4>4. CASE k # 0
        <5>1. k - 1 \in 0..m /\ k - 1 # m
          BY <2>1, <4>1, <4>4
        <5> QED
          BY <3>2, <4>2, <4>4, <5>1
      <4> QED
        BY <4>3, <4>4
    <3> QED
      BY <3>1, <3>2
  <2>4. IsRun(list, m, g)
    BY <2>3 DEF IsRun
  <2> QED
    BY <2>4
<1> QED
  BY <1>3, <1>4

\* Two lists are read alike as far as they are alike.
LEMMA RunsAgree ==
  ASSUME NEW list, NEW other, NEW n \in Nat, NEW l \in Nat, n <= l,
         \A m \in 1..n : list[m] = other[m],
         NEW f, IsRun(list, n, f), NEW g, IsRun(other, l, g)
  PROVE  f[n] = g[n]
<1> DEFINE apart == {m \in Nat : m <= n /\ f[m] # g[m]}
<1> SUFFICES ASSUME apart # {} PROVE FALSE
  OBVIOUS
<1>1. PICK m \in apart : \A k \in apart : ~(<<k, m>> \in OpToRel(<, Nat))
  BY WFMin, NatLessThanWellFounded
<1>2. \A k \in apart : ~(k < m)
  BY <1>1, Zenon DEF OpToRel
<1>3. m \in 0..n /\ m \in 0..l /\ f[m] # g[m]
  OBVIOUS
<1>4. /\ f[m] = IF m = 0 THEN <<>> ELSE J!TokenRead(f[m - 1], list[m].type)
      /\ g[m] = IF m = 0 THEN <<>> ELSE J!TokenRead(g[m - 1], other[m].type)
  BY <1>3 DEF IsRun
<1>5. m # 0
  BY <1>3, <1>4
<1>6. m - 1 \in 0..n /\ m - 1 < m /\ m \in 1..n
  BY <1>3, <1>5
<1>7. f[m - 1] = g[m - 1] /\ list[m] = other[m]
  BY <1>2, <1>6
<1> QED
  BY <1>3, <1>4, <1>7

LEMMA OpenedIs ==
  ASSUME NEW list, NEW n \in Nat, Len(list) = n
  PROVE  \E f : IsRun(list, n, f) /\ J!Opened(list) = f[n]
<1> DEFINE after == CHOOSE f : IsRun(list, n, f)
<1>1. J!Opened(list) = after[n]
  BY DEF J!Opened, IsRun
<1>2. IsRun(list, n, after)
  BY RunExists
<1> QED
  BY <1>1, <1>2

\* A token more is one more that is read.
LEMMA OpenedMore ==
  ASSUME NEW S, NEW list \in Seq(S), NEW token \in S
  PROVE  J!Opened(Append(list, token)) = J!TokenRead(J!Opened(list), token.type)
<1> DEFINE n == Len(list)
           more == Append(list, token)
<1>1. /\ n \in Nat /\ Len(more) = n + 1 /\ more[n + 1] = token
      /\ \A m \in 1..n : list[m] = more[m]
  BY LenProperties, AppendProperties
<1> HIDE DEF more, n
<1>2. PICK f : IsRun(list, n, f) /\ J!Opened(list) = f[n]
  BY <1>1, OpenedIs DEF n
<1>3. PICK g : IsRun(more, n + 1, g) /\ J!Opened(more) = g[n + 1]
  BY <1>1, OpenedIs
<1>4. f[n] = g[n]
  <2>1. n + 1 \in Nat /\ n <= n + 1
    BY <1>1
  <2> QED
    BY <1>1, <1>2, <1>3, <2>1, RunsAgree
<1>5. g[n + 1] = J!TokenRead(g[n], more[n + 1].type)
  BY <1>1, <1>3 DEF IsRun
<1> QED
  BY <1>1, <1>2, <1>3, <1>4, <1>5 DEF more

LEMMA OpenedNone == J!Opened(<<>>) = <<>>
<1>1. Len(<<>>) = 0 /\ 0 \in Nat
  OBVIOUS
<1>2. PICK f : IsRun(<<>>, 0, f) /\ J!Opened(<<>>) = f[0]
  BY <1>1, OpenedIs
<1> QED
  BY <1>2 DEF IsRun

-----------------------------------------------------------------------------
(* The calls that are running tell what is open.                           *)

Kinds == {"object", "array"}
Frames(P) == [kind : Kinds, value : P, temp : P, type : J!ValueEnds \cup {J!None}]

\* An object waits for a name while its own loop is running, for the value otherwise; an
\* array for one of the type it has had.
Waits(frame, own) ==
  IF frame.kind = "object" THEN IF own THEN "object" ELSE "member"
  ELSE IF frame.type = J!None THEN "array" ELSE frame.type

Holds(calls, body) == [n \in 1..Len(calls) |-> Waits(calls[n], body /\ n = Len(calls))]

Mirrored ==
  /\ \E P : stack \in Seq(Frames(P))
  /\ \E S : jtokens \in Seq(S)
  /\ jstate = "value" => J!Opened(jtokens) = Holds(stack, FALSE)
  /\ jstate = "body" => stack # <<>> /\ J!Opened(jtokens) = Holds(stack, TRUE)
  /\ jstate = "parsed" => J!Opened(jtokens) = <<"end">>

Waitings == {"object", "member", "array"} \cup J!ValueEnds

LEMMA HoldsIs ==
  ASSUME NEW P, NEW calls \in Seq(Frames(P)), NEW body \in BOOLEAN
  PROVE  /\ Len(calls) \in Nat /\ Holds(calls, body) \in Seq(Waitings)
         /\ Len(Holds(calls, body)) = Len(calls)
         /\ \A n \in 1..Len(calls) :
              /\ calls[n] \in Frames(P)
              /\ Holds(calls, body)[n] = Waits(calls[n], body /\ n = Len(calls))
<1>1. Len(calls) \in Nat /\ \A n \in 1..Len(calls) : calls[n] \in Frames(P)
  BY LenProperties, ElementOfSeq
<1>2. ASSUME NEW n \in 1..Len(calls)
      PROVE  Waits(calls[n], body /\ n = Len(calls)) \in Waitings
  <2>1. calls[n].type \in J!ValueEnds \cup {J!None}
    BY <1>1 DEF Frames
  <2> QED
    BY <2>1 DEF Waits, Waitings
<1>3. Holds(calls, body) \in [1..Len(calls) -> Waitings]
  BY <1>2 DEF Holds
<1>4. Holds(calls, body) \in Seq(Waitings) /\ Len(Holds(calls, body)) = Len(calls)
  BY <1>1, <1>3
<1> QED
  BY <1>1, <1>4 DEF Holds

LEMMA HoldsOwn ==
  ASSUME NEW P, NEW calls \in Seq(Frames(P))
  PROVE  /\ Holds(calls, TRUE) \in Seq(Waitings)
         /\ Len(Holds(calls, TRUE)) = Len(calls)
         /\ \A n \in 1..Len(calls) :
              Holds(calls, TRUE)[n] = Waits(calls[n], TRUE /\ n = Len(calls))
BY HoldsIs

LEMMA AllButLast ==
  ASSUME NEW S, NEW s \in Seq(S), Len(s) \in 1..Len(s)
  PROVE  /\ SubSeq(s, 1, Len(s) - 1) \in Seq(S) /\ Len(SubSeq(s, 1, Len(s) - 1)) = Len(s) - 1
         /\ \A m \in 1..Len(s) - 1 : SubSeq(s, 1, Len(s) - 1)[m] = s[m]
<1>1. Len(s) \in Nat /\ Len(s) >= 1
  BY LenProperties
<1>2. 1 \in Int /\ Len(s) - 1 \in Int /\ \A m \in 1..Len(s) - 1 : s[m] \in S
  BY <1>1, ElementOfSeq
<1>3. /\ SubSeq(s, 1, Len(s) - 1) \in Seq(S)
      /\ Len(SubSeq(s, 1, Len(s) - 1)) =
           IF 1 <= Len(s) - 1 THEN Len(s) - 1 - 1 + 1 ELSE 0
      /\ \A m \in 1..Len(s) - 1 - 1 + 1 : SubSeq(s, 1, Len(s) - 1)[m] = s[1 + m - 1]
  BY <1>2, SubSeqProperties
<1> DEFINE n == Len(s)
<1>4. n - 1 - 1 + 1 = n - 1 /\ (1 <= n - 1 \/ n - 1 = 0) /\ \A m \in 1..n - 1 : 1 + m - 1 = m
  <2>1. n \in Nat /\ n >= 1
    BY <1>1
  <2> HIDE DEF n
  <2> QED
    BY <2>1
<1> DEFINE first == SubSeq(s, 1, Len(s) - 1)
<1>5. first \in Seq(S) /\ Len(first) = Len(s) - 1
  BY <1>3, <1>4
<1>6. \A m \in 1..Len(s) - 1 : first[m] = s[m]
  BY <1>3, <1>4
<1> QED
  BY <1>5, <1>6

\* The calls around the innermost one.
LEMMA OuterIs ==
  ASSUME NEW P, NEW calls \in Seq(Frames(P)), calls # <<>>
  PROVE  /\ SubSeq(calls, 1, Len(calls) - 1) \in Seq(Frames(P))
         /\ J!Outer(Holds(calls, TRUE)) = Holds(SubSeq(calls, 1, Len(calls) - 1), FALSE)
         /\ J!Inner(Holds(calls, TRUE)) = Waits(calls[Len(calls)], TRUE)
<1> DEFINE n == Len(calls)
           outer == SubSeq(calls, 1, n - 1)
           open == Holds(calls, TRUE)
<1>1. /\ n \in Nat /\ open \in Seq(Waitings) /\ Len(open) = n
      /\ \A m \in 1..n : calls[m] \in Frames(P) /\ open[m] = Waits(calls[m], TRUE /\ m = n)
  BY HoldsIs
<1>2. n \in 1..n
  <2>1. Len(calls) # 0 /\ Len(calls) \in Nat
    BY EmptySeq, LenProperties
  <2> QED
    BY <2>1
<1>3. /\ outer \in Seq(Frames(P)) /\ Len(outer) = n - 1
      /\ \A m \in 1..n - 1 : outer[m] = calls[m]
  BY <1>2, AllButLast
<1> HIDE DEF outer, n, open
<1>4. /\ J!Outer(open) \in Seq(Waitings) /\ Len(J!Outer(open)) = n - 1
      /\ \A m \in 1..n - 1 : J!Outer(open)[m] = open[m]
  BY <1>1, <1>2 DEF J!Outer
<1>5. /\ Holds(outer, FALSE) \in Seq(Waitings) /\ Len(Holds(outer, FALSE)) = n - 1
      /\ \A m \in 1..n - 1 : Holds(outer, FALSE)[m] = Waits(outer[m], FALSE)
  BY <1>3, HoldsIs
<1>6. ASSUME NEW m \in 1..n - 1 PROVE Holds(outer, FALSE)[m] = J!Outer(open)[m]
  <2>1. m \in 1..n /\ m # n
    BY <1>1
  <2>2. open[m] = Waits(calls[m], FALSE)
    BY <1>1, <2>1
  <2> QED
    BY <1>3, <1>4, <1>5, <2>2
<1>7. J!Outer(open) = Holds(outer, FALSE)
  BY <1>4, <1>5, <1>6, SeqEqual
<1>8. J!Inner(open) = Waits(calls[n], TRUE)
  <2>1. open # <<>>
    BY <1>1, <1>2
  <2>2. J!Inner(open) = open[n]
    BY <1>1, <2>1 DEF J!Inner
  <2> QED
    BY <1>1, <1>2, <2>2
<1> QED
  BY <1>3, <1>7, <1>8 DEF outer, n, open

LEMMA WiderSeq ==
  ASSUME NEW S, NEW T, S \subseteq T, NEW s \in Seq(S)
  PROVE  s \in Seq(T)
<1>1. Len(s) \in Nat /\ s \in [1..Len(s) -> S]
  BY LenProperties
<1> DEFINE n == Len(s)
<1> HIDE DEF n
<1>2. n \in Nat /\ s \in [1..n -> T]
  BY <1>1 DEF n
<1> QED
  BY <1>2

LEMMA LastSet ==
  ASSUME NEW S, NEW s \in Seq(S), NEW n \in 1..Len(s), n = Len(s), NEW x \in S,
         NEW t, t = [s EXCEPT ![n] = x]
  PROVE  /\ t \in Seq(S) /\ Len(t) = n
         /\ \A m \in 1..n : t[m] = IF m = n THEN x ELSE s[m]
BY ExceptSeq

\* The innermost call is back in its loop, with a value of that type behind it.
BackWith(calls, back, type) ==
  /\ calls # <<>> /\ Len(back) = Len(calls)
  /\ \A m \in 1..Len(calls) : m # Len(calls) => back[m] = calls[m]
  /\ back[Len(calls)].kind = calls[Len(calls)].kind /\ back[Len(calls)].type = type
  /\ J!SameType(calls[Len(calls)], type)

LEMMA BackInLoop ==
  ASSUME NEW P, NEW calls \in Seq(Frames(P)), NEW back \in Seq(Frames(P)),
         NEW type \in J!ValueEnds, BackWith(calls, back, type)
  PROVE  /\ back # <<>>
         /\ J!ValueRead(Holds(calls, FALSE), type) = Holds(back, TRUE)
<1> DEFINE n == Len(calls)
           open == Holds(calls, FALSE)
<1>1. /\ n \in Nat /\ open \in Seq(Waitings) /\ Len(open) = n
      /\ \A m \in 1..n : calls[m] \in Frames(P) /\ open[m] = Waits(calls[m], FALSE)
  BY HoldsIs
<1>2. n \in 1..n
  <2>1. Len(calls) # 0 /\ Len(calls) \in Nat
    BY EmptySeq, LenProperties DEF BackWith
  <2> QED
    BY <2>1
<1> DEFINE frame == back[n]
<1>5. /\ Len(back) = n /\ \A m \in 1..n : back[m] = IF m = n THEN frame ELSE calls[m]
      /\ frame.kind = calls[n].kind /\ frame.type = type /\ J!SameType(calls[n], type)
  BY DEF BackWith
<1> HIDE DEF frame
<1> HIDE DEF n, open
<1>6. back # <<>>
  BY <1>2, <1>5
<1>7. /\ Holds(back, TRUE) \in Seq(Waitings) /\ Len(Holds(back, TRUE)) = n
      /\ \A m \in 1..n : Holds(back, TRUE)[m] = Waits(back[m], TRUE /\ m = n)
  BY <1>5, HoldsOwn
<1> DEFINE new == IF calls[n].kind = "object" THEN "object" ELSE type
<1>8. J!ValueRead(open, type) = [open EXCEPT ![n] = new]
  <2>1. open # <<>>
    BY <1>1, <1>2
  <2>2. J!Inner(open) = Waits(calls[n], FALSE)
    BY <1>1, <1>2, <2>1 DEF J!Inner
  <2>3. CASE calls[n].kind = "object"
    BY <1>1, <2>1, <2>2, <2>3 DEF J!ValueRead, Waits
  <2>4. CASE calls[n].kind # "object"
    <3>1. calls[n].kind = "array" /\ calls[n].type \in {J!None, type}
      BY <1>1, <1>2, <1>5, <2>4 DEF Frames, Kinds, J!SameType
    <3>2. J!Inner(open) \in {"array", type} /\ J!Inner(open) # "member"
      BY <2>2, <3>1 DEF Waits, J!ValueEnds
    <3> QED
      BY <1>1, <2>1, <2>4, <3>2 DEF J!ValueRead
  <2> QED
    BY <2>3, <2>4
<1>9. new \in Waitings /\ new = Waits(frame, TRUE)
  <2>1. new = IF frame.kind = "object" THEN "object" ELSE frame.type
    BY <1>5
  <2> QED
    BY <2>1 DEF Waits, Waitings, J!None, J!ValueEnds
<1> HIDE DEF new
<1>10. /\ [open EXCEPT ![n] = new] \in Seq(Waitings) /\ Len([open EXCEPT ![n] = new]) = n
       /\ \A m \in 1..n : [open EXCEPT ![n] = new][m] = IF m = n THEN new ELSE open[m]
  <2> DEFINE t == [open EXCEPT ![n] = new]
  <2>1. open \in Seq(Waitings) /\ n \in 1..Len(open) /\ n = Len(open) /\ new \in Waitings
    BY <1>1, <1>2, <1>9
  <2>2. t = [open EXCEPT ![n] = new]
    OBVIOUS
  <2> HIDE DEF t
  <2>3. /\ t \in Seq(Waitings) /\ Len(t) = n
        /\ \A m \in 1..n : t[m] = IF m = n THEN new ELSE open[m]
    BY <2>1, <2>2, LastSet
  <2> QED
    BY <2>2, <2>3
<1>11. ASSUME NEW m \in 1..n PROVE [open EXCEPT ![n] = new][m] = Holds(back, TRUE)[m]
  <2>1. CASE m = n
    <3>1. Holds(back, TRUE)[m] = Waits(frame, TRUE)
      BY <1>5, <1>7, <2>1
    <3> QED
      BY <1>9, <1>10, <2>1, <3>1
  <2>2. CASE m # n
    <3>1. Holds(back, TRUE)[m] = Waits(calls[m], FALSE)
      BY <1>5, <1>7, <2>2
    <3> QED
      BY <1>1, <1>10, <2>2, <3>1
  <2> QED
    BY <2>1, <2>2
<1>12. [open EXCEPT ![n] = new] = Holds(back, TRUE)
  BY <1>7, <1>10, <1>11, SeqEqual
<1> QED
  BY <1>5, <1>6, <1>8, <1>12 DEF open

LEMMA ReturnsMirrored ==
  ASSUME Mirrored, NEW P, NEW calls \in Seq(Frames(P)), NEW type \in J!ValueEnds, NEW value,
         J!Returns(value, type, calls), \E S : jtokens' \in Seq(S),
         J!Opened(jtokens') = J!ValueRead(Holds(calls, FALSE), type)
  PROVE  Mirrored'
<1>1. CASE calls = <<>>
  <2>1. Holds(calls, FALSE) = <<>>
    <3>1. Holds(calls, FALSE) \in Seq(Waitings) /\ Len(Holds(calls, FALSE)) = 0
      BY <1>1, HoldsIs, EmptySeq
    <3> QED
      BY <3>1, EmptySeq
  <2>2. J!Opened(jtokens') = <<"end">>
    BY <2>1 DEF J!ValueRead
  <2>3. jstate' = "parsed" /\ stack' = calls
    BY <1>1 DEF J!Returns
  <2> QED
    BY <2>2, <2>3 DEF Mirrored
<1>2. CASE calls # <<>>
  <2> DEFINE frame == calls[Len(calls)]
             rest == J!AfterValue(frame, value)
             temp == J!Piece(rest.from + 1, rest.to)
             back == [calls EXCEPT ![Len(calls)].temp = temp, ![Len(calls)].type = type]
  <2>1. CASE jstate' = "refused" /\ UNCHANGED stack
    BY <2>1 DEF Mirrored
  <2>2. CASE J!SameType(frame, type) /\ jstate' = "body" /\ stack' = back
    <3> DEFINE n == Len(calls)
               new == [frame EXCEPT !.temp = temp, !.type = type]
               Q == P \cup {temp}
    <3>1. n \in 1..n /\ calls \in [1..n -> Frames(P)]
      <4>1. Len(calls) # 0 /\ Len(calls) \in Nat
        BY <1>2, EmptySeq, LenProperties
      <4> QED
        BY <4>1, LenProperties
    <3> HIDE DEF temp
    <3>2. /\ new \in Frames(Q) /\ new.kind = frame.kind /\ new.type = type
          /\ P \subseteq Q
      <4>1. frame \in Frames(P)
        BY <3>1
      <4> HIDE DEF frame
      <4> QED
        BY <4>1 DEF Frames
    <3>3. back = [calls EXCEPT ![n] = new]
      BY <3>1
    <3> HIDE DEF back, new, Q
    <3>4. calls \in Seq(Frames(Q))
      <4>1. Frames(P) \subseteq Frames(Q)
        BY <3>2 DEF Frames
      <4> QED
        BY <4>1, WiderSeq
    <3>5. /\ back \in Seq(Frames(Q)) /\ Len(back) = n
          /\ \A m \in 1..n : back[m] = IF m = n THEN new ELSE calls[m]
      <4>1. n \in 1..Len(calls) /\ n = Len(calls)
        BY <3>1
      <4> HIDE DEF n
      <4> QED
        BY <3>2, <3>3, <3>4, <4>1, LastSet
    <3>6. BackWith(calls, back, type)
      BY <1>2, <2>2, <3>1, <3>2, <3>5 DEF BackWith
    <3>7. back # <<>> /\ J!ValueRead(Holds(calls, FALSE), type) = Holds(back, TRUE)
      BY <3>4, <3>5, <3>6, BackInLoop
    <3> QED
      BY <2>2, <3>5, <3>7 DEF Mirrored
  <2> QED
    BY <1>2, <2>1, <2>2 DEF J!Returns
<1> QED
  BY <1>1, <1>2

LEMMA HoldsNone == ASSUME NEW body \in BOOLEAN PROVE Holds(<<>>, body) = <<>>
<1>1. <<>> \in Seq(Frames({})) /\ Len(<<>>) = 0
  BY EmptySeq
<1>2. Holds(<<>>, body) \in Seq(Waitings) /\ Len(Holds(<<>>, body)) = 0
  BY <1>1, HoldsIs
<1> QED
  BY <1>2, EmptySeq

LEMMA HoldsValue ==
  ASSUME NEW P, NEW calls \in Seq(Frames(P))
  PROVE  J!ValueExpected(Holds(calls, FALSE))
<1>1. CASE calls = <<>>
  BY <1>1, HoldsNone DEF J!ValueExpected
<1>2. CASE calls # <<>>
  <2> DEFINE n == Len(calls)
             open == Holds(calls, FALSE)
  <2>1. /\ n \in Nat /\ open \in Seq(Waitings) /\ Len(open) = n
        /\ \A m \in 1..n : calls[m] \in Frames(P) /\ open[m] = Waits(calls[m], FALSE)
    BY HoldsIs
  <2>2. n \in 1..n
    <3>1. Len(calls) # 0 /\ Len(calls) \in Nat
      BY <1>2, EmptySeq, LenProperties
    <3> QED
      BY <3>1
  <2> HIDE DEF n, open
  <2>3. J!Inner(open) = Waits(calls[n], FALSE)
    <3>1. open # <<>>
      BY <2>1, <2>2
    <3> QED
      BY <2>1, <2>2, <3>1 DEF J!Inner
  <2>4. Waits(calls[n], FALSE) \in J!ValueEnds \cup {"member", "array"}
    <3>1. calls[n].type \in J!ValueEnds \cup {J!None}
      BY <2>1, <2>2 DEF Frames
    <3> QED
      BY <3>1 DEF Waits
  <2> QED
    BY <2>3, <2>4 DEF J!ValueExpected, open
<1> QED
  BY <1>1, <1>2

\* A call more, in its own loop.
LEMMA HoldsMore ==
  ASSUME NEW P, NEW calls \in Seq(Frames(P)), NEW frame \in Frames(P), NEW body \in BOOLEAN
  PROVE  Append(Holds(calls, FALSE), Waits(frame, body)) = Holds(Append(calls, frame), body)
<1> DEFINE n == Len(calls)
           open == Holds(calls, FALSE)
           more == Append(calls, frame)
           x == Waits(frame, body)
<1>1. /\ n \in Nat /\ open \in Seq(Waitings) /\ Len(open) = n
      /\ \A m \in 1..n : open[m] = Waits(calls[m], FALSE)
  BY HoldsIs
<1>2. /\ more \in Seq(Frames(P)) /\ Len(more) = n + 1
      /\ \A m \in 1..n : more[m] = calls[m]
      /\ more[n + 1] = frame
  BY AppendProperties
<1>3. x \in Waitings
  <2>1. frame.type \in J!ValueEnds \cup {J!None}
    BY DEF Frames
  <2> QED
    BY <2>1 DEF Waits, Waitings
<1> HIDE DEF n, open, more, x
<1>4. /\ Append(open, x) \in Seq(Waitings) /\ Len(Append(open, x)) = n + 1
      /\ \A m \in 1..n : Append(open, x)[m] = open[m]
      /\ Append(open, x)[n + 1] = x
  BY <1>1, <1>3, AppendProperties
<1>5. /\ Holds(more, body) \in Seq(Waitings) /\ Len(Holds(more, body)) = n + 1
      /\ \A m \in 1..n + 1 : Holds(more, body)[m] = Waits(more[m], body /\ m = n + 1)
  BY <1>2, HoldsIs
<1>6. ASSUME NEW m \in 1..n + 1 PROVE Append(open, x)[m] = Holds(more, body)[m]
  <2>1. CASE m = n + 1
    <3>1. Holds(more, body)[m] = Waits(frame, body)
      BY <1>2, <1>5, <2>1
    <3> QED
      BY <1>4, <2>1, <3>1 DEF x
  <2>2. CASE m # n + 1
    <3>1. m \in 1..n
      BY <1>1, <2>2
    <3>2. Holds(more, body)[m] = Waits(calls[m], FALSE)
      BY <1>2, <1>5, <2>2, <3>1
    <3> QED
      BY <1>1, <1>4, <3>1, <3>2
  <2> QED
    BY <2>1, <2>2
<1>7. Append(open, x) = Holds(more, body)
  BY <1>4, <1>5, <1>6, SeqEqual
<1> QED
  BY <1>7 DEF open, more, x

LEMMA InnerCall ==
  ASSUME NEW P, NEW calls \in Seq(Frames(P)), calls # <<>>
  PROVE  /\ calls[Len(calls)] \in Frames(P)
         /\ SubSeq(calls, 1, Len(calls) - 1) \in Seq(Frames(P))
         /\ calls = Append(SubSeq(calls, 1, Len(calls) - 1), calls[Len(calls)])
<1> DEFINE n == Len(calls)
           outer == SubSeq(calls, 1, n - 1)
           last == calls[n]
<1>1. n \in 1..n /\ n \in Nat
  <2>1. Len(calls) # 0 /\ Len(calls) \in Nat
    BY EmptySeq, LenProperties
  <2> QED
    BY <2>1
<1>2. last \in Frames(P)
  BY <1>1, ElementOfSeq
<1>3. /\ outer \in Seq(Frames(P)) /\ Len(outer) = n - 1
      /\ \A m \in 1..n - 1 : outer[m] = calls[m]
  BY <1>1, AllButLast
<1>4. Len(calls) = n
  OBVIOUS
<1>5. calls[n] = last
  OBVIOUS
<1> HIDE DEF n, outer, last
<1>6. /\ Append(outer, last) \in Seq(Frames(P)) /\ Len(Append(outer, last)) = n - 1 + 1
      /\ \A m \in 1..n - 1 : Append(outer, last)[m] = outer[m]
      /\ Append(outer, last)[n - 1 + 1] = last
  BY <1>2, <1>3, AppendProperties
<1>7. ASSUME NEW m \in 1..n PROVE calls[m] = Append(outer, last)[m]
  <2>1. m \in 1..n - 1 \/ m = n - 1 + 1
    BY <1>1
  <2> QED
    BY <1>1, <1>3, <1>5, <1>6, <2>1
<1>8. n - 1 + 1 = n
  BY <1>1
<1>9. calls = Append(outer, last)
  BY <1>4, <1>6, <1>7, <1>8, SeqEqual
<1> QED
  BY <1>2, <1>3, <1>9 DEF outer, last, n

-----------------------------------------------------------------------------
(* The steps of the parser.                                                *)

LEMMA TokenMore ==
  ASSUME Mirrored, NEW token, jtokens' = Append(jtokens, token)
  PROVE  /\ \E S : jtokens' \in Seq(S)
         /\ J!Opened(jtokens') = J!TokenRead(J!Opened(jtokens), token.type)
<1>1. PICK S : jtokens \in Seq(S)
  BY DEF Mirrored
<1> DEFINE T == S \cup {token}
<1>2. jtokens \in Seq(T) /\ token \in T
  <2>1. S \subseteq T
    OBVIOUS
  <2> HIDE DEF T
  <2>2. jtokens \in Seq(T)
    BY <1>1, <2>1, WiderSeq
  <2> QED
    BY <2>2 DEF T
<1> HIDE DEF T
<1>3. Append(jtokens, token) \in Seq(T)
  BY <1>2, AppendProperties
<1>4. J!Opened(Append(jtokens, token)) = J!TokenRead(J!Opened(jtokens), token.type)
  BY <1>2, OpenedMore
<1> QED
  BY <1>3, <1>4

LEMMA StopMirrored ==
  ASSUME Mirrored, UNCHANGED <<stack, jtokens>>, jstate' \in {"refused", "looping"}
  PROVE  Mirrored'
BY DEF Mirrored

LEMMA LeafMirrored ==
  ASSUME Mirrored, jstate = "value", NEW type \in {"symbol", "number"}, NEW token,
         token.type = type, jtokens' = Append(jtokens, token),
         NEW value, J!Returns(value, type, stack)
  PROVE  Mirrored'
<1>1. PICK P : stack \in Seq(Frames(P))
  BY DEF Mirrored
<1>2. /\ \E S : jtokens' \in Seq(S)
      /\ J!Opened(jtokens') = J!TokenRead(Holds(stack, FALSE), type)
  BY TokenMore DEF Mirrored
<1>3. J!ValueExpected(Holds(stack, FALSE))
  BY <1>1, HoldsValue
<1>4. J!Opened(jtokens') = J!ValueRead(Holds(stack, FALSE), type)
  BY <1>2, <1>3 DEF J!TokenRead
<1>5. type \in J!ValueEnds
  BY DEF J!ValueEnds
<1> QED
  BY <1>1, <1>2, <1>4, <1>5, ReturnsMirrored

LEMMA OpenMirrored ==
  ASSUME Mirrored, NEW kind \in Kinds, J!Open(kind)
  PROVE  Mirrored'
<1>1. CASE J!Refuses
  BY <1>1, StopMirrored DEF J!Refuses
<1>2. CASE ~J!Refuses
  <2>1. PICK value, temp, token :
          /\ stack' = Append(stack, [kind |-> kind, value |-> value, type |-> J!None,
                                     temp |-> temp])
          /\ jtokens' = Append(jtokens, token) /\ token.type = J!StartType(kind)
          /\ jstate = "value" /\ jstate' = "body"
    BY <1>2 DEF J!Open, J!InValue, J!Token
  <2>2. PICK P : stack \in Seq(Frames(P))
    BY DEF Mirrored
  <2> DEFINE Q == P \cup {value, temp}
             frame == [kind |-> kind, value |-> value, type |-> J!None, temp |-> temp]
  <2>3. frame \in Frames(Q) /\ Waits(frame, TRUE) = kind
    BY DEF Frames, Kinds, Waits
  <2>4. stack \in Seq(Frames(Q))
    <3>1. Frames(P) \subseteq Frames(Q)
      BY DEF Frames
    <3> QED
      BY <2>2, <3>1, WiderSeq
  <2>5. stack' = Append(stack, frame)
    BY <2>1
  <2> HIDE DEF Q, frame
  <2>6. stack' \in Seq(Frames(Q)) /\ stack' # <<>>
    BY <2>3, <2>4, <2>5, AppendProperties
  <2>7. Append(Holds(stack, FALSE), Waits(frame, TRUE)) = Holds(Append(stack, frame), TRUE)
    BY <2>3, <2>4, HoldsMore
  <2>8. /\ \E S : jtokens' \in Seq(S)
        /\ J!Opened(jtokens') = J!TokenRead(Holds(stack, FALSE), J!StartType(kind))
    BY <2>1, TokenMore DEF Mirrored
  <2>9. J!ValueExpected(Holds(stack, FALSE))
    BY <2>2, HoldsValue
  <2>10. J!TokenRead(Holds(stack, FALSE), J!StartType(kind)) = Append(Holds(stack, FALSE), kind)
    BY <2>9 DEF J!TokenRead, J!StartType, Kinds
  <2> QED
    BY <2>1, <2>3, <2>5, <2>6, <2>7, <2>8, <2>10 DEF Mirrored
<1> QED
  BY <1>1, <1>2

LEMMA MemberMirrored ==
  ASSUME Mirrored, J!Member
  PROVE  Mirrored'
<1>1. CASE J!Refuses \/ J!Loops
  BY <1>1, StopMirrored DEF J!Refuses, J!Loops
<1>2. CASE ~(J!Refuses \/ J!Loops)
  <2>1. PICK token :
          /\ jtokens' = Append(jtokens, token) /\ token.type = "name"
          /\ stack[Len(stack)].kind = "object"
          /\ jstate = "body" /\ jstate' = "value" /\ UNCHANGED stack
    BY <1>2 DEF J!Member, J!InBody, J!Top, J!Token
  <2>2. PICK P : stack \in Seq(Frames(P))
    BY DEF Mirrored
  <2>3. stack # <<>> /\ J!Opened(jtokens) = Holds(stack, TRUE)
    BY <2>1 DEF Mirrored
  <2> DEFINE last == stack[Len(stack)]
             outer == SubSeq(stack, 1, Len(stack) - 1)
  <2>4. last \in Frames(P) /\ outer \in Seq(Frames(P)) /\ stack = Append(outer, last)
    BY <2>2, <2>3, InnerCall
  <2>5. /\ J!Outer(Holds(stack, TRUE)) = Holds(outer, FALSE)
        /\ J!Inner(Holds(stack, TRUE)) = "object"
    BY <2>1, <2>2, <2>3, OuterIs DEF Waits
  <2>6. Waits(last, FALSE) = "member"
    BY <2>1 DEF Waits
  <2> HIDE DEF last, outer
  <2>7. Append(Holds(outer, FALSE), Waits(last, FALSE)) = Holds(Append(outer, last), FALSE)
    BY <2>4, HoldsMore
  <2>8. /\ \E S : jtokens' \in Seq(S)
        /\ J!Opened(jtokens') = J!TokenRead(Holds(stack, TRUE), "name")
    BY <2>1, <2>3, TokenMore
  <2>9. J!TokenRead(Holds(stack, TRUE), "name") = Append(Holds(outer, FALSE), "member")
    BY <2>5 DEF J!TokenRead
  <2>10. J!Opened(jtokens') = Holds(stack, FALSE)
    BY <2>4, <2>6, <2>7, <2>8, <2>9
  <2> QED
    BY <2>1, <2>2, <2>8, <2>10 DEF Mirrored
<1> QED
  BY <1>1, <1>2

\* An array waits for the same, whether its own loop is running or an element's call.
LEMMA ElementMirrored ==
  ASSUME Mirrored, J!Element
  PROVE  Mirrored'
<1>1. /\ stack[Len(stack)].kind = "array" /\ jstate = "body" /\ jstate' = "value"
      /\ UNCHANGED <<stack, jtokens>>
  BY DEF J!Element, J!InBody, J!Top
<1>2. J!Opened(jtokens) = Holds(stack, TRUE)
  BY <1>1 DEF Mirrored
<1>3. ASSUME NEW n \in 1..Len(stack)
      PROVE  Waits(stack[n], TRUE /\ n = Len(stack)) = Waits(stack[n], FALSE /\ n = Len(stack))
  BY <1>1 DEF Waits
<1>4. Holds(stack, TRUE) = Holds(stack, FALSE)
  BY <1>3 DEF Holds
<1> QED
  BY <1>1, <1>2, <1>4 DEF Mirrored

LEMMA CloseMirrored ==
  ASSUME Mirrored, NEW kind \in Kinds, J!Close(kind)
  PROVE  Mirrored'
<1> DEFINE type == J!EndType(kind)
           outer == SubSeq(stack, 1, Len(stack) - 1)
<1>1. PICK token, value :
        /\ jtokens' = Append(jtokens, token) /\ token.type = type
        /\ stack[Len(stack)].kind = kind /\ jstate = "body"
        /\ J!Returns(value, type, outer)
  BY DEF J!Close, J!InBody, J!Top, J!Token, J!Callers
<1>2. PICK P : stack \in Seq(Frames(P))
  BY DEF Mirrored
<1>3. stack # <<>> /\ J!Opened(jtokens) = Holds(stack, TRUE)
  BY <1>1 DEF Mirrored
<1>4. stack[Len(stack)] \in Frames(P) /\ outer \in Seq(Frames(P))
  BY <1>2, <1>3, InnerCall
<1>5. /\ J!Outer(Holds(stack, TRUE)) = Holds(outer, FALSE)
      /\ J!Inner(Holds(stack, TRUE)) = Waits(stack[Len(stack)], TRUE)
  BY <1>2, <1>3, OuterIs
<1>6. IF kind = "object" THEN Waits(stack[Len(stack)], TRUE) = "object"
      ELSE kind = "array" /\ Waits(stack[Len(stack)], TRUE) \in J!ValueEnds \cup {"array"}
  <2>1. stack[Len(stack)].type \in J!ValueEnds \cup {J!None}
    BY <1>4 DEF Frames
  <2> QED
    BY <1>1, <2>1 DEF Waits, Kinds
<1>7. type = (IF kind = "object" THEN "objectEnd" ELSE "arrayEnd") /\ type \in J!ValueEnds
  BY DEF J!EndType, J!ValueEnds
<1> HIDE DEF outer, type
<1>8. /\ \E S : jtokens' \in Seq(S)
      /\ J!Opened(jtokens') = J!TokenRead(Holds(stack, TRUE), type)
  BY <1>1, <1>3, TokenMore
<1>9. J!TokenRead(Holds(stack, TRUE), type) = J!ValueRead(Holds(outer, FALSE), type)
  BY <1>5, <1>6, <1>7 DEF J!TokenRead
<1> QED
  BY <1>1, <1>4, <1>7, <1>8, <1>9, ReturnsMirrored

LEMMA StartsMirrored == J!Init => Mirrored
<1> SUFFICES ASSUME J!Init PROVE Mirrored
  OBVIOUS
<1>1. stack = <<>> /\ jtokens = <<>> /\ jstate = "value"
  BY DEF J!Init
<1>2. <<>> \in Seq(Frames({})) /\ <<>> \in Seq({})
  BY EmptySeq
<1>3. J!Opened(<<>>) = Holds(<<>>, FALSE)
  BY OpenedNone, HoldsNone
<1> QED
  BY <1>1, <1>2, <1>3 DEF Mirrored

LEMMA StaysMirrored ==
  ASSUME Mirrored, [J!Next]_(J!vars)
  PROVE  Mirrored'
<1>1. CASE J!NoValue
  BY <1>1, StopMirrored DEF J!NoValue, J!Refuses
<1>2. CASE J!Symbol
  <2>1. CASE J!Refuses \/ J!Loops
    BY <2>1, StopMirrored DEF J!Refuses, J!Loops
  <2>2. CASE ~(J!Refuses \/ J!Loops)
    <3>1. PICK token, value :
            /\ jtokens' = Append(jtokens, token) /\ token.type = "symbol"
            /\ jstate = "value" /\ J!Returns(value, "symbol", stack)
      BY <1>2, <2>2 DEF J!Symbol, J!InValue, J!Token
    <3> QED
      BY <3>1, LeafMirrored
  <2> QED
    BY <2>1, <2>2
<1>3. CASE J!Number
  <2>1. CASE J!Refuses
    BY <2>1, StopMirrored DEF J!Refuses
  <2>2. CASE ~J!Refuses
    <3>1. PICK token, value :
            /\ jtokens' = Append(jtokens, token) /\ token.type = "number"
            /\ jstate = "value" /\ J!Returns(value, "number", stack)
      BY <1>3, <2>2 DEF J!Number, J!InValue, J!Token
    <3> QED
      BY <3>1, LeafMirrored
  <2> QED
    BY <2>1, <2>2
<1>4. CASE J!Member
  BY <1>4, MemberMirrored
<1>5. CASE J!Element
  BY <1>5, ElementMirrored
<1>6. ASSUME NEW kind \in Kinds, J!Open(kind) PROVE Mirrored'
  BY <1>6, OpenMirrored
<1>7. ASSUME NEW kind \in Kinds, J!Close(kind) PROVE Mirrored'
  BY <1>7, CloseMirrored
<1>8. CASE UNCHANGED J!vars
  BY <1>8 DEF J!vars, Mirrored
<1> QED
  BY <1>1, <1>2, <1>3, <1>4, <1>5, <1>6, <1>7, <1>8 DEF J!Next, Kinds

LEMMA MirroredNests == Mirrored => TokensNest
<1> SUFFICES ASSUME Mirrored PROVE TokensNest
  OBVIOUS
<1>1. ASSUME jstate \in {"value", "body"}
      PROVE  /\ J!Opened(jtokens) # J!Astray /\ Len(J!Opened(jtokens)) = Len(stack)
             /\ \A n \in 1..Len(stack) :
                  stack[n].kind = "object" <=> J!Opened(jtokens)[n] \in {"object", "member"}
  <2>1. PICK P : stack \in Seq(Frames(P))
    BY DEF Mirrored
  <2>2. PICK body \in BOOLEAN : J!Opened(jtokens) = Holds(stack, body)
    BY <1>1 DEF Mirrored
  <2> DEFINE open == Holds(stack, body)
  <2>3. /\ Len(stack) \in Nat /\ open \in Seq(Waitings) /\ Len(open) = Len(stack)
        /\ \A n \in 1..Len(stack) :
             stack[n] \in Frames(P) /\ open[n] = Waits(stack[n], body /\ n = Len(stack))
    BY <2>1, HoldsIs
  <2> HIDE DEF open
  <2>4. ASSUME open = J!Astray PROVE FALSE
    <3>1. Len(J!Astray) = 1 /\ J!Astray[1] = "astray"
      BY DEF J!Astray
    <3>2. open[1] \in Waitings
      BY <2>3, <2>4, <3>1, ElementOfSeq
    <3> QED
      BY <2>4, <3>1, <3>2 DEF Waitings, J!ValueEnds
  <2>5. ASSUME NEW n \in 1..Len(stack)
        PROVE  stack[n].kind = "object" <=> open[n] \in {"object", "member"}
    <3>1. /\ stack[n].kind \in Kinds /\ stack[n].type \in J!ValueEnds \cup {J!None}
          /\ open[n] = Waits(stack[n], body /\ n = Len(stack))
      BY <2>3 DEF Frames
    <3>2. CASE stack[n].kind = "object"
      BY <3>1, <3>2 DEF Waits
    <3>3. CASE stack[n].kind # "object"
      <4>1. open[n] \in J!ValueEnds \cup {"array"}
        BY <3>1, <3>3 DEF Waits
      <4> QED
        BY <3>3, <4>1 DEF J!ValueEnds
    <3> QED
      BY <3>2, <3>3
  <2> QED
    BY <2>2, <2>3, <2>4, <2>5 DEF open
<1> QED
  BY <1>1 DEF TokensNest, J!TokensNest, Mirrored

\* The tokens of every document that is not refused nest, however deep its objects and
\* arrays are in one another: json_tokenize gives the tokens of one value, although each
\* of the calls that are running appends to the same list.
THEOREM TokensOfAValue == J!Spec => []TokensNest
<1>1. J!Init => Mirrored
  BY StartsMirrored
<1>2. Mirrored /\ [J!Next]_(J!vars) => Mirrored'
  BY StaysMirrored
<1> QED
  BY <1>1, <1>2, MirroredNests, PTL DEF J!Spec

==============================================================================
