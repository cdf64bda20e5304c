---------------------------- MODULE TableProofs ----------------------------
(***************************************************************************)
(* Proofs about Table for every set of column names, of types and of cells *)
(* and every list of rows a program may add.  Of every program: that no    *)
(* two columns have one name.  Of careful programs: that a table, which is *)
(* columns of cells, each moved about on its own, is at each moment a      *)
(* header and rows, and that every operation does to these what Rows says. *)
(***************************************************************************)
EXTENDS Table, TLAPS, FiniteSetTheorems, SequenceTheorems, WellFoundedInduction

-----------------------------------------------------------------------------
(* Sets of numbers.                                                        *)

LEMMA LeastExists ==
  ASSUME NEW S, S # {}, \A m \in S : m \in Nat
  PROVE  \E n \in S : \A m \in S : n <= m
<1>1. PICK n \in S : \A m \in S : ~ (<<m, n>> \in OpToRel(<, Nat))
  BY WFMin, NatLessThanWellFounded
<1>2. \A m \in S : ~ (m < n)
  BY <1>1, Zenon DEF OpToRel
<1> QED
  BY <1>2

LEMMA MinIsIn ==
  ASSUME NEW S, S # {}, \A m \in S : m \in Nat
  PROVE  Min(S) \in S /\ \A m \in S : Min(S) <= m
BY LeastExists DEF Min

\* The largest of some numbers up to n is the one that leaves least to n.
LEMMA MaxIsIn ==
  ASSUME NEW n \in Nat, NEW S, S # {}, \A m \in S : m \in Nat /\ m <= n
  PROVE  Max(S) \in S /\ \A m \in S : m <= Max(S)
<1> DEFINE left == {n - m : m \in S}
<1>1. (\A l \in left : l \in Nat) /\ left # {}
  OBVIOUS
<1>2. PICK l \in left : \A k \in left : l <= k
  BY <1>1, LeastExists
<1>3. PICK x \in S : l = n - x
  OBVIOUS
<1>4. \A m \in S : m <= x
  <2> TAKE m \in S
  <2>1. n - m \in left
    OBVIOUS
  <2>2. n - x <= n - m
    BY <1>2, <1>3, <2>1
  <2>3. m \in Nat /\ x \in Nat
    OBVIOUS
  <2> HIDE DEF left
  <2> QED
    BY <2>2, <2>3
<1>5. \E y \in S : \A m \in S : y >= m
  BY <1>4
<1> QED
  BY <1>5 DEF Max

\* Where k is no more than the number of places there is a k-th of them.
LEMMA NthIsIn ==
  ASSUME NEW n \in Nat, NEW places, \A p \in places : p \in 1..n,
         NEW k \in 1..Cardinality(places)
  PROVE  Nth(places, k) \in places
<1> DEFINE upTo(m) == {p \in places : p <= m}
           enough == {m \in Nat : Cardinality(upTo(m)) >= k}
<1>1. IsFiniteSet(places) /\ Cardinality(places) \in Nat
  <2>1. places \in SUBSET (1..n)
    OBVIOUS
  <2>2. IsFiniteSet(1..n)
    BY FS_Interval
  <2> QED
    BY <2>1, <2>2, FS_Subset, FS_CardinalityType
<1>2. ASSUME NEW m \in Int
      PROVE  IsFiniteSet(upTo(m)) /\ Cardinality(upTo(m)) \in Nat
  <2>1. upTo(m) \in SUBSET places
    OBVIOUS
  <2> QED
    BY <1>1, <2>1, FS_Subset, FS_CardinalityType
<1>3. n \in enough
  <2>1. upTo(n) = places
    OBVIOUS
  <2> QED
    BY <1>1, <2>1
<1>4. PICK m \in enough : \A l \in enough : m <= l
  BY <1>3, LeastExists
<1>5. m \in Nat /\ Cardinality(upTo(m)) >= k /\ k \in Nat /\ k > 0
  BY <1>1, <1>4
<1>6. m # 0
  <2>1. upTo(0) = {}
    OBVIOUS
  <2>2. Cardinality(upTo(0)) = 0
    BY <2>1, FS_EmptySet
  <2> QED
    BY <1>5, <2>2
<1>7. m - 1 \in Nat /\ Cardinality(upTo(m - 1)) < k
  <2>1. m - 1 \in Nat /\ ~(m <= m - 1)
    BY <1>5, <1>6
  <2>2. m - 1 \notin enough
    BY <1>4, <2>1
  <2> QED
    BY <1>2, <1>5, <2>1, <2>2
<1>8. m \in places
  <2> SUFFICES ASSUME m \notin places PROVE FALSE
    OBVIOUS
  <2>1. upTo(m) = upTo(m - 1)
    BY <1>5
  <2> HIDE DEF upTo
  <2> QED
    BY <1>2, <1>5, <1>7, <2>1
<1>9. upTo(m) = upTo(m - 1) \cup {m} /\ m \notin upTo(m - 1)
  <2>1. \A p \in places : p <= m <=> p <= m - 1 \/ p = m
    BY <1>5
  <2>2. ~(m <= m - 1)
    BY <1>5
  <2> QED
    BY <1>8, <2>1, <2>2
<1>10. Cardinality(upTo(m)) = Cardinality(upTo(m - 1)) + 1
  <2> HIDE DEF upTo
  <2>1. IsFiniteSet(upTo(m - 1))
    BY <1>2, <1>7
  <2> QED
    BY <1>9, <2>1, FS_AddElement
<1>11. Cardinality(upTo(m)) = k
  <2> HIDE DEF upTo
  <2> QED
    BY <1>2, <1>5, <1>7, <1>10
<1>12. \E p \in places : Cardinality({q \in places : q <= p}) = k
  BY <1>8, <1>11
<1> QED
  BY <1>12 DEF Nth

\* Of one place the first is that one.
LEMMA NthOfOne ==
  ASSUME NEW n \in Int
  PROVE  Cardinality({n}) = 1 /\ Nth({n}, 1) = n
<1>1. Cardinality({n}) = 1
  BY FS_Singleton
<1>2. {m \in {n} : m <= n} = {n}
  OBVIOUS
<1>3. \E p \in {n} : Cardinality({q \in {n} : q <= p}) = 1
  BY <1>1, <1>2
<1> QED
  BY <1>1, <1>3 DEF Nth

-----------------------------------------------------------------------------
(* Sequences.                                                              *)

LEMMA SeqOfFunction ==
  ASSUME NEW S, NEW n \in Nat, NEW f \in [1..n -> S]
  PROVE  f \in Seq(S) /\ Len(f) = n
OBVIOUS

\* A gap closed leaves one place less, what was last being where the gap was.
LEMMA ClosedIs ==
  ASSUME NEW S, NEW s \in Seq(S), NEW n \in 1..Len(s)
  PROVE  /\ Closed(s, n) \in Seq(S) /\ Len(Closed(s, n)) = Len(s) - 1
         /\ \A m \in 1..Len(s) - 1 :
              Closed(s, n)[m] = IF m = n THEN s[Len(s)] ELSE s[m]
<1> DEFINE t == [s EXCEPT ![n] = s[Len(s)]]
<1>1. Len(s) \in Nat /\ Len(s) >= 1 /\ Len(s) \in 1..Len(s)
  BY LenProperties
<1>2. /\ t \in Seq(S) /\ Len(t) = Len(s)
      /\ \A m \in 1..Len(s) : t[m] = IF m = n THEN s[Len(s)] ELSE s[m]
  BY <1>1, ElementOfSeq, ExceptSeq
<1> HIDE DEF t
<1>3. 1 \in Int /\ Len(s) - 1 \in Int /\ \A m \in 1..Len(s) - 1 : t[m] \in S
  BY <1>1, <1>2, ElementOfSeq
<1>4. /\ SubSeq(t, 1, Len(s) - 1) \in Seq(S)
      /\ Len(SubSeq(t, 1, Len(s) - 1)) =
           IF 1 <= Len(s) - 1 THEN Len(s) - 1 - 1 + 1 ELSE 0
      /\ \A m \in 1..Len(s) - 1 - 1 + 1 : SubSeq(t, 1, Len(s) - 1)[m] = t[1 + m - 1]
  BY <1>3, SubSeqProperties
<1>5. Closed(s, n) = SubSeq(t, 1, Len(s) - 1)
  BY <1>2 DEF Closed, t
<1> QED
  BY <1>1, <1>2, <1>4, <1>5

LEMMA ExtendedIs ==
  ASSUME NEW s \in Seq(Cells), NEW n \in Int
  PROVE  Extended(s, n) \in Seq(Cells)
<1> DEFINE k == IF n - Len(s) < 0 THEN 0 ELSE n - Len(s)
           new == [m \in 1..(n - Len(s)) |-> Junk]
<1>1. k \in Nat /\ 1..(n - Len(s)) = 1..k /\ Junk \in Cells
  BY LenProperties DEF Cells
<1>2. new \in [1..k -> Cells]
  BY <1>1
<1>3. new \in Seq(Cells)
  <2> HIDE DEF new, k
  <2> QED
    BY <1>1, <1>2, SeqOfFunction
<1> QED
  BY <1>3, ConcatProperties DEF Extended

LEMMA GivenIs ==
  ASSUME NEW cells \in Seq(Values)
  PROVE  Given(cells) \in Seq(Values)
<1> DEFINE zeros == {n \in 1..Len(cells) : cells[n] = 0}
<1>1. CASE zeros = {}
  BY <1>1 DEF Given
<1>2. CASE zeros # {}
  <2>1. \A n \in zeros : n \in Nat
    OBVIOUS
  <2>2. Min(zeros) \in 1..Len(cells)
    BY <1>2, <2>1, MinIsIn
  <2>3. \A m \in 1..(Min(zeros) - 1) : cells[m] \in Values
    BY <2>2, ElementOfSeq
  <2>4. SubSeq(cells, 1, Min(zeros) - 1) \in Seq(Values)
    BY <2>2, <2>3, SubSeqProperties
  <2> QED
    BY <1>2, <2>4 DEF Given
<1> QED
  BY <1>1, <1>2

-----------------------------------------------------------------------------
(* What every program keeps to: the types, and one column to a name.       *)

LEMMA ColumnIs ==
  ASSUME TypeOK, NEW c \in 1..Width
  PROVE  /\ columns[c] \in Columns /\ columns[c].name \in Names
         /\ columns[c].type \in Types /\ columns[c].cells \in Seq(Cells)
         /\ Len(columns[c].cells) \in Nat
         /\ columns[c] = [name |-> columns[c].name, type |-> columns[c].type,
                          cells |-> columns[c].cells]
<1>1. columns[c] \in Columns
  BY ElementOfSeq DEF TypeOK, Width
<1> QED
  BY <1>1, LenProperties DEF Columns

LEMMA WidthIs == ASSUME TypeOK PROVE Width \in Nat
BY LenProperties DEF TypeOK, Width

\* Columns of other cells are columns, under the names they had.
LEMMA OtherCells ==
  ASSUME TypeOK, NEW f, \A c \in 1..Width : f[c] \in Seq(Cells),
         NEW new, new = [c \in 1..Width |-> [columns[c] EXCEPT !.cells = f[c]]]
  PROVE  /\ new \in Seq(Columns) /\ Len(new) = Width
         /\ \A c \in 1..Width : new[c].name = columns[c].name /\ new[c].cells = f[c]
<1>1. ASSUME NEW c \in 1..Width
      PROVE  /\ [columns[c] EXCEPT !.cells = f[c]] \in Columns
             /\ [columns[c] EXCEPT !.cells = f[c]].name = columns[c].name
             /\ [columns[c] EXCEPT !.cells = f[c]].cells = f[c]
  BY ColumnIs DEF Columns
<1>2. new \in [1..Width -> Columns]
  BY <1>1
<1>3. new \in Seq(Columns) /\ Len(new) = Width
  BY <1>2, WidthIs, SeqOfFunction
<1> QED
  BY <1>1, <1>3

LEMMA TargetIs ==
  ASSUME TypeOK, NEW headers, Known(headers), NEW n \in 1..Len(headers)
  PROVE  /\ Target(headers, n) \in 1..Width
         /\ columns[Target(headers, n)].name = headers[n]
<1>1. ColumnsNamed(headers[n]) # {} /\ \A c \in ColumnsNamed(headers[n]) : c \in Nat
  BY WidthIs DEF Known, ColumnsNamed
<1>2. Min(ColumnsNamed(headers[n])) \in ColumnsNamed(headers[n])
  BY <1>1, MinIsIn
<1> QED
  BY <1>2 DEF ColumnsNamed, Target

LEMMA ForIs ==
  ASSUME NEW c, NEW headers, NEW S, NEW cells \in Seq(S)
  PROVE  /\ Cardinality(For(c, headers, cells)) \in Nat
         /\ \A k \in 1..Cardinality(For(c, headers, cells)) :
              Nth(For(c, headers, cells), k) \in For(c, headers, cells)
<1> DEFINE mine == For(c, headers, cells)
<1>1. Len(cells) \in Nat /\ \A n \in mine : n \in 1..Len(cells)
  BY LenProperties DEF For
<1>2. IsFiniteSet(1..Len(cells)) /\ mine \in SUBSET (1..Len(cells))
  BY <1>1, FS_Interval
<1> HIDE DEF mine
<1>3. Cardinality(mine) \in Nat
  BY <1>2, FS_Subset, FS_CardinalityType
<1>4. \A k \in 1..Cardinality(mine) : Nth(mine, k) \in mine
  BY <1>1, NthIsIn
<1> QED
  BY <1>3, <1>4 DEF mine

LEMMA WithCellsIs ==
  ASSUME NEW S, Values \subseteq S, NEW c, columns[c].cells \in Seq(S),
         NEW headers, NEW cells \in Seq(Values)
  PROVE  LET mine == For(c, headers, cells)
         IN  /\ WithCells(c, headers, cells) \in Seq(S)
             /\ Len(WithCells(c, headers, cells)) = Len(columns[c].cells) + Cardinality(mine)
             /\ \A n \in 1..Len(columns[c].cells) :
                  WithCells(c, headers, cells)[n] = columns[c].cells[n]
             /\ \A k \in 1..Cardinality(mine) :
                  WithCells(c, headers, cells)[Len(columns[c].cells) + k] = cells[Nth(mine, k)]
<1> DEFINE mine == For(c, headers, cells)
           own == columns[c].cells
           more == [k \in 1..Cardinality(mine) |-> cells[Nth(mine, k)]]
<1>1. Cardinality(mine) \in Nat /\ \A k \in 1..Cardinality(mine) : Nth(mine, k) \in 1..Len(cells)
  BY ForIs DEF For
<1>2. more \in [1..Cardinality(mine) -> S]
  BY <1>1, ElementOfSeq
<1>3. WithCells(c, headers, cells) = own \o more
  BY DEF WithCells
<1> HIDE DEF mine
<1>4. \A k \in 1..Cardinality(mine) : more[k] = cells[Nth(mine, k)]
  OBVIOUS
<1> HIDE DEF own, more
<1>5. more \in Seq(S) /\ Len(more) = Cardinality(mine)
  BY <1>1, <1>2, SeqOfFunction
<1>6. own \in Seq(S) /\ Len(own) \in Nat
  BY LenProperties DEF own
<1>7. /\ own \o more \in Seq(S) /\ Len(own \o more) = Len(own) + Len(more)
      /\ \A n \in 1..Len(own) + Len(more) :
           (own \o more)[n] = IF n <= Len(own) THEN own[n] ELSE more[n - Len(own)]
  BY <1>5, <1>6, ConcatProperties
<1>8. \A n \in 1..Len(own) : (own \o more)[n] = own[n]
  BY <1>1, <1>5, <1>6, <1>7
<1>9. \A k \in 1..Cardinality(mine) : (own \o more)[Len(own) + k] = more[k]
  <2> TAKE k \in 1..Cardinality(mine)
  <2>1. /\ Len(own) + k \in 1..Len(own) + Len(more) /\ ~(Len(own) + k <= Len(own))
        /\ Len(own) + k - Len(own) = k
    BY <1>1, <1>5, <1>6
  <2> QED
    BY <1>7, <2>1
<1> QED
  BY <1>3, <1>4, <1>5, <1>7, <1>8, <1>9 DEF own, mine

LEMMA PaddedIs ==
  ASSUME NEW cols \in Seq(Columns), NEW first
  PROVE  /\ Padded(cols, first) \in Seq(Columns) /\ Len(Padded(cols, first)) = Len(cols)
         /\ \A c \in 1..Len(cols) :
              /\ Padded(cols, first)[c].name = cols[c].name
              /\ Padded(cols, first)[c].cells =
                   IF Len(cols[c].cells) = Len(cols[first].cells) THEN cols[c].cells
                   ELSE Append(cols[c].cells, 0)
<1> DEFINE new(c) == IF Len(cols[c].cells) = Len(cols[first].cells) THEN cols[c]
                     ELSE [cols[c] EXCEPT !.cells = Append(@, 0)]
<1>1. ASSUME NEW c \in 1..Len(cols)
      PROVE  /\ new(c) \in Columns /\ new(c).name = cols[c].name
             /\ new(c).cells = IF Len(cols[c].cells) = Len(cols[first].cells) THEN cols[c].cells
                               ELSE Append(cols[c].cells, 0)
  <2>1. cols[c] \in Columns
    BY ElementOfSeq
  <2>2. 0 \in Cells
    BY ConstantsAssumption DEF Cells
  <2>3. Append(cols[c].cells, 0) \in Seq(Cells)
    BY <2>1, <2>2 DEF Columns
  <2> QED
    BY <2>1, <2>3 DEF Columns
<1>2. Padded(cols, first) = [c \in 1..Len(cols) |-> new(c)]
  BY DEF Padded
<1> HIDE DEF new
<1>3. Padded(cols, first) \in [1..Len(cols) -> Columns]
  BY <1>1, <1>2
<1>4. Padded(cols, first) \in Seq(Columns) /\ Len(Padded(cols, first)) = Len(cols)
  BY <1>3, LenProperties, SeqOfFunction
<1> QED
  BY <1>1, <1>2, <1>4

\* Every column is where it was, whatever its cells are now.
SameNames == Width' = Width /\ \A c \in 1..Width : columns'[c].name = columns[c].name

\* Where the columns keep their names no two get one name.
LEMMA NamesStay ==
  ASSUME UniqueNames, Width' = Width, \A c \in 1..Width : columns'[c].name = columns[c].name
  PROVE  UniqueNames' /\ SameNames
BY DEF UniqueNames, SameNames

\* A column more, of a name that was not there.
LEMMA AddColumnKeeps ==
  ASSUME TypeOK, UniqueNames, NEW name \in Names, NEW type \in Types,
         NEW n \in Nat, NEW cells \in [1..n -> Values], AddColumn(name, type, cells)
  PROVE  TypeOK' /\ UniqueNames'
<1>1. CASE Undefined
  BY <1>1 DEF Undefined, TypeOK, UniqueNames, Width
<1> DEFINE new == [name |-> name, type |-> type, cells |-> cells]
           old(c) == IF Len(cells) > Height
                     THEN [columns[c] EXCEPT !.cells = Extended(@, Len(cells))] ELSE columns[c]
           olds == [c \in 1..Width |-> old(c)]
<1>2. CASE /\ columns' = Append(olds, new)
           /\ UNCHANGED <<index, named>> /\ Stays
  <2>1. cells \in Seq(Cells) /\ Len(cells) \in Int
    BY SeqOfFunction DEF Cells
  <2>2. new \in Columns /\ new.name = name
    BY <2>1 DEF Columns
  <2>3. ASSUME NEW c \in 1..Width PROVE old(c) \in Columns /\ old(c).name = columns[c].name
    <3>1. columns[c] \in Columns /\ columns[c].cells \in Seq(Cells)
      BY ColumnIs
    <3>2. Extended(columns[c].cells, Len(cells)) \in Seq(Cells)
      BY <2>1, <3>1, ExtendedIs, Zenon
    <3> QED
      BY <3>1, <3>2 DEF Columns
  <2> HIDE DEF old, new
  <2>4. olds \in [1..Width -> Columns]
    BY <2>3
  <2>5. olds \in Seq(Columns) /\ Len(olds) = Width /\ Width \in Nat
    BY <2>4, WidthIs, SeqOfFunction
  <2>6. \A c \in 1..Width : olds[c].name = columns[c].name
    BY <2>3
  <2> HIDE DEF olds
  <2>7. /\ columns' \in Seq(Columns) /\ Width' = Width + 1
        /\ \A c \in 1..Width : columns'[c].name = columns[c].name
        /\ columns'[Width + 1].name = name
    BY <1>2, <2>2, <2>5, <2>6, AppendProperties DEF Width
  <2>8. TypeOK'
    BY <1>2, <2>5, <2>7 DEF TypeOK, Stays
  <2>9. \A c \in 1..Width : columns[c].name # name
    BY DEF AddColumn, ColumnsNamed
  <2>10. UniqueNames'
    <3> SUFFICES ASSUME NEW c \in 1..Width + 1, NEW d \in 1..Width + 1,
                        columns'[c].name = columns'[d].name
                 PROVE  c = d
      BY <2>7 DEF UniqueNames
    <3>1. (c \in 1..Width \/ c = Width + 1) /\ (d \in 1..Width \/ d = Width + 1)
      BY <2>5
    <3> QED
      BY <2>7, <2>9, <3>1 DEF UniqueNames
  <2> QED
    BY <2>8, <2>10
<1> QED
  BY <1>1, <1>2 DEF AddColumn

\* The last column in the place of one that is removed.
LEMMA RemoveColumnKeeps ==
  ASSUME TypeOK, UniqueNames, NEW name, RemoveColumn(name)
  PROVE  TypeOK' /\ UniqueNames'
<1>1. CASE Undefined
  BY <1>1 DEF Undefined, TypeOK, UniqueNames, Width
<1>2. ASSUME NEW c \in ColumnsNamed(name), index < Width,
             columns' = Closed(columns, c), UNCHANGED <<index, named>>, Stays
      PROVE  TypeOK' /\ UniqueNames'
  <2>1. c \in 1..Len(columns) /\ columns \in Seq(Columns) /\ Width = Len(columns) /\ Width \in Nat
    BY WidthIs DEF ColumnsNamed, TypeOK, Width
  <2>2. /\ columns' \in Seq(Columns) /\ Width' = Width - 1
        /\ \A m \in 1..Width - 1 : columns'[m] = IF m = c THEN columns[Width] ELSE columns[m]
    BY <1>2, <2>1, ClosedIs DEF Width
  <2>3. TypeOK'
    BY <1>2, <2>1, <2>2 DEF TypeOK, Stays
  <2>4. UniqueNames'
    <3> SUFFICES ASSUME NEW d \in 1..Width - 1, NEW e \in 1..Width - 1,
                        columns'[d].name = columns'[e].name
                 PROVE  d = e
      BY <2>2 DEF UniqueNames
    <3>1. d \in 1..Width /\ e \in 1..Width /\ Width \in 1..Width /\ d # Width /\ e # Width
      BY <2>1
    <3> QED
      BY <2>2, <3>1 DEF UniqueNames
  <2> QED
    BY <2>3, <2>4
<1> QED
  BY <1>1, <1>2 DEF RemoveColumn

LEMMA AddRowKeeps ==
  ASSUME TypeOK, UniqueNames, NEW headers, AddRow(headers)
  PROVE  TypeOK' /\ UniqueNames' /\ SameNames
<1>1. CASE Undefined
  BY <1>1 DEF Undefined, TypeOK, UniqueNames, Width, SameNames
<1>2. CASE columns' = columns /\ UNCHANGED <<index, named>> /\ Stays
  BY <1>2 DEF Stays, TypeOK, UniqueNames, Width, SameNames
<1>3. CASE columns' = Padded(columns, 1) /\ UNCHANGED <<index, named>> /\ Stays
  <2>1. columns \in Seq(Columns) /\ Width = Len(columns) /\ Width' = Len(columns')
    BY DEF TypeOK, Width
  <2>2. /\ Padded(columns, 1) \in Seq(Columns) /\ Len(Padded(columns, 1)) = Len(columns)
        /\ \A c \in 1..Len(columns) : Padded(columns, 1)[c].name = columns[c].name
    BY <2>1, PaddedIs
  <2>3. columns' = Padded(columns, 1) /\ index' = index /\ named' = named /\ Stays
    BY <1>3
  <2>4. /\ columns' \in Seq(Columns) /\ Width' = Width
        /\ \A c \in 1..Width : columns'[c].name = columns[c].name
    BY <2>1, <2>2, <2>3
  <2> QED
    BY <2>3, <2>4, NamesStay DEF TypeOK, Stays
<1> QED
  BY <1>1, <1>2, <1>3 DEF AddRow

\* The columns with the cells of a row, before they are padded.
Filled(headers, cells) ==
  [c \in 1..Width |-> [columns[c] EXCEPT !.cells = WithCells(c, headers, Given(cells))]]

LEMMA FilledIs ==
  ASSUME TypeOK, NEW headers, NEW cells \in Seq(Values)
  PROVE  /\ Filled(headers, cells) \in Seq(Columns) /\ Len(Filled(headers, cells)) = Width
         /\ \A c \in 1..Width :
              /\ Filled(headers, cells)[c].name = columns[c].name
              /\ Filled(headers, cells)[c].cells = WithCells(c, headers, Given(cells))
<1> DEFINE f == [c \in 1..Width |-> WithCells(c, headers, Given(cells))]
<1>1. \A c \in 1..Width : f[c] \in Seq(Cells)
  BY GivenIs, ColumnIs, WithCellsIs DEF Cells
<1>2. Filled(headers, cells) = [c \in 1..Width |-> [columns[c] EXCEPT !.cells = f[c]]]
  BY DEF Filled
<1>3. \A c \in 1..Width : f[c] = WithCells(c, headers, Given(cells))
  OBVIOUS
<1> HIDE DEF f
<1> QED
  <2>1. /\ Filled(headers, cells) \in Seq(Columns) /\ Len(Filled(headers, cells)) = Width
        /\ \A c \in 1..Width : /\ Filled(headers, cells)[c].name = columns[c].name
                               /\ Filled(headers, cells)[c].cells = f[c]
    BY <1>1, <1>2, OtherCells, Zenon
  <2> QED
    BY <1>3, <2>1

LEMMA AddRowfKeeps ==
  ASSUME TypeOK, UniqueNames, NEW headers, NEW cells \in Seq(Values), AddRowf(headers, cells)
  PROVE  TypeOK' /\ UniqueNames' /\ SameNames
<1>1. CASE Undefined
  BY <1>1 DEF Undefined, TypeOK, UniqueNames, Width, SameNames
<1>2. CASE /\ columns' = Padded(Filled(headers, cells), Target(headers, 1))
           /\ UNCHANGED <<index, named>> /\ Stays
  <2>1. /\ Filled(headers, cells) \in Seq(Columns) /\ Len(Filled(headers, cells)) = Width
        /\ \A c \in 1..Width : Filled(headers, cells)[c].name = columns[c].name
    BY FilledIs
  <2>2. /\ Padded(Filled(headers, cells), Target(headers, 1)) \in Seq(Columns)
        /\ Len(Padded(Filled(headers, cells), Target(headers, 1))) = Len(Filled(headers, cells))
        /\ \A c \in 1..Len(Filled(headers, cells)) :
             Padded(Filled(headers, cells), Target(headers, 1))[c].name
               = Filled(headers, cells)[c].name
    BY <2>1, PaddedIs
  <2>3. /\ columns' = Padded(Filled(headers, cells), Target(headers, 1))
        /\ index' = index /\ named' = named /\ Stays /\ Width' = Len(columns')
    BY <1>2 DEF Width
  <2>4. /\ columns' \in Seq(Columns) /\ Width' = Width
        /\ \A c \in 1..Width : columns'[c].name = columns[c].name
    BY <2>1, <2>2, <2>3
  <2> QED
    BY <2>3, <2>4, NamesStay DEF TypeOK, Stays
<1> QED
  BY <1>1, <1>2 DEF AddRowf, Filled

LEMMA HoldingIs ==
  ASSUME TypeOK, index # 0, NEW key, Holding(index, key) # {}
  PROVE  Max(Holding(index, key)) \in Holding(index, key) /\ Max(Holding(index, key)) \in Nat \ {0}
<1>1. index \in 1..Width
  BY WidthIs DEF TypeOK
<1>2. Len(columns[index].cells) \in Nat
  BY <1>1, ColumnIs
<1>3. \A m \in Holding(index, key) : m \in Nat \ {0} /\ m <= Len(columns[index].cells)
  BY <1>2 DEF Holding
<1>4. Max(Holding(index, key)) \in Holding(index, key)
  BY <1>2, <1>3, MaxIsIn
<1> QED
  BY <1>3, <1>4

LEMMA RealIndexIs ==
  ASSUME TypeOK, NEW key \in Values
  PROVE  /\ RealIndex(key) \in Int
         /\ index # 0 /\ Holding(index, key) # {} =>
              RealIndex(key) >= 0 /\ RealIndex(key) + 1 \in Holding(index, key)
<1>1. Cut(key) \in Int
  <2>1. key + Half \in Int /\ 2 * Half \in Nat \ {0} /\ Half \in Int
    BY ConstantsAssumption
  <2>2. (key + Half) % (2 * Half) \in Int
    BY <2>1
  <2> QED
    BY <2>1, <2>2 DEF Cut
<1>2. CASE index # 0 /\ Holding(index, key) # {}
  BY <1>2, HoldingIs DEF RealIndex
<1> QED
  BY <1>1, <1>2 DEF RealIndex

\* Every column with its row n closed.
LEMMA RowClosed ==
  ASSUME TypeOK, NEW n \in Int, \A c \in 1..Width : HasRow(c, n),
         columns' = [c \in 1..Width |-> [columns[c] EXCEPT !.cells = Closed(@, n + 1)]]
  PROVE  /\ columns' \in Seq(Columns) /\ Width' = Width
         /\ \A c \in 1..Width : /\ columns'[c].name = columns[c].name
                                /\ columns'[c].cells = Closed(columns[c].cells, n + 1)
<1> DEFINE f == [c \in 1..Width |-> Closed(columns[c].cells, n + 1)]
<1>1. ASSUME NEW c \in 1..Width PROVE f[c] \in Seq(Cells)
  <2>1. columns[c].cells \in Seq(Cells) /\ Len(columns[c].cells) \in Nat
    BY ColumnIs
  <2>2. n + 1 \in 1..Len(columns[c].cells)
    BY <2>1 DEF HasRow
  <2>3. Closed(columns[c].cells, n + 1) \in Seq(Cells)
    BY <2>1, <2>2, ClosedIs, Zenon
  <2> QED
    BY <2>3
<1>2. columns' = [c \in 1..Width |-> [columns[c] EXCEPT !.cells = f[c]]]
  OBVIOUS
<1>3. \A c \in 1..Width : f[c] = Closed(columns[c].cells, n + 1)
  OBVIOUS
<1> HIDE DEF f
<1>4. /\ columns' \in Seq(Columns) /\ Len(columns') = Width
      /\ \A c \in 1..Width : columns'[c].name = columns[c].name /\ columns'[c].cells = f[c]
  BY <1>1, <1>2, OtherCells, Zenon
<1> QED
  BY <1>3, <1>4 DEF Width

LEMMA RemoveRowKeeps ==
  ASSUME TypeOK, UniqueNames, NEW key \in Values, RemoveRow(key)
  PROVE  TypeOK' /\ UniqueNames' /\ SameNames
<1>1. CASE Undefined
  BY <1>1 DEF Undefined, TypeOK, UniqueNames, Width, SameNames
<1>2. CASE /\ \A c \in 1..Width : HasRow(c, RealIndex(key))
           /\ columns' = [c \in 1..Width |->
                            [columns[c] EXCEPT !.cells = Closed(@, RealIndex(key) + 1)]]
           /\ UNCHANGED <<index, named>> /\ Stays
  <2>1. /\ columns' \in Seq(Columns) /\ Width' = Width
        /\ \A c \in 1..Width : columns'[c].name = columns[c].name
    BY <1>2, RealIndexIs, RowClosed
  <2> QED
    BY <1>2, <2>1, NamesStay DEF TypeOK, Stays
<1> QED
  BY <1>1, <1>2 DEF RemoveRow

LEMMA StepKeeps == TypeOK /\ UniqueNames /\ [Next]_vars => TypeOK' /\ UniqueNames'
<1> SUFFICES ASSUME TypeOK, UniqueNames, [Next]_vars PROVE TypeOK' /\ UniqueNames'
  OBVIOUS
<1>1. ASSUME UNCHANGED <<careful, columns, index, named, state>> PROVE TypeOK' /\ UniqueNames'
  BY <1>1 DEF TypeOK, UniqueNames, Width
<1>2. CASE UNCHANGED vars
  BY <1>1, <1>2 DEF vars
<1>3. ASSUME NEW name \in Names, NEW type \in Types, NEW cells \in Arguments,
             AddColumn(name, type, cells)
      PROVE  TypeOK' /\ UniqueNames'
  <2>1. Len(cells) \in Nat /\ cells \in [1..Len(cells) -> Values]
    BY ConstantsAssumption, LenProperties
  <2> QED
    BY <1>3, <2>1, AddColumnKeeps
<1>4. ASSUME NEW name \in Names, RemoveColumn(name) PROVE TypeOK' /\ UniqueNames'
  BY <1>4, RemoveColumnKeeps
<1>5. ASSUME NEW c \in 0..Width, SetIndex(c) PROVE TypeOK' /\ UniqueNames'
  <2>1. ASSUME c # 0 PROVE columns[c].name \in Names
    <3>1. c \in 1..Width
      BY <2>1, WidthIs
    <3> QED
      BY <3>1, ColumnIs
  <2> QED
    BY <1>5, <2>1 DEF SetIndex, Stays, TypeOK, UniqueNames, Width
<1>6. ASSUME NEW headers \in Headers, AddRow(headers) PROVE TypeOK' /\ UniqueNames'
  BY <1>6, AddRowKeeps
<1>7. ASSUME NEW headers \in Headers, NEW cells \in Arguments, AddRowf(headers, cells)
      PROVE  TypeOK' /\ UniqueNames'
  BY <1>7, AddRowfKeeps, ConstantsAssumption
<1>8. ASSUME NEW key \in Values, RemoveRow(key) PROVE TypeOK' /\ UniqueNames'
  BY <1>8, RemoveRowKeeps
<1>9. ASSUME NEW key \in Values, GetRow(key) PROVE TypeOK' /\ UniqueNames'
  <2>1. CASE Undefined
    BY <2>1 DEF Undefined, TypeOK, UniqueNames, Width
  <2>2. CASE UNCHANGED <<columns, index, named>> /\ Stays
    BY <1>1, <2>2 DEF Stays
  <2> QED
    BY <1>9, <2>1, <2>2 DEF GetRow
<1> QED
  BY <1>2, <1>3, <1>4, <1>5, <1>6, <1>7, <1>8, <1>9 DEF Next

LEMMA InitKeeps == Init => TypeOK /\ UniqueNames
<1> SUFFICES ASSUME Init PROVE TypeOK /\ UniqueNames
  OBVIOUS
<1>1. columns = <<>> /\ columns \in Seq(Columns) /\ Width = 0
  BY EmptySeq DEF Init, Width
<1>2. TypeOK
  BY <1>1 DEF Init, TypeOK
<1>3. UniqueNames
  BY <1>1 DEF UniqueNames
<1> QED
  BY <1>2, <1>3

\* Every state a program takes a table to is of its types, as long as it is defined at
\* all: the index is at a column and the cells are values or, where a taller column was
\* added, what fresh memory held.
THEOREM TypeCorrect == Spec => []TypeOK
BY InitKeeps, StepKeeps, PTL DEF Spec

\* No two columns of a table have the same header, whatever columns a program adds and
\* removes and in whatever order, careful or not.
THEOREM OneColumnToAName == Spec => []UniqueNames
BY InitKeeps, StepKeeps, PTL DEF Spec

-----------------------------------------------------------------------------
(* A careful program's table, as a header and rows.                        *)

\* Its columns are of one height and hold only cells that were given them.
AsOne == careful => Rectangular /\ \A c \in 1..Width : columns[c].cells \in Seq(Values)

\* Nothing a careful program does is undefined.
CarefulIsDefined == careful => state = "defined"

IInv == TypeOK /\ UniqueNames /\ AsOne /\ CarefulIsDefined

LEMMA MaxOfOne ==
  ASSUME NEW h \in Nat
  PROVE  Max({0} \cup {h}) = h
<1>1. h \in {0} \cup {h} /\ \A m \in {0} \cup {h} : m \in Nat /\ m <= h
  OBVIOUS
<1>2. Max({0} \cup {h}) \in {0} \cup {h} /\ h <= Max({0} \cup {h})
  BY <1>1, MaxIsIn
<1> QED
  BY <1>2

\* The height, where the columns have one.
LEMMA OneHeight ==
  TypeOK => \A h \in Nat : (\A c \in 1..Width : Len(columns[c].cells) = h) =>
    Height = IF Width = 0 THEN 0 ELSE h
<1> SUFFICES ASSUME TypeOK, NEW h \in Nat, \A c \in 1..Width : Len(columns[c].cells) = h
             PROVE  Height = IF Width = 0 THEN 0 ELSE h
  OBVIOUS
<1> DEFINE all == {Len(columns[c].cells) : c \in 1..Width}
<1>1. CASE Width = 0
  <2>1. {0} \cup all = {0} \cup {0}
    BY <1>1
  <2> QED
    BY <1>1, <2>1, MaxOfOne DEF Height
<1>2. CASE Width # 0
  <2>1. 1 \in 1..Width
    BY <1>2, WidthIs
  <2>2. all = {h}
    BY <2>1
  <2> QED
    BY <1>2, <2>2, MaxOfOne DEF Height
<1> QED
  BY <1>1, <1>2

LEMMA HeightIs ==
  ASSUME TypeOK, Rectangular
  PROVE  Height \in Nat /\ (Width = 0 => Height = 0)
<1>1. CASE Width = 0
  BY <1>1, OneHeight
<1>2. CASE Width # 0
  <2>1. 1 \in 1..Width
    BY <1>2, WidthIs
  <2> QED
    BY <1>2, <2>1, ColumnIs DEF Rectangular
<1> QED
  BY <1>1, <1>2

\* To be of one height is to have a height all columns have.
LEMMA RectangularIs ==
  TypeOK => \A h \in Nat :
    (\A c \in 1..Width : Len(columns[c].cells) = h)
      => Rectangular /\ Height = IF Width = 0 THEN 0 ELSE h
BY OneHeight, WidthIs DEF Rectangular

\* A column is found by its name.
LEMMA FoundByName ==
  ASSUME TypeOK, UniqueNames, NEW c \in 1..Width
  PROVE  ColumnsNamed(columns[c].name) = {c} /\ Min(ColumnsNamed(columns[c].name)) = c
<1>1. ColumnsNamed(columns[c].name) = {c}
  BY DEF UniqueNames, ColumnsNamed
<1>2. c \in Nat
  BY WidthIs
<1> QED
  BY <1>1, <1>2, MinIsIn

LEMMA RowsAre ==
  IInv /\ careful =>
    /\ Height \in Nat /\ (Width = 0 => Height = 0) /\ TableHeader = Named
    /\ TableRows \in [1..Height -> [Named -> Values]]
    /\ \A n \in 1..Height, c \in 1..Width : TableRows[n][columns[c].name] = columns[c].cells[n]
<1> SUFFICES ASSUME IInv, careful
             PROVE  /\ Height \in Nat /\ (Width = 0 => Height = 0) /\ TableHeader = Named
                    /\ TableRows \in [1..Height -> [Named -> Values]]
                    /\ \A n \in 1..Height, c \in 1..Width :
                         TableRows[n][columns[c].name] = columns[c].cells[n]
  OBVIOUS
<1>1. TypeOK /\ UniqueNames /\ Rectangular
  BY DEF IInv, AsOne
<1>2. Height \in Nat /\ (Width = 0 => Height = 0)
  BY <1>1, HeightIs
<1>3. ASSUME NEW n \in 1..Height, NEW c \in 1..Width
      PROVE  /\ columns[Min(ColumnsNamed(columns[c].name))].cells[n] = columns[c].cells[n]
             /\ columns[c].cells[n] \in Values
  <2>1. Min(ColumnsNamed(columns[c].name)) = c
    BY <1>1, FoundByName
  <2>2. columns[c].cells \in Seq(Values) /\ n \in 1..Len(columns[c].cells)
    BY DEF IInv, AsOne, Rectangular
  <2>3. columns[c].cells[n] \in Values
    BY <2>2, ElementOfSeq
  <2> QED
    BY <2>1, <2>3
<1> DEFINE row(n) == [name \in Named |-> columns[Min(ColumnsNamed(name))].cells[n]]
<1>4. TableRows = [n \in 1..Height |-> row(n)]
  BY DEF TableRows
<1>5. ASSUME NEW n \in 1..Height
      PROVE  /\ row(n) \in [Named -> Values]
             /\ \A c \in 1..Width : row(n)[columns[c].name] = columns[c].cells[n]
  BY <1>3 DEF Named
<1> HIDE DEF row
<1> QED
  BY <1>2, <1>4, <1>5 DEF TableHeader

LEMMA FunctionsAgree ==
  ASSUME NEW D, NEW S, NEW f \in [D -> S], NEW g \in [D -> S], \A x \in D : f[x] = g[x]
  PROVE  f = g
OBVIOUS

\* Rows are the same where their cells are.
LEMMA SameRows ==
  ASSUME NEW D, NEW names, NEW S, NEW f, f \in [D -> [names -> S]], NEW g, g \in [D -> [names -> S]],
         \A n \in D : \A name \in names : f[n][name] = g[n][name]
  PROVE  f = g
<1>1. ASSUME NEW n \in D PROVE f[n] = g[n]
  <2>1. f[n] \in [names -> S] /\ g[n] \in [names -> S]
    OBVIOUS
  <2>2. \A name \in names : f[n][name] = g[n][name]
    OBVIOUS
  <2> QED
    BY <2>1, <2>2, FunctionsAgree
<1> DEFINE T == [names -> S]
<1>2. f \in [D -> T] /\ g \in [D -> T] /\ \A n \in D : f[n] = g[n]
  BY <1>1
<1> HIDE DEF T
<1> QED
  BY <1>2, FunctionsAgree

LEMMA RowsWillBe ==
  IInv' /\ careful' =>
    /\ Height' \in Nat /\ (Width' = 0 => Height' = 0) /\ TableHeader' = Named'
    /\ TableRows' \in [1..Height' -> [Named' -> Values]]
    /\ \A n \in 1..Height', c \in 1..Width' :
         TableRows'[n][columns'[c].name] = columns'[c].cells[n]
<1>1. (IInv /\ careful =>
    /\ Height \in Nat /\ (Width = 0 => Height = 0) /\ TableHeader = Named
    /\ TableRows \in [1..Height -> [Named -> Values]]
    /\ \A n \in 1..Height, c \in 1..Width :
         TableRows[n][columns[c].name] = columns[c].cells[n])'
  BY RowsAre, PTL
<1> QED
  BY <1>1

LEMMA RectangularWillBe ==
  TypeOK' => \A h \in Nat :
    (\A c \in 1..Width' : Len(columns'[c].cells) = h)
      => Rectangular' /\ Height' = IF Width' = 0 THEN 0 ELSE h
<1>1. (TypeOK => \A h \in Nat :
        (\A c \in 1..Width : Len(columns[c].cells) = h)
          => Rectangular /\ Height = IF Width = 0 THEN 0 ELSE h)'
  BY RectangularIs, PTL
<1> QED
  BY <1>1

\* What a step has to show of the columns for the table to stay one of rows.
LEMMA KeptAsOne ==
  ASSUME TypeOK', NEW h \in Nat,
         \A c \in 1..Width' : columns'[c].cells \in Seq(Values) /\ Len(columns'[c].cells) = h
  PROVE  AsOne' /\ Height' = IF Width' = 0 THEN 0 ELSE h
<1>1. Rectangular' /\ Height' = IF Width' = 0 THEN 0 ELSE h
  BY RectangularWillBe
<1> QED
  BY <1>1 DEF AsOne

\* A column of the table's height is put behind the others, which stay as they are.
LEMMA AddedLast ==
  ASSUME IInv, careful, NEW name \in Names, NEW type \in Types, NEW n \in 0..MaxRows,
         NEW cells \in [1..n -> Values], AddColumn(name, type, cells)
  PROVE  /\ index = 0 /\ index' = 0 /\ Stays /\ (got' = got \/ got' = Nothing)
         /\ (n = Height \/ Width = 0) /\ ColumnsNamed(name) = {}
         /\ Width' = Width + 1
         /\ columns'[Width + 1] = [name |-> name, type |-> type, cells |-> cells]
         /\ \A c \in 1..Width : columns'[c] = columns[c]
<1> DEFINE new == [name |-> name, type |-> type, cells |-> cells]
<1>1. TypeOK /\ UniqueNames /\ Rectangular /\ n \in Nat
  BY ConstantsAssumption DEF IInv, AsOne
<1>2. cells \in Seq(Values) /\ Len(cells) = n
  BY <1>1, SeqOfFunction
<1>3. index = 0 /\ (n = Height \/ Width = 0) /\ ColumnsNamed(name) = {}
  BY <1>2 DEF AddColumn
<1>4. columns' = Append([c \in 1..Width |->
                  IF Len(cells) > Height
                  THEN [columns[c] EXCEPT !.cells = Extended(@, Len(cells))] ELSE columns[c]],
                  new) /\ Stays /\ index' = 0 /\ (got' = got \/ got' = Nothing)
  BY <1>3 DEF AddColumn
<1>6. columns \in Seq(Columns) /\ Width = Len(columns) /\ Width \in Nat /\ Height \in Nat
  BY <1>1, WidthIs, HeightIs DEF TypeOK, Width
<1>7. [c \in 1..Width |->
         IF Len(cells) > Height
         THEN [columns[c] EXCEPT !.cells = Extended(@, Len(cells))] ELSE columns[c]]
      = columns
  <2>1. \A c \in 1..Width : ~(Len(cells) > Height)
    BY <1>2, <1>3, <1>6
  <2>2. columns = [c \in 1..Width |-> columns[c]]
    BY <1>6
  <2> QED
    BY <2>1, <2>2
<1>8. new \in Columns
  <2>1. cells \in Seq(Cells)
    BY <1>1, SeqOfFunction DEF Cells
  <2> QED
    BY <2>1 DEF Columns
<1> HIDE DEF new
<1>9. /\ Width' = Width + 1 /\ columns'[Width + 1] = new
      /\ \A c \in 1..Width : columns'[c] = columns[c]
  BY <1>4, <1>6, <1>7, <1>8, AppendProperties DEF Width
<1> QED
  BY <1>3, <1>4, <1>9 DEF new

\* To each row a cell more.
LEMMA AddColumnIsOne ==
  ASSUME IInv, careful, NEW name \in Names, NEW type \in Types, NEW n \in 0..MaxRows,
         NEW cells \in [1..n -> Values], AddColumn(name, type, cells)
  PROVE  IInv' /\ R!AddColumn(name)
<1> DEFINE new == [name |-> name, type |-> type, cells |-> cells]
<1>1. TypeOK /\ UniqueNames /\ Rectangular /\ n \in Nat
  BY ConstantsAssumption DEF IInv, AsOne
<1>2. cells \in Seq(Values) /\ Len(cells) = n
  BY <1>1, SeqOfFunction
<1>3. index = 0 /\ (n = Height \/ Width = 0) /\ ColumnsNamed(name) = {}
  BY AddedLast
<1>4. Stays
  BY AddedLast
<1>5. TypeOK' /\ UniqueNames'
  BY <1>1, AddColumnKeeps
<1>6. columns \in Seq(Columns) /\ Width = Len(columns) /\ Width \in Nat /\ Height \in Nat
  BY <1>1, WidthIs, HeightIs DEF TypeOK, Width
<1>9. /\ Width' = Width + 1 /\ columns'[Width + 1] = new
      /\ \A c \in 1..Width : columns'[c] = columns[c]
  BY AddedLast
<1>10. new.name = name /\ new.cells = cells
  OBVIOUS
<1> HIDE DEF new
<1>11. ASSUME NEW c \in 1..Width'
       PROVE  columns'[c].cells \in Seq(Values) /\ Len(columns'[c].cells) = n
  <2>1. CASE c = Width + 1
    BY <1>2, <1>9, <1>10, <2>1
  <2>2. CASE c \in 1..Width
    <3>1. Width # 0 /\ columns'[c] = columns[c]
      BY <1>6, <1>9, <2>2
    <3> QED
      BY <1>3, <2>2, <3>1 DEF IInv, AsOne, Rectangular
  <2> QED
    BY <1>6, <1>9, <2>1, <2>2
<1>12. AsOne' /\ Height' = n
  <2>1. AsOne' /\ Height' = IF Width' = 0 THEN 0 ELSE n
    BY <1>1, <1>5, <1>11, KeptAsOne
  <2> QED
    BY <1>6, <1>9, <2>1
<1>13. IInv' /\ careful'
  BY <1>4, <1>5, <1>12 DEF IInv, CarefulIsDefined, Stays
<1>14. Named' = Named \cup {name} /\ name \notin Named /\ (Named = {} <=> Width = 0)
  <2>1. Named' = {columns'[c].name : c \in 1..Width + 1}
    BY <1>9 DEF Named
  <2>2. \A c \in 1..Width + 1 : c \in 1..Width \/ c = Width + 1
    BY <1>6
  <2>3. 1..Width \subseteq 1..Width + 1 /\ Width + 1 \in 1..Width + 1
    BY <1>6
  <2>4. name \notin Named
    BY <1>3 DEF Named, ColumnsNamed
  <2>5. Named' = Named \cup {name}
    BY <1>9, <1>10, <2>1, <2>2, <2>3 DEF Named
  <2>6. Named = {} <=> Width = 0
    <3>1. Width # 0 => 1 \in 1..Width
      BY <1>6
    <3>2. Width = 0 => 1..Width = {}
      BY <1>6
    <3> QED
      BY <3>1, <3>2 DEF Named
  <2> QED
    BY <2>4, <2>5, <2>6
<1> DEFINE more == [m \in 1..n |->
                      [x \in Named' |-> IF x = name THEN cells[m] ELSE TableRows[m][x]]]
<1>15. more = TableRows'
  <2>1. /\ TableRows \in [1..Height -> [Named -> Values]]
        /\ \A m \in 1..Height, c \in 1..Width :
             TableRows[m][columns[c].name] = columns[c].cells[m]
    BY RowsAre
  <2>2. /\ TableRows' \in [1..n -> [Named' -> Values]]
        /\ \A m \in 1..n, c \in 1..Width' :
             TableRows'[m][columns'[c].name] = columns'[c].cells[m]
    BY <1>12, <1>13, RowsWillBe
  <2>3. ASSUME NEW m \in 1..n, NEW x \in Named'
        PROVE  /\ (IF x = name THEN cells[m] ELSE TableRows[m][x]) \in Values
               /\ TableRows'[m][x] = IF x = name THEN cells[m] ELSE TableRows[m][x]
    <3>1. CASE x = name
      <4>1. Width + 1 \in 1..Width' /\ columns'[Width + 1].name = name
        BY <1>6, <1>9, <1>10
      <4>2. TableRows'[m][columns'[Width + 1].name] = columns'[Width + 1].cells[m]
        BY <2>2, <4>1, Zenon
      <4> QED
        BY <1>9, <1>10, <3>1, <4>1, <4>2
    <3>2. CASE x # name
      <4>1. PICK c \in 1..Width : x = columns[c].name
        BY <1>14, <3>2 DEF Named
      <4>2. c \in 1..Width' /\ columns'[c] = columns[c] /\ n = Height
        BY <1>3, <1>6, <1>9
      <4>3. TableRows'[m][x] = columns[c].cells[m]
        BY <2>2, <4>1, <4>2
      <4>4. TableRows[m][x] = columns[c].cells[m]
        BY <2>1, <4>1, <4>2
      <4>5. TableRows[m][x] \in Values
        BY <1>14, <2>1, <3>2, <4>2
      <4> QED
        BY <3>2, <4>3, <4>4, <4>5
    <3> QED
      BY <3>1, <3>2
  <2>4. more \in [1..n -> [Named' -> Values]]
    BY <2>3
  <2>5. \A m \in 1..n : \A x \in Named' : more[m][x] = TableRows'[m][x]
    BY <2>3
  <2> HIDE DEF more
  <2> QED
    BY <2>2, <2>4, <2>5, SameRows
<1>16. TableHeader = Named /\ TableHeader' = Named' /\ (Width # 0 => Len(TableRows) = n)
  <2>1. TableRows \in [1..Height -> [Named -> Values]] /\ TableHeader = Named
    BY RowsAre
  <2>2. Len(TableRows) = Height
    BY <1>6, <2>1, SeqOfFunction
  <2> QED
    BY <1>3, <1>13, <2>1, <2>2, RowsWillBe
<1>17. n \in IF TableHeader = {} THEN 0..MaxRows ELSE {Len(TableRows)}
  BY <1>14, <1>16
<1> QED
  BY <1>13, <1>14, <1>15, <1>16, <1>17 DEF R!AddColumn

\* One column is taken out, and the others are all that is left.
TakenOut(c) ==
  /\ c \in 1..Width /\ Width' = Width - 1 /\ Stays
  /\ \A m \in 1..Width' : \E d \in 1..Width : d # c /\ columns'[m] = columns[d]
  /\ \A d \in 1..Width : d # c => \E m \in 1..Width' : columns'[m] = columns[d]
  /\ index' = index /\ named' = named
  /\ index # 0 => index \in 1..Width' /\ columns'[index] = columns[index]
  /\ \/ got' = got /\ (got.found => got.by # columns[c].name)
     \/ got' = Nothing

LEMMA RemoveColumnTakesOut ==
  ASSUME IInv, careful, NEW name, RemoveColumn(name)
  PROVE  \E c \in 1..Width : columns[c].name = name /\ TakenOut(c)
<1>1. TypeOK /\ UniqueNames /\ Width \in Nat /\ columns \in Seq(Columns)
      /\ Width = Len(columns) /\ index \in 0..Width
  BY WidthIs DEF IInv, TypeOK, Width
<1>2. PICK c \in ColumnsNamed(name) :
        /\ columns' = Closed(columns, c) /\ Stays /\ UNCHANGED <<index, named>>
        /\ IndexStays(c)
        /\ got' = IF got.found /\ got.by = name THEN Nothing ELSE got
  BY DEF RemoveColumn
<1>3. c \in 1..Width /\ columns[c].name = name
  BY DEF ColumnsNamed
<1>4. /\ Width' = Width - 1
      /\ \A m \in 1..Width - 1 : columns'[m] = IF m = c THEN columns[Width] ELSE columns[m]
  BY <1>1, <1>2, <1>3, ClosedIs DEF Width
<1>5. \A m \in 1..Width' : \E d \in 1..Width : d # c /\ columns'[m] = columns[d]
  <2> TAKE m \in 1..Width'
  <2>1. CASE m = c
    <3>1. Width \in 1..Width /\ Width # c /\ columns'[m] = columns[Width]
      BY <1>1, <1>4, <2>1
    <3> QED
      BY <3>1
  <2>2. CASE m # c
    <3>1. m \in 1..Width /\ columns'[m] = columns[m]
      BY <1>1, <1>4, <2>2
    <3> QED
      BY <2>2, <3>1
  <2> QED
    BY <2>1, <2>2
<1>6. \A d \in 1..Width : d # c => \E m \in 1..Width' : columns'[m] = columns[d]
  <2> TAKE d \in 1..Width
  <2> HAVE d # c
  <2>1. CASE d = Width
    <3>1. c \in 1..Width' /\ columns'[c] = columns[d]
      BY <1>1, <1>3, <1>4, <2>1
    <3> QED
      BY <3>1
  <2>2. CASE d # Width
    <3>1. d \in 1..Width' /\ columns'[d] = columns[d]
      BY <1>1, <1>4, <2>2
    <3> QED
      BY <3>1
  <2> QED
    BY <2>1, <2>2
<1>7. index # 0 => index \in 1..Width' /\ columns'[index] = columns[index]
  <2> HAVE index # 0
  <2>1. index # c /\ index # Width
    BY <1>2 DEF IndexStays
  <2>2. index \in 1..Width - 1
    BY <1>1, <2>1
  <2> QED
    BY <1>4, <2>1, <2>2
<1> QED
  BY <1>2, <1>3, <1>4, <1>5, <1>6, <1>7 DEF TakenOut

\* A column is taken out: its cell of each row.
LEMMA RemoveColumnIsOne ==
  ASSUME IInv, careful, NEW name, RemoveColumn(name)
  PROVE  IInv' /\ R!RemoveColumn(name)
<1>1. TypeOK /\ UniqueNames /\ Rectangular /\ Width \in Nat /\ columns \in Seq(Columns)
      /\ Width = Len(columns)
  BY WidthIs DEF IInv, AsOne, TypeOK, Width
<1>2. Height \in Nat /\ (Width = 0 => Height = 0)
  BY <1>1, HeightIs
<1>3. PICK c \in 1..Width : columns[c].name = name /\ TakenOut(c)
  BY RemoveColumnTakesOut
<1>4. c \in 1..Width /\ columns[c].name = name /\ Stays
  BY <1>3 DEF TakenOut
<1>5. TypeOK' /\ UniqueNames'
  BY <1>1, RemoveColumnKeeps
<1>6. Width' = Width - 1
  BY <1>3 DEF TakenOut
<1>7. \A m \in 1..Width' : \E d \in 1..Width : d # c /\ columns'[m] = columns[d]
  BY <1>3 DEF TakenOut
<1>8. \A d \in 1..Width : d # c => \E m \in 1..Width' : columns'[m] = columns[d]
  BY <1>3 DEF TakenOut
<1>9. \A m \in 1..Width' :
        columns'[m].cells \in Seq(Values) /\ Len(columns'[m].cells) = Height
  BY <1>7 DEF IInv, AsOne, Rectangular
<1>10. AsOne' /\ Height' = IF Width' = 0 THEN 0 ELSE Height
  BY <1>2, <1>5, <1>9, KeptAsOne
<1>11. IInv' /\ careful'
  BY <1>4, <1>5, <1>10 DEF IInv, CarefulIsDefined, Stays
<1>12. Named' = Named \ {name} /\ name \in Named
  <2>1. name \in Named
    BY <1>4 DEF Named
  <2>2. ASSUME NEW m \in 1..Width' PROVE columns'[m].name \in Named \ {name}
    <3>1. PICK d \in 1..Width : d # c /\ columns'[m] = columns[d]
      BY <1>7
    <3>2. columns[d].name # columns[c].name
      BY <1>1, <1>4, <3>1 DEF UniqueNames
    <3> QED
      BY <1>4, <3>1, <3>2 DEF Named
  <2>3. ASSUME NEW x \in Named \ {name} PROVE x \in Named'
    <3>1. PICK d \in 1..Width : columns[d].name = x
      BY DEF Named
    <3>2. PICK m \in 1..Width' : columns'[m] = columns[d]
      BY <1>4, <1>8, <3>1
    <3> QED
      BY <3>1, <3>2 DEF Named
  <2>4. Named' \subseteq Named \ {name}
    BY <2>2 DEF Named
  <2> QED
    BY <2>1, <2>3, <2>4
<1>13. Named' = {} <=> Width' = 0
  <2>1. Width' # 0 => 1 \in 1..Width'
    BY <1>1, <1>4, <1>6
  <2>2. Width' = 0 => 1..Width' = {}
    OBVIOUS
  <2> QED
    BY <2>1, <2>2 DEF Named
<1>14. /\ TableRows \in [1..Height -> [Named -> Values]] /\ TableHeader = Named
       /\ \A n \in 1..Height, d \in 1..Width :
            TableRows[n][columns[d].name] = columns[d].cells[n]
  BY RowsAre
<1>15. /\ TableRows' \in [1..Height' -> [Named' -> Values]] /\ TableHeader' = Named'
       /\ \A n \in 1..Height', m \in 1..Width' :
            TableRows'[n][columns'[m].name] = columns'[m].cells[n]
  BY <1>11, RowsWillBe
<1>16. Len(TableRows) = Height
  BY <1>2, <1>14, SeqOfFunction
<1>17. TableRows' = IF Named' = {} THEN <<>>
                    ELSE [n \in 1..Height |-> [x \in Named' |-> TableRows[n][x]]]
  <2>1. CASE Named' = {}
    <3>1. TableRows' \in Seq([Named' -> Values]) /\ Len(TableRows') = 0
      BY <1>10, <1>13, <1>15, <2>1, SeqOfFunction
    <3> QED
      BY <2>1, <3>1, EmptySeq
  <2>2. CASE Named' # {}
    <3> DEFINE less == [n \in 1..Height |-> [x \in Named' |-> TableRows[n][x]]]
    <3>1. Height' = Height
      BY <1>10, <1>13, <2>2
    <3>2. ASSUME NEW n \in 1..Height, NEW x \in Named'
          PROVE  TableRows[n][x] \in Values /\ TableRows'[n][x] = TableRows[n][x]
      <4>1. PICK m \in 1..Width' : columns'[m].name = x
        BY DEF Named
      <4>2. PICK d \in 1..Width : columns'[m] = columns[d]
        BY <1>7
      <4>3. TableRows'[n][x] = columns'[m].cells[n]
        BY <1>15, <3>1, <4>1
      <4>4. TableRows[n][columns[d].name] = columns[d].cells[n]
        BY <1>14
      <4>5. x \in Named
        BY <1>12
      <4> QED
        BY <1>14, <4>1, <4>2, <4>3, <4>4, <4>5
    <3>3. less \in [1..Height -> [Named' -> Values]]
      BY <3>2
    <3>4. \A n \in 1..Height : \A x \in Named' : less[n][x] = TableRows'[n][x]
      BY <3>2
    <3> HIDE DEF less
    <3>5. TableRows' \in [1..Height -> [Named' -> Values]]
      BY <1>15, <3>1
    <3> DEFINE those == TableRows'
               D == 1..Height
               names == Named'
    <3>6. /\ less \in [D -> [names -> Values]] /\ those \in [D -> [names -> Values]]
          /\ \A n \in D : \A x \in names : less[n][x] = those[n][x]
      BY <3>3, <3>4, <3>5
    <3> HIDE DEF those, D, names
    <3>7. less = those
      BY <3>6, SameRows
    <3> QED
      BY <2>2, <3>7 DEF less, those
  <2> QED
    BY <2>1, <2>2
<1> QED
  BY <1>11, <1>12, <1>14, <1>15, <1>16, <1>17 DEF R!RemoveColumn

\* Row n of every column is closed with the last one.
RowTakenOut(n) ==
  /\ n \in 0..Height - 1 /\ Height \in Nat /\ Stays /\ UNCHANGED <<index, named>>
  /\ columns' \in Seq(Columns) /\ Width' = Width
  /\ \A c \in 1..Width :
       /\ columns'[c].name = columns[c].name
       /\ columns'[c].cells = Closed(columns[c].cells, n + 1)
       /\ columns'[c].cells \in Seq(Values) /\ Len(columns'[c].cells) = Height - 1
       /\ \A m \in 1..Height - 1 : columns'[c].cells[m] =
            IF m = n + 1 THEN columns[c].cells[Height] ELSE columns[c].cells[m]
  /\ \/ got' = got /\ (got.found => got.at # n /\ got.at # Height - 1)
     \/ got' = Nothing

LEMMA RemoveRowTakesOut ==
  ASSUME IInv, careful, NEW key \in Values, RemoveRow(key)
  PROVE  RowTakenOut(RealIndex(key))
<1> DEFINE n == RealIndex(key)
<1>1. TypeOK /\ UniqueNames /\ Rectangular /\ Width \in Nat
  BY WidthIs DEF IInv, AsOne
<1>2. Height \in Nat /\ (Width = 0 => Height = 0)
  BY <1>1, HeightIs
<1>3. n \in Nat /\ n < Height
  BY <1>1, RealIndexIs DEF RemoveRow
<1>5. \A c \in 1..Width : Len(columns[c].cells) = Height /\ HasRow(c, n)
  BY <1>1, <1>2, <1>3 DEF Rectangular, HasRow
<1>6. /\ columns' = [c \in 1..Width |-> [columns[c] EXCEPT !.cells = Closed(@, n + 1)]]
      /\ Stays /\ UNCHANGED <<index, named>>
      /\ got' = IF got.found /\ got.at \in {n, Height - 1} THEN Nothing ELSE got
  BY <1>2, <1>3, <1>5 DEF RemoveRow
<1> HIDE DEF n
<1>8. n \in Int /\ \A c \in 1..Width : HasRow(c, n)
  BY <1>3, <1>5
<1>7. /\ columns' \in Seq(Columns) /\ Width' = Width
      /\ \A c \in 1..Width : /\ columns'[c].name = columns[c].name
                             /\ columns'[c].cells = Closed(columns[c].cells, n + 1)
  <2>1. columns' = [c \in 1..Width |-> [columns[c] EXCEPT !.cells = Closed(@, n + 1)]]
    BY <1>6
  <2> QED
    BY <1>1, <1>8, <2>1, RowClosed
<1>9. ASSUME NEW c \in 1..Width
      PROVE  /\ columns'[c].cells \in Seq(Values) /\ Len(columns'[c].cells) = Height - 1
             /\ \A m \in 1..Height - 1 : columns'[c].cells[m] =
                  IF m = n + 1 THEN columns[c].cells[Height] ELSE columns[c].cells[m]
  <2>1. /\ columns[c].cells \in Seq(Values) /\ Len(columns[c].cells) = Height
        /\ n + 1 \in 1..Len(columns[c].cells)
    BY <1>2, <1>3, <1>5 DEF IInv, AsOne
  <2> DEFINE own == columns[c].cells
  <2>2. columns'[c].cells = Closed(own, n + 1)
    BY <1>7
  <2>3. own \in Seq(Values) /\ Len(own) = Height /\ n + 1 \in 1..Len(own)
    BY <2>1
  <2> HIDE DEF own
  <2>4. /\ Closed(own, n + 1) \in Seq(Values) /\ Len(Closed(own, n + 1)) = Height - 1
        /\ \A m \in 1..Height - 1 : Closed(own, n + 1)[m] =
             IF m = n + 1 THEN own[Height] ELSE own[m]
    BY <2>3, ClosedIs
  <2> QED
    BY <2>2, <2>4 DEF own
<1>10. n \in 0..Height - 1
  BY <1>2, <1>3
<1>11. (got' = got /\ (got.found => got.at # n /\ got.at # Height - 1)) \/ got' = Nothing
  BY <1>6
<1>12. RowTakenOut(n)
  BY <1>2, <1>6, <1>7, <1>9, <1>10, <1>11 DEF RowTakenOut
<1> QED
  BY <1>12 DEF n

\* The same row of every column is closed: the row is removed, the last one in its place.
LEMMA RemoveRowIsOne ==
  ASSUME IInv, careful, NEW key \in Values, RemoveRow(key)
  PROVE  IInv' /\ \E n \in 1..Len(TableRows) : R!RemoveRow(n)
<1> DEFINE n == RealIndex(key)
<1>1. TypeOK /\ UniqueNames /\ Rectangular /\ Width \in Nat
  BY WidthIs DEF IInv, AsOne
<1>2. Height \in Nat /\ (Width = 0 => Height = 0)
  BY <1>1, HeightIs
<1>0. RowTakenOut(n)
  BY RemoveRowTakesOut
<1>8. TypeOK' /\ UniqueNames'
  BY <1>1, RemoveRowKeeps
<1> HIDE DEF n
<1>3. n \in Nat
  BY <1>0, <1>2 DEF RowTakenOut
<1>4. n < Height
  BY <1>0, <1>2 DEF RowTakenOut
<1>6. Stays
  BY <1>0 DEF RowTakenOut
<1>7. Width' = Width /\ \A c \in 1..Width : columns'[c].name = columns[c].name
  BY <1>0 DEF RowTakenOut
<1>9. ASSUME NEW c \in 1..Width
      PROVE  /\ columns'[c].cells \in Seq(Values) /\ Len(columns'[c].cells) = Height - 1
             /\ \A m \in 1..Height - 1 : columns'[c].cells[m] =
                  IF m = n + 1 THEN columns[c].cells[Height] ELSE columns[c].cells[m]
  BY <1>0 DEF RowTakenOut
<1>10. AsOne' /\ Height' = Height - 1
  <2>1. Height - 1 \in Nat /\ Width # 0
    BY <1>2, <1>3, <1>4
  <2>2. \A c \in 1..Width' :
          columns'[c].cells \in Seq(Values) /\ Len(columns'[c].cells) = Height - 1
    BY <1>7, <1>9
  <2>3. AsOne' /\ Height' = IF Width' = 0 THEN 0 ELSE Height - 1
    BY <1>8, <2>1, <2>2, KeptAsOne
  <2> QED
    BY <1>7, <2>1, <2>3
<1>11. IInv' /\ careful'
  BY <1>6, <1>8, <1>10 DEF IInv, CarefulIsDefined, Stays
<1>12. Named' = Named
  BY <1>7 DEF Named
<1>13. /\ TableRows \in [1..Height -> [Named -> Values]] /\ TableHeader = Named
       /\ \A m \in 1..Height, c \in 1..Width :
            TableRows[m][columns[c].name] = columns[c].cells[m]
  BY RowsAre
<1>14. /\ TableRows' \in [1..Height - 1 -> [Named -> Values]] /\ TableHeader' = Named
       /\ \A m \in 1..Height - 1, c \in 1..Width :
            TableRows'[m][columns'[c].name] = columns'[c].cells[m]
  BY <1>7, <1>10, <1>11, <1>12, RowsWillBe
<1>15. TableRows \in Seq([Named -> Values]) /\ Len(TableRows) = Height
  BY <1>2, <1>13, SeqOfFunction
<1>16. n + 1 \in 1..Len(TableRows)
  BY <1>2, <1>3, <1>4, <1>15
<1>17. TableRows' = Closed(TableRows, n + 1)
  <2>1. /\ Closed(TableRows, n + 1) \in Seq([Named -> Values])
        /\ Len(Closed(TableRows, n + 1)) = Height - 1
        /\ \A m \in 1..Height - 1 : Closed(TableRows, n + 1)[m] =
             IF m = n + 1 THEN TableRows[Height] ELSE TableRows[m]
    BY <1>15, <1>16, ClosedIs
  <2>2. Closed(TableRows, n + 1) \in [1..Height - 1 -> [Named -> Values]]
    BY <2>1
  <2>3. ASSUME NEW m \in 1..Height - 1, NEW x \in Named
        PROVE  TableRows'[m][x] = Closed(TableRows, n + 1)[m][x]
    <3>1. PICK c \in 1..Width : columns[c].name = x
      BY DEF Named
    <3>2. TableRows'[m][x] = columns'[c].cells[m]
      BY <1>7, <1>14, <3>1
    <3>3. m \in 1..Height /\ Height \in 1..Height
      BY <1>2
    <3>4. TableRows[m][x] = columns[c].cells[m] /\ TableRows[Height][x] = columns[c].cells[Height]
      BY <1>13, <3>1, <3>3
    <3> QED
      BY <1>9, <2>1, <3>2, <3>4
  <2>4. TableRows' \in [1..Height - 1 -> [Named -> Values]]
    BY <1>14
  <2>5. \A m \in 1..Height - 1 : \A x \in Named :
          TableRows'[m][x] = Closed(TableRows, n + 1)[m][x]
    BY <2>3
  <2> DEFINE left == Closed(TableRows, n + 1)
             those == TableRows'
             D == 1..Height - 1
  <2>6. /\ those \in [D -> [Named -> Values]] /\ left \in [D -> [Named -> Values]]
        /\ \A m \in D : \A x \in Named : those[m][x] = left[m][x]
    BY <2>2, <2>4, <2>5
  <2> HIDE DEF left, those, D
  <2>7. those = left
    BY <2>6, SameRows
  <2> QED
    BY <2>7 DEF those, left
<1>18. R!RemoveRow(n + 1)
  BY <1>13, <1>14, <1>17 DEF R!RemoveRow, Closed
<1> QED
  BY <1>11, <1>16, <1>18

\* A row without headers adds nothing where the columns are of one height.
LEMMA AddNoRowIsNone ==
  ASSUME IInv, careful, NEW headers, AddRow(headers)
  PROVE  UNCHANGED <<careful, columns, index, named, state>>
<1>1. /\ columns' = IF Width = 0 THEN columns ELSE Padded(columns, 1)
      /\ UNCHANGED <<index, named>> /\ Stays
  BY DEF AddRow
<1>2. CASE Width # 0
  <2>1. Rectangular /\ 1 \in 1..Width /\ Len(columns) = Width /\ columns \in Seq(Columns)
    BY <1>2, WidthIs DEF IInv, AsOne, Width, TypeOK
  <2>2. \A c \in 1..Len(columns) : Len(columns[c].cells) = Len(columns[1].cells)
    BY <2>1 DEF Rectangular
  <2>3. Padded(columns, 1) = [c \in 1..Len(columns) |-> columns[c]]
    BY <2>2 DEF Padded
  <2>4. Padded(columns, 1) = columns
    BY <2>1, <2>3
  <2> QED
    BY <1>1, <1>2, <2>4 DEF Stays
<1> QED
  BY <1>1, <1>2 DEF Stays

LEMMA IntervalIs ==
  ASSUME NEW n \in Nat
  PROVE  IsFiniteSet(1..n) /\ Cardinality(1..n) = n
BY FS_Interval

\* As many headers as there are places for them are all different.
LEMMA Different ==
  ASSUME NEW headers \in Seq(Names),
         Cardinality({headers[n] : n \in 1..Len(headers)}) = Len(headers)
  PROVE  \A n, m \in 1..Len(headers) : headers[n] = headers[m] => n = m
<1> DEFINE places == 1..Len(headers)
           all == {headers[n] : n \in places}
<1>1. Len(headers) \in Nat /\ headers \in [places -> Names]
  BY LenProperties, Zenon
<1>2. IsFiniteSet(places) /\ Cardinality(places) = Len(headers)
  <2> DEFINE n == Len(headers)
  <2>1. n \in Nat
    BY <1>1
  <2> HIDE DEF n
  <2>2. IsFiniteSet(1..n) /\ Cardinality(1..n) = n
    BY <2>1, IntervalIs
  <2> QED
    BY <2>2 DEF n
<1>3. headers \in Surjection(places, all)
  BY <1>1 DEF Surjection
<1>4. Cardinality(all) = Cardinality(places)
  BY <1>2
<1> HIDE DEF places, all
<1>5. headers \in Injection(places, all)
  BY <1>2, <1>3, <1>4, FS_Surjection
<1> QED
  BY <1>5 DEF Injection, IsInjective, places

\* No more of them than columns, which are of different names.
LEMMA NoMoreThanColumns ==
  ASSUME TypeOK, NEW headers \in Seq(Names), Known(headers),
         Cardinality({headers[n] : n \in 1..Len(headers)}) = Len(headers)
  PROVE  Len(headers) <= Width
<1> DEFINE to == [n \in 1..Len(headers) |-> Target(headers, n)]
<1>1. Len(headers) \in Nat /\ Width \in Nat
  <2>1. Len(headers) \in Nat
    BY LenProperties, Zenon
  <2> QED
    BY <2>1, WidthIs, Zenon
<1>2. to \in [1..Len(headers) -> 1..Width]
  BY TargetIs
<1>3. \A n, m \in 1..Len(headers) : to[n] = to[m] => n = m
  <2> SUFFICES ASSUME NEW n \in 1..Len(headers), NEW m \in 1..Len(headers), to[n] = to[m]
               PROVE  n = m
    OBVIOUS
  <2>1. headers[n] = headers[m]
    BY TargetIs
  <2> QED
    BY <2>1, Different
<1> HIDE DEF to
<1>4. to \in Injection(1..Len(headers), 1..Width)
  BY <1>2, <1>3 DEF Injection, IsInjective
<1> DEFINE n == Len(headers)
           w == Width
<1>5. n \in Nat /\ w \in Nat /\ to \in Injection(1..n, 1..w)
  BY <1>1, <1>4
<1> HIDE DEF n, w
<1>6. /\ IsFiniteSet(1..n) /\ IsFiniteSet(1..w)
      /\ Cardinality(1..n) = n /\ Cardinality(1..w) = w
  BY <1>5, IntervalIs, Zenon
<1>7. Cardinality(1..n) <= Cardinality(1..w)
  BY <1>5, <1>6, FS_Injection, Zenon
<1>8. n <= w
  BY <1>6, <1>7, Zenon
<1> QED
  BY <1>8 DEF n, w

\* Of a whole row each column has one cell or none, and the first header's has one.
LEMMA OneCellToAColumn ==
  ASSUME TypeOK, NEW headers \in Seq(Names), headers # <<>>, Known(headers),
         NEW cells \in Seq(Values), Len(cells) = Len(headers),
         Cardinality({headers[n] : n \in 1..Len(headers)}) = Len(headers)
  PROVE  /\ \A c \in 1..Width : Cardinality(For(c, headers, cells)) \in {0, 1}
         /\ Target(headers, 1) \in 1..Width
         /\ Cardinality(For(Target(headers, 1), headers, cells)) = 1
<1>1. ASSUME NEW c \in 1..Width, NEW n \in For(c, headers, cells)
      PROVE  Cardinality(For(c, headers, cells)) = 1
  <2>1. \A m \in For(c, headers, cells) : m \in 1..Len(headers) /\ headers[m] = columns[c].name
    BY TargetIs DEF For
  <2>2. \A k, m \in 1..Len(headers) : headers[k] = headers[m] => k = m
    BY Different, Zenon
  <2>3. \A m \in For(c, headers, cells) : m = n
    BY <2>1, <2>2, Zenon
  <2>4. For(c, headers, cells) = {n}
    BY <2>3
  <2> QED
    BY <2>4, FS_Singleton
<1>2. Cardinality({}) = 0
  BY FS_EmptySet
<1>3. \A c \in 1..Width : Cardinality(For(c, headers, cells)) \in {0, 1}
  <2> TAKE c \in 1..Width
  <2>1. CASE For(c, headers, cells) = {}
    BY <1>2, <2>1
  <2>2. CASE For(c, headers, cells) # {}
    BY <1>1, <2>2
  <2> QED
    BY <2>1, <2>2
<1>4. 1 \in 1..Len(headers)
  BY EmptySeq
<1>5. Target(headers, 1) \in 1..Width
  BY <1>4, TargetIs
<1>6. 1 \in For(Target(headers, 1), headers, cells)
  BY <1>4 DEF For
<1> QED
  BY <1>1, <1>3, <1>5, <1>6

\* A whole row is a cell more in each column.
LEMMA AddRowIsOne ==
  ASSUME IInv, careful, NEW headers \in Seq(Names), NEW cells \in Seq(Values),
         AddRowf(headers, cells)
  PROVE  IInv' /\ R!AddRow
<1> DEFINE given == Given(cells)
           first == Target(headers, 1)
           filled == Filled(headers, cells)
<1>1. TypeOK /\ UniqueNames /\ Rectangular /\ Width \in Nat
  BY WidthIs DEF IInv, AsOne
<1>2. Height \in Nat
  BY <1>1, HeightIs
<1>3. /\ headers # <<>> /\ Known(headers) /\ given \in Seq(Values)
      /\ Len(given) = Len(headers)
      /\ Cardinality({headers[n] : n \in 1..Len(headers)}) = Len(headers)
  BY GivenIs DEF AddRowf, WholeRow
<1>4. Len(headers) <= Width
  BY <1>1, <1>3, NoMoreThanColumns
<1>5. columns' = Padded(filled, first) /\ Stays
  <2>1. ~(Len(headers) > Width \/ Len(Given(cells)) > Width)
    <3>1. Len(headers) \in Nat
      BY LenProperties, Zenon
    <3> QED
      BY <1>1, <1>3, <1>4, <3>1
  <2> QED
    BY <2>1 DEF AddRowf, Filled
<1>6. /\ \A c \in 1..Width : Cardinality(For(c, headers, given)) \in {0, 1}
      /\ first \in 1..Width /\ Cardinality(For(first, headers, given)) = 1
  BY <1>1, <1>3, OneCellToAColumn
<1>7. /\ filled \in Seq(Columns) /\ Len(filled) = Width
      /\ \A c \in 1..Width : /\ filled[c].name = columns[c].name
                             /\ filled[c].cells = WithCells(c, headers, given)
  BY <1>1, FilledIs
<1> HIDE DEF given, first, filled
<1>8. ASSUME NEW c \in 1..Width
      PROVE  /\ filled[c].cells \in Seq(Values)
             /\ Len(filled[c].cells) = Height + Cardinality(For(c, headers, given))
             /\ \A n \in 1..Height : filled[c].cells[n] = columns[c].cells[n]
  <2>1. columns[c].cells \in Seq(Values) /\ Len(columns[c].cells) = Height
    BY <1>1 DEF IInv, AsOne, Rectangular
  <2>2. /\ WithCells(c, headers, given) \in Seq(Values)
        /\ Len(WithCells(c, headers, given))
             = Len(columns[c].cells) + Cardinality(For(c, headers, given))
        /\ \A n \in 1..Len(columns[c].cells) :
             WithCells(c, headers, given)[n] = columns[c].cells[n]
    BY <1>3, <2>1, WithCellsIs
  <2> QED
    BY <1>7, <2>1, <2>2
<1>9. /\ columns' \in Seq(Columns) /\ Width' = Width
      /\ \A c \in 1..Width :
           /\ columns'[c].name = columns[c].name
           /\ columns'[c].cells = IF Len(filled[c].cells) = Len(filled[first].cells)
                                  THEN filled[c].cells ELSE Append(filled[c].cells, 0)
  <2>1. /\ Padded(filled, first) \in Seq(Columns) /\ Len(Padded(filled, first)) = Len(filled)
        /\ \A c \in 1..Len(filled) :
             /\ Padded(filled, first)[c].name = filled[c].name
             /\ Padded(filled, first)[c].cells =
                  IF Len(filled[c].cells) = Len(filled[first].cells) THEN filled[c].cells
                  ELSE Append(filled[c].cells, 0)
    <3>1. filled \in Seq(Columns)
      BY <1>7
    <3>2. Padded(filled, first) \in Seq(Columns) /\ Len(Padded(filled, first)) = Len(filled)
      BY <3>1, PaddedIs, Zenon
    <3>3. ASSUME NEW c \in 1..Len(filled)
          PROVE  /\ Padded(filled, first)[c].name = filled[c].name
                 /\ Padded(filled, first)[c].cells =
                      IF Len(filled[c].cells) = Len(filled[first].cells) THEN filled[c].cells
                      ELSE Append(filled[c].cells, 0)
      BY <3>1, PaddedIs
    <3> QED
      BY <3>2, <3>3
  <2>2. Width' = Len(columns')
    BY DEF Width
  <2> QED
    BY <1>5, <1>7, <2>1, <2>2
<1>10. Len(filled[first].cells) = Height + 1
  BY <1>6, <1>8
<1>11. ASSUME NEW c \in 1..Width
       PROVE  /\ columns'[c].cells \in Seq(Values) /\ Len(columns'[c].cells) = Height + 1
              /\ \A n \in 1..Height : columns'[c].cells[n] = columns[c].cells[n]
  <2>1. CASE Cardinality(For(c, headers, given)) = 1
    <3>1. columns'[c].cells = filled[c].cells
      BY <1>8, <1>9, <1>10, <2>1
    <3> QED
      BY <1>8, <2>1, <3>1
  <2>2. CASE Cardinality(For(c, headers, given)) = 0
    <3> DEFINE own == filled[c].cells
    <3>1. own \in Seq(Values) /\ Len(own) = Height /\ 0 \in Values
      BY <1>2, <1>8, <2>2, ConstantsAssumption
    <3>2. Len(own) # Len(filled[first].cells)
      BY <1>2, <1>10, <3>1
    <3>3. columns'[c].cells = Append(own, 0)
      BY <1>9, <3>2
    <3>4. \A n \in 1..Height : own[n] = columns[c].cells[n]
      BY <1>8
    <3> HIDE DEF own
    <3>5. /\ Append(own, 0) \in Seq(Values) /\ Len(Append(own, 0)) = Height + 1
          /\ \A n \in 1..Height : Append(own, 0)[n] = own[n]
      BY <1>2, <3>1, AppendProperties
    <3> QED
      BY <3>3, <3>4, <3>5
  <2> QED
    BY <1>6, <2>1, <2>2
<1>12. TypeOK' /\ UniqueNames'
  BY <1>1, AddRowfKeeps
<1>13. Width # 0
  BY <1>1, <1>6
<1>14. AsOne' /\ Height' = Height + 1
  <2>1. Height + 1 \in Nat
    BY <1>2
  <2>2. \A c \in 1..Width' :
          columns'[c].cells \in Seq(Values) /\ Len(columns'[c].cells) = Height + 1
    BY <1>9, <1>11
  <2>3. AsOne' /\ Height' = IF Width' = 0 THEN 0 ELSE Height + 1
    BY <1>12, <2>1, <2>2, KeptAsOne
  <2> QED
    BY <1>9, <1>13, <2>3
<1>15. IInv' /\ careful'
  BY <1>5, <1>12, <1>14 DEF IInv, CarefulIsDefined, Stays
<1>16. Named' = Named /\ Named # {}
  BY <1>6, <1>9 DEF Named
<1>17. /\ TableRows \in [1..Height -> [Named -> Values]] /\ TableHeader = Named
       /\ \A n \in 1..Height, c \in 1..Width :
            TableRows[n][columns[c].name] = columns[c].cells[n]
  BY RowsAre
<1>18. /\ TableRows' \in [1..Height + 1 -> [Named -> Values]] /\ TableHeader' = Named
       /\ \A n \in 1..Height + 1, c \in 1..Width :
            TableRows'[n][columns'[c].name] = columns'[c].cells[n]
  BY <1>9, <1>14, <1>15, <1>16, RowsWillBe
<1> DEFINE row == TableRows'[Height + 1]
           D == 1..Height + 1
           those == TableRows'
           more == Append(TableRows, row)
<1>19. Height + 1 \in D /\ row \in [Named -> Values]
  BY <1>2, <1>18
<1>20. TableRows \in Seq([Named -> Values]) /\ Len(TableRows) = Height
  BY <1>2, <1>17, SeqOfFunction
<1> HIDE DEF row
<1>21. /\ more \in Seq([Named -> Values]) /\ Len(more) = Height + 1
       /\ \A n \in 1..Height : more[n] = TableRows[n]
       /\ more[Height + 1] = row
  BY <1>2, <1>19, <1>20, AppendProperties
<1>22. more \in [D -> [Named -> Values]]
  BY <1>21, LenProperties
<1>23. ASSUME NEW n \in D, NEW x \in Named PROVE those[n][x] = more[n][x]
  <2>1. CASE n = Height + 1
    BY <1>21, <2>1 DEF row
  <2>2. CASE n # Height + 1
    <3>1. n \in 1..Height
      BY <1>2, <2>2
    <3>2. PICK c \in 1..Width : columns[c].name = x
      BY DEF Named
    <3>3. those[n][x] = columns'[c].cells[n]
      BY <1>9, <1>18, <3>2
    <3>4. TableRows[n][x] = columns[c].cells[n]
      BY <1>17, <3>1, <3>2
    <3> QED
      BY <1>11, <1>21, <3>1, <3>3, <3>4
  <2> QED
    BY <2>1, <2>2
<1>24. those \in [D -> [Named -> Values]]
  BY <1>18
<1>25. \A n \in D : \A x \in Named : those[n][x] = more[n][x]
  BY <1>23
<1>26. those = more
  <2> HIDE DEF D, those, more
  <2> QED
    BY <1>22, <1>24, <1>25, SameRows
<1>27. TableRows' = Append(TableRows, row) /\ Len(TableRows') = Len(TableRows) + 1
  BY <1>20, <1>21, <1>26
<1>28. R!AddRow
  BY <1>16, <1>17, <1>18, <1>19, <1>27 DEF R!AddRow, R!Row
<1> QED
  BY <1>15, <1>28

\* Whatever leaves the columns alone leaves the rows alone.
LEMMA SameTable ==
  ASSUME UNCHANGED <<careful, columns>>
  PROVE  UNCHANGED <<TableHeader, TableRows>>
BY DEF TableHeader, TableRows, Named, Height, Width, ColumnsNamed

\* Nor has a program that is not careful a header and rows to keep.
LEMMA AnyTable ==
  ASSUME ~careful, ~careful'
  PROVE  UNCHANGED <<TableHeader, TableRows>>
BY DEF TableHeader, TableRows

LEMMA CarefulStays == [Next]_vars /\ TypeOK => careful' = careful
BY DEF Next, vars, AddColumn, RemoveColumn, SetIndex, AddRow, AddRowf, RemoveRow, GetRow,
       Undefined, Stays

LEMMA StepIsOne ==
  IInv /\ [Next]_vars => IInv' /\ [R!Next]_<<TableHeader, TableRows>>
<1> SUFFICES ASSUME IInv, [Next]_vars
             PROVE  IInv' /\ [R!Next]_<<TableHeader, TableRows>>
  OBVIOUS
<1>1. TypeOK' /\ UniqueNames' /\ careful' = careful
  BY StepKeeps, CarefulStays DEF IInv
<1>2. CASE ~careful
  BY <1>1, <1>2, AnyTable DEF IInv, AsOne, CarefulIsDefined
<1>3. CASE careful
  <2>1. ASSUME UNCHANGED <<careful, columns, index, named, state>>
        PROVE  IInv' /\ [R!Next]_<<TableHeader, TableRows>>
    <3>1. AsOne' /\ CarefulIsDefined'
      BY <2>1 DEF IInv, AsOne, CarefulIsDefined, Rectangular, Height, Width
    <3> QED
      BY <1>1, <2>1, <3>1, SameTable DEF IInv
  <2>2. CASE UNCHANGED vars
    BY <2>1, <2>2 DEF vars
  <2>3. ASSUME NEW name \in Names, NEW type \in Types, NEW cells \in Arguments,
               Len(cells) <= Bound, AddColumn(name, type, cells)
        PROVE  IInv' /\ R!Next
    <3>1. Len(cells) \in 0..MaxRows /\ cells \in [1..Len(cells) -> Values]
      BY <1>3, <2>3, ConstantsAssumption, LenProperties DEF Bound
    <3>2. IInv' /\ R!AddColumn(name)
      BY <1>3, <2>3, <3>1, AddColumnIsOne
    <3> QED
      BY <3>2 DEF R!Next
  <2>4. ASSUME NEW name \in Names, RemoveColumn(name) PROVE IInv' /\ R!Next
    BY <1>3, <2>4, RemoveColumnIsOne DEF R!Next
  <2>5. ASSUME NEW c \in 0..Width, SetIndex(c)
        PROVE  IInv' /\ [R!Next]_<<TableHeader, TableRows>>
    <3>1. UNCHANGED <<careful, columns, state>>
      BY <2>5 DEF SetIndex, Stays
    <3>2. AsOne' /\ CarefulIsDefined'
      BY <3>1 DEF IInv, AsOne, CarefulIsDefined, Rectangular, Height, Width
    <3> QED
      BY <1>1, <3>1, <3>2, SameTable DEF IInv
  <2>6. ASSUME NEW headers \in Headers, AddRow(headers)
        PROVE  IInv' /\ [R!Next]_<<TableHeader, TableRows>>
    BY <1>3, <2>1, <2>6, AddNoRowIsNone
  <2>7. ASSUME NEW headers \in Headers, NEW cells \in Arguments, AddRowf(headers, cells)
        PROVE  IInv' /\ R!Next
    <3>1. headers \in Seq(Names) /\ cells \in Seq(Values)
      BY ConstantsAssumption
    <3> QED
      BY <1>3, <2>7, <3>1, AddRowIsOne DEF R!Next
  <2>8. ASSUME NEW key \in Values, RemoveRow(key) PROVE IInv' /\ R!Next
    BY <1>3, <2>8, RemoveRowIsOne DEF R!Next
  <2>9. ASSUME NEW key \in Values, GetRow(key)
        PROVE  IInv' /\ [R!Next]_<<TableHeader, TableRows>>
    <3>1. ~(~careful /\ Undefined)
      BY <1>3
    <3>2. UNCHANGED <<careful, columns, index, named, state>>
      BY <2>9, <3>1 DEF GetRow, Stays
    <3> QED
      BY <2>1, <3>2
  <2> QED
    BY <2>2, <2>3, <2>4, <2>5, <2>6, <2>7, <2>8, <2>9 DEF Next
<1> QED
  BY <1>2, <1>3

LEMMA InitIsOne == Init => IInv /\ R!Init
<1> SUFFICES ASSUME Init PROVE IInv /\ R!Init
  OBVIOUS
<1>1. TypeOK /\ UniqueNames
  BY InitKeeps
<1>2. Width = 0
  BY EmptySeq DEF Init, Width
<1>3. Rectangular /\ Height = 0
  BY <1>1, <1>2, RectangularIs
<1>4. IInv
  BY <1>1, <1>2, <1>3 DEF IInv, AsOne, CarefulIsDefined, Init
<1>5. TableHeader = {}
  BY <1>2 DEF TableHeader, Named
<1>6. TableRows = <<>>
  <2>1. CASE ~careful
    BY <2>1 DEF TableRows
  <2>2. CASE careful
    <3>1. TableRows \in [1..0 -> [Named -> Values]]
      BY <1>3, <1>4, <2>2, RowsAre
    <3>2. TableRows \in Seq([Named -> Values]) /\ Len(TableRows) = 0
      BY <3>1, SeqOfFunction
    <3> QED
      BY <3>2, EmptySeq
  <2> QED
    BY <2>1, <2>2
<1> QED
  BY <1>4, <1>5, <1>6 DEF R!Init

LEMMA Invariant == Spec => []IInv
BY InitIsOne, StepIsOne, PTL DEF Spec

\* A program that keeps to the protocol (columns of the table's height added while there
\* is no index, whole rows, no row number in front of the first, neither the index column
\* nor one that the index column would have to make up for removed, string columns
\* removed only when they are empty) never has a table do what is undefined, and its
\* columns are always of one height: what it may ask for is never in one column only.
THEOREM CarefulIsSafe == Spec => [](careful => state = "defined" /\ Rectangular)
<1>1. IInv => (careful => state = "defined" /\ Rectangular)
  BY DEF IInv, AsOne, CarefulIsDefined
<1> QED
  BY <1>1, Invariant, PTL

\* The columns of a careful program's table, each an array that is appended to, padded
\* and closed up by itself, are at every moment a header and rows, and every call adds
\* or removes one column or one row of it as Rows says, or leaves it as it is.
THEOREM Refinement == Spec => ImplementsRows
BY InitIsOne, StepIsOne, Invariant, PTL DEF Spec, ImplementsRows, R!Spec, R!vars

-----------------------------------------------------------------------------
(* What a careful program finds by a key.                                  *)

\* The index is at the column that was made the index, wherever that is now.
IndexIsNamed == careful /\ index # 0 => columns[index].name = named

\* Row r, as it was got, is still to be seen in the column it was found through.
Shows(r) ==
  \E c \in ColumnsNamed(r.by) : HasRow(c, r.at) /\ columns[c].cells[r.at + 1] = r.key

GotIsInt == got.found => got.at \in Int

KInv == IInv /\ IndexIsNamed /\ GotIsInt /\ FoundRowHasKey

\* Columns that are still there, with the cells they had, show what they showed.
LEMMA ShowsStill ==
  ASSUME NEW r, Shows(r),
         \A d \in 1..Width : columns[d].name = r.by =>
           \E c \in 1..Width' : columns'[c] = columns[d]
  PROVE  Shows(r)'
<1>1. PICK d \in ColumnsNamed(r.by) : HasRow(d, r.at) /\ columns[d].cells[r.at + 1] = r.key
  BY DEF Shows
<1>2. d \in 1..Width /\ columns[d].name = r.by
  BY DEF ColumnsNamed
<1>3. PICK c \in 1..Width' : columns'[c] = columns[d]
  BY <1>2
<1>4. c \in ColumnsNamed(r.by)'
  BY <1>2, <1>3 DEF ColumnsNamed
<1>5. HasRow(c, r.at)' /\ columns'[c].cells[r.at + 1] = r.key
  BY <1>1, <1>3 DEF HasRow
<1> QED
  BY <1>4, <1>5 DEF Shows

\* What was got stays got, or there is nothing any more.
LEMMA StillFound ==
  ASSUME FoundRowHasKey, careful,
         \/ got' = Nothing
         \/ /\ got' = got
            /\ got.found => \A d \in 1..Width : columns[d].name = got.by =>
                 \E c \in 1..Width' : columns'[c] = columns[d]
  PROVE  FoundRowHasKey'
<1>1. CASE got' = Nothing
  BY <1>1 DEF FoundRowHasKey, Nothing
<1>2. CASE got' = got /\ got.found /\ got.by # Unnamed
  <2>1. PICK r : r = got
    OBVIOUS
  <2>2. Shows(r)
    BY <1>2, <2>1 DEF FoundRowHasKey, Shows
  <2>3. \A d \in 1..Width : columns[d].name = r.by =>
          \E c \in 1..Width' : columns'[c] = columns[d]
    <3>1. got' # Nothing
      BY <1>2 DEF Nothing
    <3> QED
      BY <1>2, <2>1, <3>1
  <2>4. Shows(r)'
    BY <2>2, <2>3, ShowsStill
  <2> QED
    BY <1>2, <2>1, <2>4 DEF FoundRowHasKey, Shows
<1>3. CASE got' = got /\ ~(got.found /\ got.by # Unnamed)
  BY <1>3 DEF FoundRowHasKey
<1> QED
  BY <1>1, <1>2, <1>3

\* Every cell of a row that was not moved is where it was.
LEMMA RowStill ==
  ASSUME KInv, careful, NEW n, RowTakenOut(n)
  PROVE  FoundRowHasKey'
<1>1. CASE got' = Nothing
  BY <1>1 DEF FoundRowHasKey, Nothing
<1>2. CASE /\ got' = got /\ got.found /\ got.by # Unnamed
           /\ got.at # n /\ got.at # Height - 1
  <2>1. PICK d \in ColumnsNamed(got.by) :
          HasRow(d, got.at) /\ columns[d].cells[got.at + 1] = got.key
    BY <1>2 DEF KInv, FoundRowHasKey
  <2>2. d \in 1..Width /\ columns[d].name = got.by
    BY DEF ColumnsNamed
  <2>3. Len(columns[d].cells) = Height /\ Height \in Nat /\ n \in Int /\ got.at \in Int
    BY <1>2, <2>2 DEF KInv, IInv, AsOne, Rectangular, RowTakenOut, GotIsInt
  <2>4. 0 <= got.at /\ got.at + 1 \in 1..Height - 1 /\ got.at + 1 # n + 1
    BY <1>2, <2>1, <2>3 DEF HasRow
  <2>5. /\ d \in 1..Width' /\ columns'[d].name = got.by
        /\ Len(columns'[d].cells) = Height - 1
        /\ columns'[d].cells[got.at + 1] = columns[d].cells[got.at + 1]
    BY <2>2, <2>4 DEF RowTakenOut
  <2>6. got.at < Height - 1
    BY <2>3, <2>4
  <2>7. d \in ColumnsNamed(got.by)' /\ HasRow(d, got.at)'
    BY <1>2, <2>4, <2>5, <2>6 DEF ColumnsNamed, HasRow
  <2> QED
    BY <1>2, <2>1, <2>5, <2>7 DEF FoundRowHasKey
<1>3. CASE got' = got /\ ~(got.found /\ got.by # Unnamed)
  BY <1>3 DEF FoundRowHasKey
<1> QED
  BY <1>1, <1>2, <1>3 DEF RowTakenOut

LEMMA GotIsIntStays ==
  ASSUME TypeOK, GotIsInt, [Next]_vars
  PROVE  GotIsInt'
<1>1. ASSUME got' = got \/ got' = Nothing PROVE GotIsInt'
  BY <1>1 DEF GotIsInt, Nothing
<1>2. ASSUME NEW key \in Values, GetRow(key) PROVE GotIsInt'
  <2>1. CASE Undefined
    BY <1>1, <2>1 DEF Undefined
  <2>2. CASE got' = Nothing
    BY <1>1, <2>2
  <2>3. CASE got'.at = RealIndex(key)
    BY <2>3, RealIndexIs DEF GotIsInt
  <2> QED
    BY <1>2, <2>1, <2>2, <2>3 DEF GetRow
<1>3. ASSUME NEW key \in Values, RemoveRow(key) PROVE GotIsInt'
  BY <1>1, <1>3 DEF RemoveRow, Undefined
<1>4. ASSUME NEW name, NEW type, NEW cells, AddColumn(name, type, cells) PROVE GotIsInt'
  BY <1>1, <1>4 DEF AddColumn, Undefined
<1>5. ASSUME NEW name, RemoveColumn(name) PROVE GotIsInt'
  BY <1>1, <1>5 DEF RemoveColumn, Undefined
<1>6. ASSUME NEW c, SetIndex(c) PROVE GotIsInt'
  BY <1>1, <1>6 DEF SetIndex
<1>7. ASSUME NEW headers, AddRow(headers) PROVE GotIsInt'
  BY <1>1, <1>7 DEF AddRow, Undefined
<1>8. ASSUME NEW headers, NEW cells, AddRowf(headers, cells) PROVE GotIsInt'
  BY <1>1, <1>8 DEF AddRowf, Undefined
<1>9. CASE UNCHANGED vars
  BY <1>1, <1>9 DEF vars
<1> QED
  BY <1>2, <1>3, <1>4, <1>5, <1>6, <1>7, <1>8, <1>9 DEF Next

\* The row a key leads to is one that holds it, in the column that was made the index.
LEMMA GetsRowWithKey ==
  ASSUME KInv, careful, NEW key \in Values, GetRow(key)
  PROVE  IndexIsNamed' /\ FoundRowHasKey'
<1>1. TypeOK /\ index \in 0..Width /\ Width \in Nat
  BY WidthIs DEF KInv, IInv, TypeOK
<1>2. /\ UNCHANGED <<columns, index, named, careful>>
      /\ got' = IF RealIndex(key) >= Height THEN Nothing
                ELSE [found |-> TRUE, key |-> key, at |-> RealIndex(key),
                      by |-> IF index # 0 /\ Holding(index, key) # {} THEN named ELSE Unnamed]
  BY DEF GetRow, Stays
<1>3. IndexIsNamed'
  BY <1>2 DEF KInv, IndexIsNamed
<1>4. CASE got' = Nothing
  BY <1>3, <1>4 DEF FoundRowHasKey, Nothing
<1>5. CASE /\ index # 0 /\ Holding(index, key) # {}
           /\ got'.key = key /\ got'.at = RealIndex(key) /\ got'.by = named
  <2>1. RealIndex(key) \in Int /\ RealIndex(key) >= 0 /\ RealIndex(key) + 1 \in Holding(index, key)
    BY <1>1, <1>5, RealIndexIs
  <2>2. index \in 1..Width /\ columns[index].name = named
    BY <1>1, <1>5 DEF KInv, IndexIsNamed
  <2>3. /\ RealIndex(key) + 1 \in 1..Len(columns[index].cells)
        /\ columns[index].cells[RealIndex(key) + 1] = key
    BY <2>1 DEF Holding
  <2>4. Len(columns[index].cells) \in Nat
    BY <1>1, <2>2, ColumnIs
  <2>5. HasRow(index, RealIndex(key))
    BY <2>1, <2>3, <2>4 DEF HasRow
  <2>6. index \in ColumnsNamed(named)
    BY <2>2 DEF ColumnsNamed
  <2>7. ColumnsNamed(named)' = ColumnsNamed(named)
    BY <1>2 DEF ColumnsNamed, Width
  <2> QED
    BY <1>2, <1>3, <1>5, <2>3, <2>5, <2>6, <2>7 DEF FoundRowHasKey, ColumnsNamed, HasRow
<1>6. CASE got'.by = Unnamed
  BY <1>3, <1>6 DEF FoundRowHasKey
<1>7. got' = Nothing \/ got'.by = Unnamed
      \/ /\ index # 0 /\ Holding(index, key) # {}
         /\ got'.key = key /\ got'.at = RealIndex(key) /\ got'.by = named
  BY <1>2
<1> QED
  BY <1>3, <1>4, <1>5, <1>6, <1>7

\* Where the columns keep their names the index keeps its.
LEMMA IndexStill ==
  ASSUME TypeOK, IndexIsNamed, SameNames, UNCHANGED <<careful, index, named>>
  PROVE  IndexIsNamed'
<1>1. index # 0 => index \in 1..Width
  BY WidthIs DEF TypeOK
<1> QED
  BY <1>1 DEF IndexIsNamed, SameNames

LEMMA StepFinds == KInv /\ [Next]_vars => KInv'
<1> SUFFICES ASSUME KInv, [Next]_vars PROVE KInv'
  OBVIOUS
<1>1. TypeOK /\ UniqueNames /\ IInv /\ FoundRowHasKey /\ IndexIsNamed
  BY DEF KInv, IInv
<1>2. IInv' /\ careful' = careful /\ GotIsInt'
  BY <1>1, StepIsOne, CarefulStays, GotIsIntStays DEF KInv
<1>3. CASE ~careful
  BY <1>2, <1>3 DEF KInv, IndexIsNamed, FoundRowHasKey
<1>4. CASE careful
  <2> SUFFICES IndexIsNamed' /\ FoundRowHasKey'
    BY <1>2 DEF KInv
  <2>1. ASSUME UNCHANGED <<columns, got>> PROVE FoundRowHasKey'
    BY <1>1, <1>4, <2>1, StillFound DEF Width
  <2>2. CASE UNCHANGED vars
    BY <1>1, <2>1, <2>2 DEF vars, IndexIsNamed
  <2>3. ASSUME NEW name \in Names, NEW type \in Types, NEW cells \in Arguments,
               Len(cells) <= Bound, AddColumn(name, type, cells)
        PROVE  IndexIsNamed' /\ FoundRowHasKey'
    <3>1. Len(cells) \in 0..MaxRows /\ cells \in [1..Len(cells) -> Values]
      BY <1>4, <2>3, ConstantsAssumption, LenProperties DEF Bound
    <3>2. /\ index' = 0 /\ (got' = got \/ got' = Nothing) /\ Width' = Width + 1
          /\ \A c \in 1..Width : columns'[c] = columns[c]
      BY <1>1, <1>4, <2>3, <3>1, AddedLast
    <3>3. \A d \in 1..Width : \E c \in 1..Width' : columns'[c] = columns[d]
      <4>1. Width \in Nat /\ 1..Width \subseteq 1..Width'
        BY <1>1, <3>2, WidthIs
      <4> QED
        BY <3>2, <4>1
    <3>4. FoundRowHasKey'
      BY <1>1, <1>4, <3>2, <3>3, StillFound
    <3> QED
      BY <3>2, <3>4 DEF IndexIsNamed
  <2>4. ASSUME NEW name \in Names, RemoveColumn(name)
        PROVE  IndexIsNamed' /\ FoundRowHasKey'
    <3>1. PICK c \in 1..Width : columns[c].name = name /\ TakenOut(c)
      BY <1>1, <1>4, <2>4, RemoveColumnTakesOut
    <3>2. IndexIsNamed'
      BY <1>1, <1>2, <3>1 DEF IndexIsNamed, TakenOut
    <3>3. \/ got' = Nothing
          \/ /\ got' = got
             /\ got.found => \A d \in 1..Width : columns[d].name = got.by =>
                  \E m \in 1..Width' : columns'[m] = columns[d]
      BY <3>1 DEF TakenOut
    <3> QED
      BY <1>1, <1>4, <3>2, <3>3, StillFound
  <2>5. ASSUME NEW c \in 0..Width, SetIndex(c)
        PROVE  IndexIsNamed' /\ FoundRowHasKey'
    BY <2>1, <2>5 DEF SetIndex, IndexIsNamed
  <2>6. ASSUME NEW headers \in Headers, AddRow(headers)
        PROVE  IndexIsNamed' /\ FoundRowHasKey'
    <3>1. UNCHANGED <<careful, columns, index, named>> /\ got' = Nothing
      BY <1>1, <1>4, <2>6, AddNoRowIsNone DEF AddRow
    <3> QED
      BY <1>1, <1>4, <3>1, StillFound DEF IndexIsNamed
  <2>7. ASSUME NEW headers \in Headers, NEW cells \in Arguments, AddRowf(headers, cells)
        PROVE  IndexIsNamed' /\ FoundRowHasKey'
    <3>1. cells \in Seq(Values)
      BY ConstantsAssumption
    <3>2. SameNames
      BY <1>1, <2>7, <3>1, AddRowfKeeps
    <3>3. UNCHANGED <<index, named>> /\ (got' = Nothing \/ UNCHANGED <<columns, got>>)
      BY <2>7 DEF AddRowf, Undefined
    <3> QED
      BY <1>1, <1>2, <1>4, <2>1, <3>2, <3>3, IndexStill, StillFound
  <2>8. ASSUME NEW key \in Values, RemoveRow(key)
        PROVE  IndexIsNamed' /\ FoundRowHasKey'
    <3>1. RowTakenOut(RealIndex(key))
      BY <1>1, <1>4, <2>8, RemoveRowTakesOut
    <3>2. SameNames
      BY <1>1, <2>8, RemoveRowKeeps
    <3>3. UNCHANGED <<index, named>>
      BY <3>1 DEF RowTakenOut
    <3> QED
      BY <1>1, <1>2, <1>4, <3>1, <3>2, <3>3, IndexStill, RowStill
  <2>9. ASSUME NEW key \in Values, GetRow(key)
        PROVE  IndexIsNamed' /\ FoundRowHasKey'
    BY <1>4, <2>9, GetsRowWithKey
  <2> QED
    BY <2>2, <2>3, <2>4, <2>5, <2>6, <2>7, <2>8, <2>9 DEF Next
<1> QED
  BY <1>3, <1>4

\* The row a careful program got by a key holds the key in the column that was the index,
\* whichever columns and rows were removed and which of their kind moved in their place,
\* before and after; it takes that the index stays at the column it was set to.
THEOREM FindsByKey == Spec => []FoundRowHasKey
<1>1. Init => KInv
  <2> SUFFICES ASSUME Init PROVE KInv
    OBVIOUS
  <2>1. IInv
    BY InitIsOne
  <2>2. IndexIsNamed /\ GotIsInt /\ FoundRowHasKey
    BY DEF Init, IndexIsNamed, GotIsInt, FoundRowHasKey, Nothing
  <2> QED
    BY <2>1, <2>2 DEF KInv
<1>2. KInv => FoundRowHasKey
  BY DEF KInv
<1> QED
  BY <1>1, <1>2, StepFinds, PTL DEF Spec

=============================================================================
