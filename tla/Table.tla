-------------------------------- MODULE Table --------------------------------
(***************************************************************************)
(* The tables of core/table.c: a dynamic array of columns, each a dynamic  *)
(* array of cells of its own, with no record anywhere of how many rows     *)
(* there are.  Every operation runs to its end.  Where one reads or writes *)
(* outside its arrays, or frees what is not to be freed, nothing can be    *)
(* said any more: the state is "undefined".                                *)
(*                                                                         *)
(* Cells are the integers of a long, a string cell being the address of    *)
(* its string and a float cell its bits.  Looking for one in a column of   *)
(* floats is comparing bits, for numbers other than 0.                     *)
(***************************************************************************)
EXTENDS Integers, Sequences, FiniteSets, FiniteSetsExt

CONSTANTS
  Names, Types,   \* column headers
  Unnamed,        \* no name
  Values,         \* cells; 0 is the zeroed cell, and the end of an argument list
  Half,           \* the ints are -Half..Half - 1
  Junk,           \* a cell of fresh memory
  Headers,        \* the lists of headers rows are added with
  Arguments,      \* the lists of cells of rows, and of new columns
  MaxRows,        \* bound: no rows are added to a careful program's table of so
  MaxAnyRows      \* many, or to another program's

ASSUME ConstantsAssumption ==
  /\ Values \subseteq Int /\ 0 \in Values /\ Junk \notin Values
  /\ Half \in Nat \ {0}
  /\ "string" \in Types /\ Unnamed \notin Names
  /\ Headers \subseteq Seq(Names) /\ Arguments \subseteq Seq(Values)
  /\ MaxRows \in Nat /\ MaxAnyRows \in Nat

VARIABLES
  careful,   \* whether the program keeps to the protocol below
  columns,   \* the table: [name, type, cells]
  index,     \* table.index: 0, or which column it points to
  named,     \* the name that column had when the program made it the index
  got,       \* the row table_get_row gave back, as long as it can be looked at
  state
vars == <<careful, columns, index, named, got, state>>

Cells == Values \cup {Junk}
Nothing == [found |-> FALSE]

Width == Len(columns)
Height == Max({0} \cup {Len(columns[c].cells) : c \in 1..Width})
Rectangular == \A c \in 1..Width : Len(columns[c].cells) = Height
ColumnsNamed(name) == {c \in 1..Width : columns[c].name = name}

Columns == [name : Names, type : Types, cells : Seq(Cells)]

TypeOK ==
  /\ careful \in BOOLEAN
  /\ columns \in Seq(Columns)
  /\ index \in 0..Width
  /\ named \in Names \cup {Unnamed}
  /\ state \in {"defined", "undefined"}

Init ==
  /\ careful \in BOOLEAN
  /\ columns = <<>> /\ index = 0 /\ named = Unnamed
  /\ got = Nothing
  /\ state = "defined"

Bound == IF careful THEN MaxRows ELSE MaxAnyRows

Runs == state = "defined"
Undefined == state' = "undefined" /\ UNCHANGED <<careful, columns, index, named, got>>
Stays == UNCHANGED <<careful, state>>

-----------------------------------------------------------------------------
(* Columns.                                                                *)

\* A gap filled with what is last.
Closed(cells, n) == SubSeq([cells EXCEPT ![n] = cells[Len(cells)]], 1, Len(cells) - 1)

Extended(cells, n) == cells \o [m \in 1..(n - Len(cells)) |-> Junk]

\* Mutant: a name that is there already is not refused.
AddColumnAgain(name, type, cells) ==
  /\ Runs /\ (careful => index = 0 /\ (Len(cells) = Height \/ Width = 0))
  /\ Width < Cardinality(Names) + 1
  /\ columns' = Append(columns, [name |-> name, type |-> type, cells |-> cells])
  /\ UNCHANGED <<index, named>> /\ got' = Nothing /\ Stays

\* table_add_column: columns that are shorter than the new one are given cells of
\* whatever is in memory, and may move; a new one that is shorter than the others stays
\* so.  The array of columns may move when it grows, and an index then points nowhere.
\* A careful program adds columns of the table's height, and when there is no index.
AddColumn(name, type, cells) ==
  /\ Runs /\ (careful => index = 0 /\ (Len(cells) = Height \/ Width = 0))
  /\ ColumnsNamed(name) = {}
  /\ \/ index # 0 /\ Undefined
     \/ /\ columns' = Append([c \in 1..Width |->
                  IF Len(cells) > Height
                  THEN [columns[c] EXCEPT !.cells = Extended(@, Len(cells))] ELSE columns[c]],
                  [name |-> name, type |-> type, cells |-> cells])
        /\ got' = IF Len(cells) > Height THEN Nothing ELSE got
        /\ UNCHANGED <<index, named>> /\ Stays

SetIndex(c) ==
  /\ Runs /\ index' = c
  /\ named' = IF c = 0 THEN Unnamed ELSE columns[c].name
  /\ UNCHANGED <<columns, got>> /\ Stays

\* A careful program removes neither the index column nor, while the index is the last
\* column, which would have to move, any other.
IndexStays(c) == index # 0 => index # c /\ index # Width

\* Mutant: the columns behind the one removed move up, and the index does not.
RemoveColumnInOrder(name) ==
  /\ Runs
  /\ \E c \in ColumnsNamed(name) :
       /\ IndexStays(c)
       /\ columns[c].type # "string"
       /\ columns' = SubSeq(columns, 1, c - 1) \o SubSeq(columns, c + 1, Width)
       /\ got' = IF got.found /\ got.by = name THEN Nothing ELSE got
       /\ UNCHANGED <<index, named>> /\ Stays

\* table_remove_column: the last column takes the place of the one removed, under an
\* index that stays where it was: it may be at another column then, or past the last.
\* Freeing the cells of a string column one by one frees the column's own array
\* and then addresses inside it.
RemoveColumn(name) ==
  /\ Runs
  /\ \E c \in ColumnsNamed(name) :
       /\ careful => IndexStays(c)
       /\ \/ /\ \/ columns[c].type = "string" /\ columns[c].cells # <<>>
                \/ index = Width
             /\ ~careful /\ Undefined
          \/ /\ ~(columns[c].type = "string" /\ columns[c].cells # <<>>)
             /\ index < Width
             /\ columns' = Closed(columns, c)
             /\ got' = IF got.found /\ got.by = name THEN Nothing ELSE got
             /\ UNCHANGED <<index, named>> /\ Stays

-----------------------------------------------------------------------------
(* Rows.                                                                   *)

\* Which column the n-th cell of a row goes to: the first with that header and,
\* past the last header, the first column.
Target(headers, n) == IF n <= Len(headers) THEN Min(ColumnsNamed(headers[n])) ELSE 1

Known(headers) == \A n \in 1..Len(headers) : ColumnsNamed(headers[n]) # {}

\* An empty cell for each column that is not as long as one of them.
Padded(cols, first) ==
  [c \in 1..Len(cols) |->
     IF Len(cols[c].cells) = Len(cols[first].cells) THEN cols[c]
     ELSE [cols[c] EXCEPT !.cells = Append(@, 0)]]

\* table_add_row stops where row.length is 0: at once, and what is left to do is to
\* pad the columns, or never, running off the end of the row.  Columns that get a cell
\* may move.
AddRow(headers) ==
  /\ Runs /\ Len(headers) <= Width /\ Known(headers) /\ Height < Bound
  /\ \/ /\ headers = <<>>
        /\ columns' = IF Width = 0 THEN columns ELSE Padded(columns, 1)
        /\ UNCHANGED <<index, named>> /\ got' = Nothing /\ Stays
     \/ headers # <<>> /\ ~careful /\ Undefined

\* The cells up to the first 0, which ends the argument list.
Given(cells) ==
  LET zeros == {n \in 1..Len(cells) : cells[n] = 0}
  IN  IF zeros = {} THEN cells ELSE SubSeq(cells, 1, Min(zeros) - 1)

\* Which of the cells of a row are for column c, and the k-th of them.
For(c, headers, cells) == {n \in 1..Len(cells) : Target(headers, n) = c}
Nth(places, k) == CHOOSE n \in places : Cardinality({m \in places : m <= n}) = k

\* The cells of column c with those of a row that are for it.
WithCells(c, headers, cells) ==
  LET mine == For(c, headers, cells)
  IN  columns[c].cells \o [k \in 1..Cardinality(mine) |-> cells[Nth(mine, k)]]

\* A careful program names each column once and gives a cell for each, none 0.
WholeRow(headers, cells) ==
  /\ Cardinality({headers[n] : n \in 1..Len(headers)}) = Len(headers)
  /\ Len(Given(cells)) = Len(headers)

\* _table_add_rowf: the cells given, then an empty one for each column that is not as
\* long as the first header's.  There is room for as many headers as columns.
AddRowf(headers, cells) ==
  /\ Runs /\ headers # <<>> /\ Known(headers) /\ Height < Bound
  /\ careful => WholeRow(headers, cells)
  /\ \/ (Len(headers) > Width \/ Len(Given(cells)) > Width) /\ Undefined
     \/ /\ Len(headers) <= Width /\ Len(Given(cells)) <= Width
        /\ columns' = Padded([c \in 1..Width |->
             [columns[c] EXCEPT !.cells = WithCells(c, headers, Given(cells))]],
             Target(headers, 1))
        /\ UNCHANGED <<index, named>> /\ got' = Nothing /\ Stays

Holding(c, key) == {n \in 1..Len(columns[c].cells) : columns[c].cells[n] = key}

\* The key is a long, a row number an int.
Cut(key) == ((key + Half) % (2 * Half)) - Half

\* table_get_real_index: the last row the key is found in.  A key that is not
\* found, as any key where there is no index, is taken for the row's number.
RealIndex(key) ==
  IF index # 0 /\ Holding(index, key) # {} THEN Max(Holding(index, key)) - 1 ELSE Cut(key)

\* Strings are compared at the addresses in the cells, and the address of one that
\* is not found, cut to an int, is taken for the row's number.
Astray(key) ==
  /\ index # 0 /\ columns[index].type = "string"
  /\ key = 0 \/ Holding(index, 0) # {} \/ Holding(index, Junk) # {} \/ Holding(index, key) = {}

\* Mutant: only the first column's last cell is moved.
RemoveRowFirstColumn(key) ==
  /\ Runs /\ RealIndex(key) \in 0..(Height - 1) /\ Rectangular
  /\ columns' = [c \in 1..Width |->
       [columns[c] EXCEPT !.cells =
          IF c = 1 THEN Closed(@, RealIndex(key) + 1) ELSE Closed(@, Len(@))]]
  /\ UNCHANGED <<index, named>> /\ got' = Nothing /\ Stays

\* Whether a column has a row numbered n.  That there is none in front of the first
\* is not looked at; a careful program asks for none.
HasRow(c, n) == 0 <= n /\ n < Len(columns[c].cells)

\* table_remove_row: in each column, the last cell is put in the row's place.  A row
\* that was got is no longer to be found where it was if it was one of these two.
RemoveRow(key) ==
  /\ Runs /\ (careful => RealIndex(key) >= 0)
  /\ \/ Astray(key) /\ ~careful /\ Undefined
     \/ /\ ~Astray(key) /\ RealIndex(key) < Height
        /\ \E c \in 1..Width : ~HasRow(c, RealIndex(key))
        /\ Undefined
     \/ /\ ~Astray(key)
        /\ RealIndex(key) < Height
        /\ \A c \in 1..Width : HasRow(c, RealIndex(key))
        /\ columns' = [c \in 1..Width |-> [columns[c] EXCEPT !.cells = Closed(@, RealIndex(key) + 1)]]
        /\ got' = IF got.found /\ got.at \in {RealIndex(key), Height - 1} THEN Nothing ELSE got
        /\ UNCHANGED <<index, named>> /\ Stays

\* table_get_row: pointers to the cells of the row; its length is left unset.  They may
\* be in front of the first row, or behind the last of a shorter column.
GetRow(key) ==
  /\ Runs /\ (careful => RealIndex(key) >= 0)
  /\ \/ Astray(key) /\ ~careful /\ Undefined
     \/ /\ ~Astray(key)
        /\ got' = IF RealIndex(key) >= Height THEN Nothing
                  ELSE [found |-> TRUE, key |-> key, at |-> RealIndex(key),
                        by |-> IF index # 0 /\ Holding(index, key) # {} THEN named ELSE Unnamed]
        /\ UNCHANGED <<columns, index, named>> /\ Stays

Next ==
  \/ \E name \in Names, type \in Types, cells \in Arguments :
       Len(cells) <= Bound /\ AddColumn(name, type, cells)
  \/ \E name \in Names : RemoveColumn(name)
  \/ \E c \in 0..Width : SetIndex(c)
  \/ \E headers \in Headers : AddRow(headers)
  \/ \E headers \in Headers, cells \in Arguments : AddRowf(headers, cells)
  \/ \E key \in Values : RemoveRow(key) \/ GetRow(key)

Spec == Init /\ [][Next]_vars

-----------------------------------------------------------------------------
\* No two columns have the same header, so that looking for one by its header
\* finds it, in whatever order columns are added and removed.
UniqueNames ==
  \A c, d \in 1..Width : columns[c].name = columns[d].name => c = d

\* A row that a careful program got by a key holds that key in the column it had made
\* the index, and still does after other columns and rows were removed, the last of each
\* moved into their places, columns added, and the index set elsewhere.
FoundRowHasKey ==
  careful /\ got.found /\ got.by # Unnamed =>
    \E c \in ColumnsNamed(got.by) : HasRow(c, got.at) /\ columns[c].cells[got.at + 1] = got.key

Named == {columns[c].name : c \in 1..Width}

\* A careful program's table is a header and rows: the columns are kept at one
\* height, and the cells of a row together, when rows and columns are moved to fill
\* the gaps of those removed.
TableHeader == IF careful THEN Named ELSE {}
TableRows ==
  IF ~careful THEN <<>>
  ELSE [n \in 1..Height |-> [name \in Named |-> columns[Min(ColumnsNamed(name))].cells[n]]]
R == INSTANCE Rows WITH header <- TableHeader, rows <- TableRows
ImplementsRows == R!Spec

=============================================================================
