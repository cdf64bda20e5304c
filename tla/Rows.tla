-------------------------------- MODULE Rows --------------------------------
(***************************************************************************)
(* What a table promises to its callers: named columns and rows that have  *)
(* a cell for each of them.  Removing a row puts the last one in its place.*)
(* Table is shown to implement this specification.                         *)
(***************************************************************************)
EXTENDS Integers, Sequences

CONSTANTS Names, Values, MaxRows

VARIABLES header, rows

vars == <<header, rows>>

Init == header = {} /\ rows = <<>>

Row(names) == [names -> Values]

AddColumn(name) ==
  /\ name \notin header
  /\ header' = header \cup {name}
  /\ \E height \in IF header = {} THEN 0..MaxRows ELSE {Len(rows)} :
     \E cells \in [1..height -> Values] :
       rows' = [n \in 1..height |->
                  [m \in header' |-> IF m = name THEN cells[n] ELSE rows[n][m]]]

RemoveColumn(name) ==
  /\ name \in header
  /\ header' = header \ {name}
  /\ rows' = IF header' = {} THEN <<>>
             ELSE [n \in 1..Len(rows) |-> [m \in header' |-> rows[n][m]]]

AddRow ==
  /\ header # {} /\ UNCHANGED header
  /\ Len(rows') = Len(rows) + 1
  /\ \E row \in Row(header) : rows' = Append(rows, row)

RemoveRow(n) ==
  /\ UNCHANGED header
  /\ rows' = SubSeq([rows EXCEPT ![n] = rows[Len(rows)]], 1, Len(rows) - 1)

Next ==
  \/ \E name \in Names : AddColumn(name) \/ RemoveColumn(name)
  \/ AddRow
  \/ \E n \in 1..Len(rows) : RemoveRow(n)

Spec == Init /\ [][Next]_vars

=============================================================================
