----------------------------- MODULE MCFormats -----------------------------
(* The readers of CSV and JSON, one of them at a time.  For CSV: every short   *)
(* text, and the ways to write tables of up to two rows and columns, where a   *)
(* cell with a comma, a newline or a quote in it, and the first one when it is *)
(* empty, is always quoted; tables of one cell also of numbers and what is     *)
(* nearly one.  For JSON: the files of JsonTexts.                              *)
EXTENDS Formats, SequencesExt

CONSTANTS x, MaxText, MaxBody, MaxString, MaxNumber

INSTANCE JsonTexts

jvars == <<document, bucket, stack, jtokens, jstate>>

MCOthers == N!NumberCharacters \cup {" ", x}
MCSpaces == {" ", Newline}
MCGarbage == {-1, 0, 1}

CsvTexts == {[text |-> text, cells |-> <<>>, breaks |-> <<>>] : text \in BoundedSeq({Comma, Newline, Quote, x}, MaxText)}

MCCells == {<<>>, <<"-", "1">>, <<x, Comma>>, <<Newline, "1">>, <<Quote, "1">>, <<Comma, Quote, Quote>>}

\* Numbers, and what begins with one or looks like it.  An integer of two digits is more
\* than a long holds.
Numerals ==
  {<<"-">>, <<"1", "e">>, <<"1", ".">>, <<"1", "1">>, <<"-", "1", "1">>, <<"0", "x">>,
   <<"1", "e", "1">>, <<"1", "e", "-", "1">>, <<"i", "n", "f">>, <<"n", "a", "n", "1">>,
   <<x, "1">>, <<" ", "1">>}

Escaped(cell) == FlattenSeq([n \in 1..Len(cell) |->
                   IF cell[n] = Quote THEN <<Quote, Quote>> ELSE <<cell[n]>>])
Written(cell, first) ==
  {<<Quote>> \o Escaped(cell) \o <<Quote>>} \cup
  {text \in {cell} : ~first /\ \A n \in 1..Len(cell) : cell[n] \in MCOthers}

Line(t, u) == t \o <<Comma>> \o u \o <<Newline>>
Breaks(t, u, n) == <<n + Len(t), n + Len(t) + 1 + Len(u)>>

Tables ==
  UNION {{[cells |-> <<<<p>>>>, text |-> t \o <<Newline>>, breaks |-> <<<<Len(t)>>>>] :
            t \in Written(p, p = <<>>)} : p \in MCCells \cup Numerals}
  \cup
  UNION {{[cells |-> <<<<p, q>>, <<r, s>>>>, text |-> Line(t, u) \o Line(v, w),
           breaks |-> <<Breaks(t, u, 0), Breaks(v, w, Len(t) + Len(u) + 2)>>] :
            t \in Written(p, p = <<>>), u \in Written(q, FALSE),
            v \in Written(r, FALSE), w \in Written(s, FALSE)} :
         p \in MCCells, q \in MCCells, r \in MCCells, s \in MCCells}

MCFiles == CsvTexts \cup Tables

-----------------------------------------------------------------------------
CsvIdle ==
  /\ file = [text |-> <<>>, cells |-> <<>>, breaks |-> <<>>] /\ zeroed = FALSE
  /\ index = 0 /\ cur_col = 0 /\ line = 0 /\ col = 1 /\ tokens = <<>>
  /\ headers = NoHeaders /\ row_index = 0 /\ column_index = 0 /\ token_index = 0
  /\ got = Nothing /\ state = "idle"
JsonIdle ==
  /\ document = [text |-> <<>>, tokens |-> <<>>]
  /\ bucket = 0 /\ stack = <<>> /\ jtokens = <<>> /\ jstate = "idle"

MCInit == (Init /\ JsonIdle) \/ (CsvIdle /\ J!Init)
MCNext ==
  \/ state # "idle" /\ Next /\ UNCHANGED jvars
  \/ jstate # "idle" /\ J!Next /\ UNCHANGED vars
MCSpec == MCInit /\ [][MCNext]_<<vars, jvars>>

=============================================================================
