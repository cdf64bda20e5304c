------------------------------- MODULE MCCio -------------------------------
(* Everything that can be typed with five keys, of a few characters, and the  *)
(* numbers of ints of two bits and longs of four: 11 and -1 are 3, and -11 is *)
(* 1 or, as the least long, 0.                                               *)
EXTENDS Cio

CONSTANTS MaxSize

MCSpaces == {"space", "lf"}
MCInputs == BoundedSeq({"lf", "space", "-", "1", "a"}, MaxSize)
MCCalls ==
  [op : {"line"}, ensure_nonempty : BOOLEAN] \cup [op : {"int", "uint"}]
    \cup [op : {"option"}, options : {2}]

=============================================================================
