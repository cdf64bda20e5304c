------------------------------- MODULE MCTable -------------------------------
(* Three names and two of the types: rows of two columns in either order, of  *)
(* one of them, of one named twice, and of none.  As a row number -1 is one   *)
(* in front of the first, and 5, cut to an int of two bits, is 1.             *)
EXTENDS Table

CONSTANTS a, b, d

MCValues == {-1, 0, 5}
MCHeaders == {<<>>, <<a>>, <<b, a>>, <<a, a>>}
MCArguments == {<<>>, <<5, 5>>, <<5, 0>>}

=============================================================================
