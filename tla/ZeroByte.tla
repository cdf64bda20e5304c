------------------------------ MODULE ZeroByte ------------------------------
(***************************************************************************)
(* The test core/str.c searches a word with: HASZERO of the word, xor'ed   *)
(* with the character in every byte, is not 0.  Unsigned arithmetic wraps  *)
(* at the width of the word.                                               *)
(***************************************************************************)
EXTENDS Integers, Bitwise

CONSTANTS Bits, Bytes     \* of a byte and of a word

ASSUME WidthAssumption == Bits \in Nat \ {0} /\ Bytes \in Nat \ {0}

Wrap == 2^(Bits * Bytes)

ONES == (Wrap - 1) \div (2^Bits - 1)
HIGHS == ONES * 2^(Bits - 1)
Complement(x) == Wrap - 1 - x

HASZERONoNot(x) == ((x - ONES) % Wrap) & HIGHS     \* mutant

HASZERO(x) == (((x - ONES) % Wrap) & Complement(x)) & HIGHS

\* What the loops over words stop at: the characters are tried in turn.
StopsAt(word, chars) == \E char \in chars : HASZERO(word ^^ (ONES * char)) # 0

=============================================================================
