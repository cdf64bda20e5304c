------------------------------- MODULE MCDstr -------------------------------
(* Texts over two characters, with NULs too, up to 3 with the closing one: a  *)
(* builder grows through the capacities 1, 2, 4 and is filled to its last     *)
(* place at 1 and at 2.                                                       *)
EXTENDS Dstr

CONSTANTS a, b

MCPieces == {<<>>, <<a>>, <<b>>, <<a, b>>, <<Nul>>, <<Nul, a>>}
MCViews == {<<a>>}

=============================================================================
