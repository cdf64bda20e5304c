------------------------------- MODULE MCArena -------------------------------
(* Blocks of 4 bytes (a kilobyte of 4), at address 8, and requests that       *)
(* leave a gap before an aligned address, fill a block and pass its end.      *)
EXTENDS Arena

MCJunk == {[base |-> 3, alloc |-> 5, capacity |-> 2], [base |-> 8, alloc |-> 0, capacity |-> 4]}

=============================================================================
