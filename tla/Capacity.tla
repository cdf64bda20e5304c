------------------------------ MODULE Capacity ------------------------------
(***************************************************************************)
(* How the growing containers of core/ht.h and core/da.h choose a new      *)
(* capacity: the number asked for, an int, rounded up to a power of two by *)
(* smearing its highest bit over those below it.                           *)
(***************************************************************************)
EXTENDS Integers

\* 2^30, the last power of two an int can hold.
MaxCapacity == 1073741824

SmallPowers == {1, 2, 4, 8, 16, 32, 64, 128, 256, 512, 1024, 2048, 4096, 8192, 16384}
LargePowers ==
  {32768, 65536, 131072, 262144, 524288, 1048576, 2097152, 4194304, 8388608, 16777216,
   33554432, 67108864, 134217728, 268435456, 536870912, 1073741824}
PowersOfTwo == SmallPowers \cup LargePowers

\* What smearing the bits of c - 1 to the right and adding one gives.
RoundUp(c) == CHOOSE p \in PowersOfTwo : c <= p /\ p < 2 * c

=============================================================================
