---------------------------- MODULE ArenaProofs ----------------------------
(***************************************************************************)
(* What the allocators of Arena are proved to do for any sizes, alignments *)
(* and blocks: a scratch arena hands no byte out twice, and the other      *)
(* allocator never gets further than to add a page.                        *)
(***************************************************************************)
EXTENDS Arena, TLAPS

\* ptr_align never goes back.
LEMMA AlignIsBehind ==
  ASSUME NEW address \in Nat, NEW align \in Nat \ {0}
  PROVE  Align(address, align) \in Nat /\ Align(address, align) >= address
<1> DEFINE last == address + align - 1
<1>1. last \in Nat /\ last \div align \in Nat
  BY SMT
<1>2. last - align < (last \div align) * align
  BY SMT
<1>3. (last \div align) * align \in Nat
  BY <1>1, SMT
<1> HIDE DEF last
<1>4. (last \div align) * align >= address
  BY <1>1, <1>2, <1>3, SMT DEF last
<1> QED
  BY <1>3, <1>4 DEF Align, last

-----------------------------------------------------------------------------
(* The scratch arena.                                                      *)

Typed == arena \in [base : Nat, alloc : Nat, capacity : Nat]

\* All that was handed out lies before the pointer.
Behind == \A b \in blocks : b \in Nat \X Nat /\ b[1] <= b[2] /\ b[2] <= arena.alloc

SInv == Typed /\ Behind /\ ScratchDisjoint

LEMMA AllocKeeps ==
  ASSUME SInv, NEW size \in Sizes, NEW align \in Aligns, ScratchAlloc(size, align)
  PROVE  SInv'
<1> DEFINE after == AfterAlloc(size, align)
<1>1. size \in Nat /\ align \in Nat \ {0} /\ arena.alloc \in Nat
  BY ConstantsAssumption DEF SInv, Typed
<1>2. after \in Nat /\ after >= arena.alloc
  BY <1>1, AlignIsBehind DEF AfterAlloc
<1>3. /\ arena' = [arena EXCEPT !.alloc = after]
      /\ blocks' = blocks \cup {<<arena.alloc, after>>}
  BY DEF ScratchAlloc
<1> HIDE DEF after
<1>4. Typed' /\ arena'.alloc = after
  BY <1>2, <1>3 DEF SInv, Typed
<1>5. Behind'
  BY <1>1, <1>2, <1>3, <1>4 DEF SInv, Behind
<1>6. ScratchDisjoint'
  BY <1>1, <1>2, <1>3 DEF SInv, Behind, ScratchDisjoint
<1> QED
  BY <1>4, <1>5, <1>6 DEF SInv

\* No byte is handed out twice before the arena is flushed (scratch_arena_alloc_bytes),
\* whatever the arena held at the start.
THEOREM NoByteTwice == Spec => []ScratchDisjoint
<1>1. Init => SInv
  BY ConstantsAssumption DEF Init, SInv, Typed, Behind, ScratchDisjoint, Zeroed
<1>2. SInv /\ [Next]_vars => SInv'
  <2> SUFFICES ASSUME SInv, [Next]_vars PROVE SInv'
    OBVIOUS
  <2> USE DEF SInv, Typed, Behind, ScratchDisjoint
  <2>1. ASSUME NEW kilobytes \in Kilobytes, ScratchInit(kilobytes) PROVE SInv'
    <3>1. kilobytes * Kilobyte \in Nat /\ Block \in Nat
      BY ConstantsAssumption
    <3>2. CASE UNCHANGED <<arena, blocks>>
      BY <3>2
    <3>3. CASE /\ arena' = [base |-> Block, alloc |-> Block, capacity |-> kilobytes * Kilobyte]
               /\ blocks' = {}
      BY <3>1, <3>3
    <3> QED
      BY <2>1, <3>2, <3>3 DEF ScratchInit, Panics
  <2>2. CASE ScratchFlush \/ ScratchDeinit
    <3>1. arena \in [base : Nat, alloc : Nat, capacity : Nat] /\ arena.base \in Nat
      OBVIOUS
    <3>2. [arena EXCEPT !.alloc = arena.base] \in [base : Nat, alloc : Nat, capacity : Nat]
      BY <3>1
    <3>3. [arena EXCEPT !.alloc = 0, !.capacity = 0] \in [base : Nat, alloc : Nat, capacity : Nat]
      BY <3>1
    <3>4. Typed' /\ blocks' = {}
      BY <2>2, <3>2, <3>3, Zenon DEF ScratchFlush, ScratchDeinit
    <3> QED
      BY <3>4
  <2>3. ASSUME NEW size \in Sizes, NEW align \in Aligns,
               ScratchAllocPanics(size, align) \/ ArenaAlloc(size, align)
        PROVE  SInv'
    BY <2>3 DEF ScratchAllocPanics, ArenaAlloc, Panics
  <2>4. CASE ScratchUninitialized \/ ArenaFree \/ ArenaDeinit \/ UNCHANGED vars
    BY <2>4 DEF ScratchUninitialized, ArenaFree, ArenaDeinit, Panics, vars
  <2> QED
    BY <2>1, <2>2, <2>3, <2>4, AllocKeeps DEF Next
<1>3. SInv => ScratchDisjoint
  BY DEF SInv
<1> QED
  BY <1>1, <1>2, <1>3, PTL DEF Spec

-----------------------------------------------------------------------------
(* The arena of pages.                                                     *)

PInv ==
  /\ pages \in Seq({EmptyPage}) /\ Len(pages) = calls
  /\ answer = Null

\* A page that has no allocation has no hole.
LEMMA EmptyHasNoHole == ASSUME NEW size, NEW align PROVE Holes(EmptyPage, size, align) = {}
  BY DEF Holes, EmptyPage

LEMMA PagesOnly ==
  ASSUME PInv, NEW size, NEW align, ArenaAlloc(size, align) PROVE PInv'
<1>1. {p \in 1..Len(pages) : Holes(pages[p], size, align) # {}} = {}
  <2>1. \A p \in 1..Len(pages) : pages[p] = EmptyPage
    BY DEF PInv
  <2> QED
    BY <2>1, EmptyHasNoHole
<1>2. calls' = calls + 1 /\ pages' = Append(pages, EmptyPage) /\ answer' = Null
  BY <1>1, EmptyHasNoHole DEF ArenaAlloc
<1> QED
  BY <1>2 DEF PInv

LEMMA FreesNothing == ASSUME PInv, ArenaFree PROVE PInv'
<1>1. \A p \in 1..Len(pages) : p # answer[1]
  BY DEF PInv, Null
<1>2. pages' = [p \in 1..Len(pages) |-> pages[p]]
  BY <1>1 DEF ArenaFree
<1>3. pages' = pages
  BY <1>2 DEF PInv
<1> QED
  BY <1>3 DEF PInv, ArenaFree

\* Every call of arena_alloc_bytes since the arena was last empty has added a page and
\* returned the null pointer: mempage_alloc looks for room before allocations only.
THEOREM NothingIsAllocated == Spec => []EveryCallAddsAPage
<1>1. Init => PInv
  BY DEF Init, PInv
<1>2. PInv /\ [Next]_vars => PInv'
  <2> SUFFICES ASSUME PInv, [Next]_vars PROVE PInv'
    OBVIOUS
  <2>1. CASE ArenaDeinit
    BY <2>1 DEF ArenaDeinit, PInv
  <2>2. ASSUME NEW kilobytes \in Kilobytes, ScratchInit(kilobytes) PROVE PInv'
    BY <2>2 DEF ScratchInit, Panics, PInv
  <2>3. ASSUME NEW size \in Sizes, NEW align \in Aligns,
               ScratchAlloc(size, align) \/ ScratchAllocPanics(size, align)
        PROVE  PInv'
    BY <2>3 DEF ScratchAlloc, ScratchAllocPanics, Panics, PInv
  <2>4. CASE ScratchFlush \/ ScratchDeinit \/ ScratchUninitialized \/ UNCHANGED vars
    BY <2>4 DEF ScratchFlush, ScratchDeinit, ScratchUninitialized, Panics, PInv, vars
  <2> QED
    BY <2>1, <2>2, <2>3, <2>4, PagesOnly, FreesNothing DEF Next
<1>3. PInv => EveryCallAddsAPage
  BY DEF PInv, EveryCallAddsAPage
<1> QED
  BY <1>1, <1>2, <1>3, PTL DEF Spec

=============================================================================
