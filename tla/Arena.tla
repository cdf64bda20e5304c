-------------------------------- MODULE Arena --------------------------------
(***************************************************************************)
(* The two allocators of core/mem.c.  A ScratchArenaAllocator hands out    *)
(* the bytes of one block from its start on, until it is flushed.  An      *)
(* ArenaAllocator keeps a list of pages and, in each, the offsets and the  *)
(* sizes of what it has handed out.  A panic ends the program.             *)
(***************************************************************************)
EXTENDS Integers, Sequences, FiniteSets, FiniteSetsExt

CONSTANTS
  Kilobyte,     \* bytes in a kilobyte: 1024 in the code, fewer in the runs
  Block,        \* the address malloc returns; 0 is the null pointer
  Junk,         \* what an uninitialized ScratchArenaAllocator may hold
  Kilobytes, Sizes, Aligns,    \* what the program asks for
  MaxAddress,   \* bound: the largest address a scratch arena comes to
  MaxPages      \* bound: the most pages an arena comes to

ASSUME ConstantsAssumption ==
  /\ Kilobyte \in Nat \ {0} /\ Block \in Nat \ {0}
  /\ Junk \subseteq [base : Nat, alloc : Nat, capacity : Nat]
  /\ Kilobytes \subseteq Nat /\ Sizes \subseteq Nat /\ Aligns \subseteq Nat \ {0}
  /\ MaxAddress \in Nat /\ MaxPages \in Nat

VARIABLES
  arena,     \* the ScratchArenaAllocator
  blocks,    \* history: <<from, to>> of what it gave out since it was last empty
  pages,     \* the ArenaAllocator
  calls,     \* history: arena_alloc_bytes calls since the arena was empty
  answer,    \* the latest pointer arena_alloc_bytes returned, <<page, offset>>
  panic      \* the message the program ended with
vars == <<arena, blocks, pages, calls, answer, panic>>

Null == <<0, 0>>
Zeroed == [base |-> 0, alloc |-> 0, capacity |-> 0]
Messages == {"none", "Arena was uninitialized", "Malloc failed", "Arena ran out of space."}

TypeOK ==
  /\ arena \in [base : Nat, alloc : Nat, capacity : Nat]
  /\ \A b \in blocks : b \in Nat \X Nat /\ b[1] <= b[2] /\ b[2] <= arena.alloc
  /\ \A p \in 1..Len(pages) : Len(pages[p].starts) = Len(pages[p].sizes)
  /\ calls \in Nat /\ answer \in Nat \X Nat
  /\ panic \in Messages

Init ==
  /\ arena \in {Zeroed} \cup Junk
  /\ blocks = {} /\ pages = <<>> /\ calls = 0 /\ answer = Null
  /\ panic = "none"

Runs == panic = "none"
Initialized == arena.base # 0 /\ arena.capacity # 0

Panics(message) ==
  /\ panic' = message
  /\ UNCHANGED <<arena, blocks, pages, calls, answer>>

-----------------------------------------------------------------------------
(* ScratchArenaAllocator.                                                  *)

ScratchInit(kilobytes) ==
  /\ Runs /\ Initialized
  /\ \/ Panics("Malloc failed")
     \/ /\ arena' = [base |-> Block, alloc |-> Block, capacity |-> kilobytes * Kilobyte]
        /\ blocks' = {}
        /\ UNCHANGED <<pages, calls, answer, panic>>

ScratchFlush ==
  /\ Runs /\ Initialized
  /\ arena' = [arena EXCEPT !.alloc = arena.base]
  /\ blocks' = {}
  /\ UNCHANGED <<pages, calls, answer, panic>>

\* The block is freed, the pointer to it stays.
ScratchDeinit ==
  /\ Runs /\ Initialized
  /\ arena' = [arena EXCEPT !.alloc = 0, !.capacity = 0]
  /\ blocks' = {}
  /\ UNCHANGED <<pages, calls, answer, panic>>

Align(address, align) == ((address + align - 1) \div align) * align

\* The pointer handed out is the one before alignment, and there is one only if
\* the bytes reach past the end of the block.
AfterAlloc(size, align) == Align(arena.alloc, align) + size

\* Mutant: alloc_ptr stays where it was.
ScratchAllocNoBump(size, align) ==
  /\ Runs /\ Initialized
  /\ arena.base + arena.capacity < AfterAlloc(size, align)
  /\ AfterAlloc(size, align) <= MaxAddress
  /\ blocks' = blocks \cup {<<arena.alloc, AfterAlloc(size, align)>>}
  /\ UNCHANGED <<arena, pages, calls, answer, panic>>

ScratchAlloc(size, align) ==
  /\ Runs /\ Initialized
  /\ arena.base + arena.capacity < AfterAlloc(size, align)
  /\ AfterAlloc(size, align) <= MaxAddress
  /\ blocks' = blocks \cup {<<arena.alloc, AfterAlloc(size, align)>>}
  /\ arena' = [arena EXCEPT !.alloc = AfterAlloc(size, align)]
  /\ UNCHANGED <<pages, calls, answer, panic>>

ScratchAllocPanics(size, align) ==
  /\ Runs /\ Initialized
  /\ arena.base + arena.capacity >= AfterAlloc(size, align)
  /\ Panics("Arena ran out of space.")

\* Each of the four functions, scratch_arena_init too, on an arena with no block.
ScratchUninitialized == Runs /\ ~Initialized /\ Panics("Arena was uninitialized")

-----------------------------------------------------------------------------
(* ArenaAllocator.                                                         *)

EmptyPage == [starts |-> <<>>, sizes |-> <<>>]

\* mempage_alloc: index is where the search is before the n-th allocation, and a
\* hole is what lies between it and that allocation's start.  The hole's size is
\* compared as an unsigned number: a negative one is as good as a big one.
IndexBefore(page) ==
  LET index[n \in 1..(Len(page.starts) + 1)] ==
        IF n = 1 THEN 0
        ELSE IF index[n - 1] = page.starts[n - 1]
             THEN index[n - 1] + page.sizes[n - 1] ELSE index[n - 1]
  IN  index

\* Mutant: room behind the last allocation counts too.
HolesAndTail(page, size, align) == {Len(page.starts) + 1}

Holes(page, size, align) ==
  LET index == IndexBefore(page)
      room(n) == page.starts[n] - Align(index[n], align)
  IN  {n \in 1..Len(page.starts) :
         index[n] # page.starts[n] /\ (room(n) < 0 \/ room(n) >= size)}

\* What mempage_alloc makes of a page, and the offset it returns.
Filled(page, size, align) ==
  LET n == Min(Holes(page, size, align))
  IN  [page |-> [starts |-> Append(page.starts, IndexBefore(page)[n]),
                 sizes  |-> Append(page.sizes, size)],
       offset |-> Align(IndexBefore(page)[n], align)]

\* arena_alloc_bytes: the first page with a hole, or else a new page, which is
\* put in the list before it is searched itself.
ArenaAlloc(size, align) ==
  LET fitting == {p \in 1..Len(pages) : Holes(pages[p], size, align) # {}}
  IN  /\ Runs /\ calls < MaxPages
      /\ calls' = calls + 1
      /\ IF fitting # {}
         THEN LET p == Min(fitting)  f == Filled(pages[p], size, align)
              IN  pages' = [pages EXCEPT ![p] = f.page] /\ answer' = <<p, f.offset>>
         ELSE /\ pages' = Append(pages, EmptyPage)
              /\ answer' = IF Holes(EmptyPage, size, align) = {} THEN Null
                           ELSE <<Len(pages) + 1, Filled(EmptyPage, size, align).offset>>
      /\ UNCHANGED <<arena, blocks, panic>>

\* da_remove_at_ord: the last element is put at n, and the length stays.
Removed(s, n) == [s EXCEPT ![n] = s[Len(s)]]

\* arena_free of the latest pointer: on the page it belongs to, if any.
ArenaFree ==
  LET at == {p \in 1..Len(pages) : p = answer[1] /\
               \E n \in 1..Len(pages[p].starts) : pages[p].starts[n] = answer[2]}
  IN  /\ Runs
      /\ pages' = [p \in 1..Len(pages) |->
           IF p \notin at THEN pages[p]
           ELSE LET n == Min({m \in 1..Len(pages[p].starts) : pages[p].starts[m] = answer[2]})
                IN  [starts |-> Removed(pages[p].starts, n), sizes |-> Removed(pages[p].sizes, n)]]
      /\ UNCHANGED <<arena, blocks, calls, answer, panic>>

ArenaDeinit ==
  /\ Runs
  /\ pages' = <<>> /\ calls' = 0
  /\ UNCHANGED <<arena, blocks, answer, panic>>

Next ==
  \/ \E kilobytes \in Kilobytes : ScratchInit(kilobytes)
  \/ ScratchFlush \/ ScratchDeinit \/ ScratchUninitialized
  \/ \E size \in Sizes, align \in Aligns :
       ScratchAlloc(size, align) \/ ScratchAllocPanics(size, align) \/ ArenaAlloc(size, align)
  \/ ArenaFree \/ ArenaDeinit

Spec == Init /\ [][Next]_vars

-----------------------------------------------------------------------------
\* No byte of a scratch arena is handed out twice before it is flushed, whatever
\* the sizes and alignments asked for and however the arena came to be.
ScratchDisjoint ==
  \A b, c \in blocks : b = c \/ b[2] <= c[1] \/ c[2] <= b[1]

\* An allocation can only be made before an earlier one on its page, so that the
\* first is never made: every call of arena_alloc_bytes adds a page and returns
\* the null pointer.
EveryCallAddsAPage == Len(pages) = calls /\ answer = Null

\* "Arena ran out of space.": the bytes asked for are not left in the block.
OutOfSpaceIsFull ==
  [][\A size \in Sizes, align \in Aligns : ScratchAllocPanics(size, align) =>
       arena.base + arena.capacity < AfterAlloc(size, align)]_vars

=============================================================================
