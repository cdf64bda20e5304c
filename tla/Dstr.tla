-------------------------------- MODULE Dstr --------------------------------
(***************************************************************************)
(* The string builder dstr of core/str.c, a dynamic array (core/da.h) of   *)
(* characters whose length counts a closing NUL.  A builder of length 0 is *)
(* empty and has no NUL yet; reserving room to append gives it one place   *)
(* for it.  Growing copies every character; the places after length hold   *)
(* junk, or what was there before the builder was rewound.  A text may     *)
(* have NULs of its own.                                                   *)
(***************************************************************************)
EXTENDS Capacity, Sequences

CONSTANTS
  Chars,       \* characters other than NUL
  Nul, Junk,
  Untaken,     \* the value of out before there is one
  Pieces,      \* the texts that are appended, or a builder is made from
  Views,       \* the string views (vstr) a builder is made from
  ReadErrors,  \* whether reading a file may fail half-way
  MaxLength    \* bound: the longest text, with its NUL, that is built

Stored == Chars \cup {Nul, Junk}

ASSUME ConstantsAssumption ==
  /\ Nul \notin Chars /\ Junk \notin Chars \cup {Nul}
  /\ Untaken \notin Seq(Stored)
  /\ Pieces \subseteq Seq(Chars \cup {Nul}) /\ Views \subseteq Seq(Chars)
  /\ ReadErrors \in BOOLEAN
  /\ MaxLength \in 1..MaxCapacity

VARIABLES
  proper,      \* whether the views have a NUL, the files can be read, and an empty
               \* builder is neither made a C string of nor appended
  nuls,        \* whether what is appended may have NULs in it
  items, length, capacity,   \* the builder
  view,                      \* the characters of the latest view made of it, NUL included
                             \* (a view itself ends where the builder changes)
  out,                       \* the latest array handed out as a C string
  state

program == <<proper, nuls>>
vars == <<program, items, length, capacity, view, out, state>>

Places == 0..(capacity - 1)

TypeOK ==
  /\ proper \in BOOLEAN /\ nuls \in BOOLEAN
  /\ length \in 0..MaxLength
  /\ capacity \in 0..MaxCapacity
  /\ length <= capacity
  /\ items \in [Places -> Stored]
  /\ view \in Seq(Stored)
  /\ out \in Seq(Stored) \cup {Untaken}
  /\ state \in {"defined", "undefined"}

Init ==
  /\ proper \in BOOLEAN /\ nuls \in BOOLEAN
  /\ items = [p \in {} |-> Junk]
  /\ length = 0 /\ capacity = 0
  /\ view = <<>>
  /\ out = Untaken
  /\ state = "defined"

\* da_reserve: room for n characters, the old ones kept, the new places junk.
Grown(n) == IF capacity < n THEN RoundUp(n) ELSE capacity
Held(p) == IF p < capacity THEN items[p] ELSE Junk

\* Mutant: behind the NUL.
StartAfterNul == length

\* dstr_reserve_append: where appended text starts.  It takes the place of the
\* NUL; an empty builder is given the length of one that holds only a NUL.
Start == IF length = 0 THEN 0 ELSE length - 1

Reserved(n) == Start + n + 1

\* Mutant: a new block is taken and the old one is not copied.
AppendBufMoves(s) ==
  /\ Reserved(Len(s)) <= MaxLength
  /\ capacity' = Grown(Reserved(Len(s)))
  /\ items' = [p \in 0..(Grown(Reserved(Len(s))) - 1) |->
                 IF p \in Start..(Start + Len(s) - 1) THEN s[p - Start + 1]
                 ELSE IF p = Start + Len(s) THEN Nul
                 ELSE IF capacity < Reserved(Len(s)) THEN Junk ELSE Held(p)]
  /\ length' = Reserved(Len(s))
  /\ UNCHANGED <<program, state, view, out>>

\* What is appended: any character, NUL too, a C string, which has none, a view of
\* characters or of a builder, or the text of another builder that is not empty.
Strings == {s \in Pieces : \A n \in 1..Len(s) : s[n] # Nul}
Appended == IF nuls THEN Pieces \cup {view} ELSE Strings

\* dstr_append_buf, and dstr_append, dstr_append_cstr, dstr_append_vstr,
\* dstr_append_dstr and dstr_appendf, which come down to it.
AppendBuf(s) ==
  /\ Reserved(Len(s)) <= MaxLength
  /\ capacity' = Grown(Reserved(Len(s)))
  /\ items' = [p \in 0..(Grown(Reserved(Len(s))) - 1) |->
                 IF p \in Start..(Start + Len(s) - 1) THEN s[p - Start + 1]
                 ELSE IF p = Start + Len(s) THEN Nul ELSE Held(p)]
  /\ length' = Reserved(Len(s))
  /\ UNCHANGED <<program, state, view, out>>

\* dstr_append_dstr of a builder that is empty or was rewound: length - 1 characters
\* are copied, and memcpy takes the -1 for all of memory.
AppendEmpty ==
  /\ ~proper
  /\ state' = "undefined"
  /\ UNCHANGED <<program, items, length, capacity, view, out>>

\* dstr_append_file: when the whole file s is read it is appended.  (A file that
\* cannot be opened changes nothing.)
AppendFile(s) == AppendBuf(s)

\* Only the first got characters are there to be read.  On an error they stay
\* where they were put and only an empty builder's length has changed; at an end
\* of file the builder gets its full new length all the same.
AppendFileCut(s, got) ==
  /\ ReadErrors /\ ~proper
  /\ Reserved(Len(s)) <= MaxLength
  /\ capacity' = Grown(Reserved(Len(s)))
  /\ \E error \in BOOLEAN :
       /\ length' = IF error THEN Start + 1 ELSE Reserved(Len(s))
       /\ items' = [p \in 0..(Grown(Reserved(Len(s))) - 1) |->
                      IF p \in Start..(Start + got - 1) THEN s[p - Start + 1]
                      ELSE IF ~error /\ p = Start + Len(s) THEN Nul ELSE Held(p)]
  /\ UNCHANGED <<program, state, view, out>>

\* dstr_rewind: the room is kept, and so are the old characters.
Rewind ==
  /\ length' = 0
  /\ UNCHANGED <<program, state, items, capacity, view, out>>

\* Mutant: the room is reserved for one character less.
FreshBuilderTight(s, n) ==
  /\ n <= MaxLength
  /\ capacity' = IF n <= 1 THEN 0 ELSE RoundUp(n - 1)
  /\ items' = [p \in 0..((IF n <= 1 THEN 0 ELSE RoundUp(n - 1)) - 1) |->
                 IF p < n THEN s[p + 1] ELSE Junk]
  /\ length' = n
  /\ UNCHANGED <<program, state, view, out>>

\* A new builder of length n that holds s, its capacity just reserved.
FreshBuilder(s, n) ==
  /\ n <= MaxLength
  /\ capacity' = IF n = 0 THEN 0 ELSE RoundUp(n)
  /\ items' = [p \in 0..((IF n = 0 THEN 0 ELSE RoundUp(n)) - 1) |->
                 IF p < n THEN s[p + 1] ELSE Junk]
  /\ length' = n
  /\ UNCHANGED <<program, state, view, out>>

\* cstr_to_dstr copies the NUL as well; vstr_to_dstr copies the view as it is.
FromCstr(s) == FreshBuilder(Append(s, Nul), Len(s) + 1)
FromVstr(s) == FreshBuilder(s, Len(s))

\* The characters length counts, the NUL included.
All == [n \in 1..length |-> items[n - 1]]

\* dstr_to_vstr: all of them.
ToVstr ==
  /\ view' = All
  /\ UNCHANGED <<program, state, items, length, capacity, out>>

\* Mutant: the NUL is left behind.
ToCstrNoNul ==
  /\ length > 0
  /\ out' = [n \in 1..(length - 1) |-> items[n - 1]]
  /\ UNCHANGED <<program, state, items, length, capacity, view>>

\* dstr_to_cstr: a copy of length characters, of none for an empty builder.
ToCstr ==
  /\ length > 0 \/ ~proper
  /\ out' = All
  /\ UNCHANGED <<program, state, items, length, capacity, view>>

\* The views a builder is made from: those of a builder end in a NUL.
Sources == IF proper THEN {view} ELSE Views \cup {view}

Call ==
  \/ \E s \in Appended : AppendBuf(s) \/ AppendFile(s)
  \/ \E s \in Appended : \E got \in 0..(Len(s) - 1) : AppendFileCut(s, got)
  \/ \E s \in Strings : FromCstr(s)
  \/ \E s \in Sources : FromVstr(s)
  \/ AppendEmpty \/ Rewind \/ ToVstr \/ ToCstr

Next == state = "defined" /\ Call

Spec == Init /\ [][Next]_vars

-----------------------------------------------------------------------------
\* ".items of non-empty StringBuilder is a cstr" (README.md): a NUL is the last of the
\* characters length counts, and the only one, but for those of what was appended.
ItemsAreCstr ==
  length > 0 =>
    /\ items[length - 1] = Nul
    /\ ~nuls => \A p \in 0..(length - 2) : items[p] # Nul

\* That holds in a proper program, whatever was appended, grown or started again,
\* and "cstr (char* that is expected to be null-terminated)" (README.md) is true of
\* what dstr_to_cstr hands out.
BuilderIsCstr ==
  proper => ItemsAreCstr /\ (out # Untaken => out # <<>> /\ out[Len(out)] = Nul)

\* Whatever is appended, even a file that cannot be read to its end, the text
\* that was there stays, also where the array moves to a bigger block.
AppendKeepsText ==
  [][(\E s \in Appended : AppendBuf(s) \/ \E got \in 0..(Len(s) - 1) : AppendFileCut(s, got))
     => \A p \in 0..(Start - 1) : items'[p] = items[p]]_vars

\* What a reader that stops at the first NUL sees of s.
AsCstr(s) ==
  LET ends == {n \in 1..Len(s) + 1 : n = Len(s) + 1 \/ s[n] = Nul}
  IN  SubSeq(s, 1, (CHOOSE n \in ends : \A m \in ends : n <= m) - 1)

\* What is in front of the closing NUL.
Body(s) == [n \in 1..(IF s = <<>> THEN 0 ELSE Len(s) - 1) |-> s[n]]

\* The builder implements Builder: neither growing nor what a rewind left behind changes
\* the text, NULs that were appended are kept in it as any character is, and the C string
\* handed out is all of it, or as far as its first NUL.  (Of the builders of a program
\* that is not proper nothing is said.)
B == INSTANCE Builder WITH
       text <- IF proper THEN Body(All) ELSE <<>>,
       kept <- IF proper THEN view ELSE <<>>,
       handed <- IF ~proper \/ out = Untaken THEN Untaken ELSE AsCstr(out)
ImplementsBuilder == B!Spec

=============================================================================
