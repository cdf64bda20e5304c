------------------------------ MODULE Builder ------------------------------
(***************************************************************************)
(* What a string builder promises to its callers: a text that grows at its *)
(* end, can be started again, and can be had as a view, with a NUL behind  *)
(* it, and as a C string.  Any character of it may be a NUL.               *)
(* Dstr is shown to implement this specification.                          *)
(***************************************************************************)
EXTENDS Integers, Sequences

CONSTANTS
  Pieces,    \* the texts that are appended, or a builder is made from
  Nul,
  Untaken    \* the handed-out string before there is one

VARIABLES
  text,      \* what has been built
  kept,      \* the latest view of it
  handed     \* the latest C string handed out, as far as a reader of it sees

vars == <<text, kept, handed>>

Init == text = <<>> /\ kept = <<>> /\ handed = Untaken

Add(s) == text' = text \o s /\ UNCHANGED <<kept, handed>>

Make(s) == text' = s /\ UNCHANGED <<kept, handed>>

\* The view's NUL is taken for the new builder's.
MakeOfKept ==
  /\ text' = IF kept = <<>> THEN <<>> ELSE SubSeq(kept, 1, Len(kept) - 1)
  /\ UNCHANGED <<kept, handed>>

Rewind == text' = <<>> /\ UNCHANGED <<kept, handed>>

\* An empty text may be that of a builder that has no NUL yet.
Keep ==
  /\ kept' = Append(text, Nul) \/ (text = <<>> /\ kept' = <<>>)
  /\ UNCHANGED <<text, handed>>

\* All of the text, if it has no NUL of its own.
Take ==
  /\ \E n \in 0..Len(text) :
       /\ \A m \in 1..n : text[m] # Nul
       /\ n < Len(text) => text[n + 1] = Nul
       /\ handed' = SubSeq(text, 1, n)
  /\ UNCHANGED <<text, kept>>

Next ==
  \/ Rewind \/ Keep \/ Take \/ MakeOfKept
  \/ \E s \in Pieces \cup {kept} : Add(s)
  \/ \E s \in Pieces : Make(s)

Spec == Init /\ [][Next]_vars

=============================================================================
