----------------------------- MODULE Templater -----------------------------
(***************************************************************************)
(* template of web/templater.c: what is between the marks of a file goes   *)
(* into a header by turns as text to be put out and, bold, as C code.      *)
(***************************************************************************)
EXTENDS Words

Mark == "@"

Places(text) == Indices(text, LAMBDA t : CharIndex(t, Mark))

Output(bold, text) == [bold |-> bold, text |-> text]

\* Mutant: the bold state is not turned behind the last mark.
TemplateLastBold(text) ==
  LET indices == Places(text)  last == Len(indices)
      until(n) == IF n = last THEN Len(text) ELSE indices[n + 1]
  IN  <<Output(FALSE, Slice(text, 0, IF last = 0 THEN None ELSE indices[1]))>>
        \o [n \in 1..last |-> Output(n % 2 = 1 \/ n = last, SubSeq(text, indices[n] + 2, until(n)))]

\* The pieces in the order they are written: one up to the first mark, and one behind
\* each.
Template(text) ==
  LET indices == Places(text)  last == Len(indices)
      until(n) == IF n = last THEN Len(text) ELSE indices[n + 1]
  IN  <<Output(FALSE, Slice(text, 0, IF last = 0 THEN None ELSE indices[1]))>>
        \o [n \in 1..last |-> Output(n % 2 = 1, SubSeq(text, indices[n] + 2, until(n)))]

=============================================================================
