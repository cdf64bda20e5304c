----------------------------- MODULE JsonTexts -----------------------------
(* Every short text in brackets or quotes of some kind, and the documents that *)
(* are written from values: numbers, strings, arrays of up to two, objects of  *)
(* up to two members, and arrays and objects of those.                         *)
EXTENDS Integers, Sequences, SequencesExt

CONSTANTS MaxBody, MaxString, MaxNumber

Around(first, bodies, last) == {[text |-> first \o body \o last, tokens |-> <<>>] : body \in bodies}

Bodies == BoundedSeq({"{", "}", "[", "]", ":", ",", "quote", "1", "space"}, MaxBody)

Strings ==
  BoundedSeq({"quote", "escape", "u", "n", "newline"}, MaxString)
  \cup {<<"escape", "u">> \o hex : hex \in [1..4 -> {"e", "x"}]}

Texts ==
  Around(<<"{">>, Bodies, <<"}">>) \cup Around(<<"[">>, Bodies, <<"]">>)
  \cup Around(<<"quote">>, Strings, <<"quote">>)
  \cup Around(<<"{", "quote">>, Strings, <<"quote", ":", "1", "}">>)
  \cup Around(<<>>, BoundedSeq({"-", "0", "1", ".", "e", "x"}, MaxNumber), <<>>)

\* What is written, the space between its parts, and the type its last token has.
Scalars ==
  {[text |-> number, tokens |-> <<<<"number", number>>>>, type |-> "number"] :
     number \in {<<"0">>, <<"-", "1", "0">>}}
  \cup {[text |-> <<"quote">> \o symbol \o <<"quote">>, tokens |-> <<<<"symbol", symbol>>>>,
         type |-> "symbol"] : symbol \in {<<>>, <<"escape", "quote", "x">>}}

Lists(S) == {<<>>} \cup {<<v>> : v \in S} \cup (S \X S)

Listed(list, Written(_)) ==
  FlattenSeq([n \in 1..Len(list) |-> (IF n = 1 THEN <<>> ELSE <<",", "space">>) \o Written(list[n])])

Arrays(S) ==
  {[text |-> <<"[", "space">> \o Listed(list, LAMBDA v : v.text) \o <<"]">>,
    tokens |-> <<<<"arrayStart", <<>>>>>> \o FlattenSeq([n \in 1..Len(list) |-> list[n].tokens])
                 \o <<<<"arrayEnd", <<>>>>>>,
    type |-> "arrayEnd"] :
     list \in {l \in Lists(S) : \A m, n \in 1..Len(l) : l[m].type = l[n].type}}

Members(S) == [name : {<<>>, <<"x", "escape", "quote">>}, value : S]

Objects(S) ==
  {[text |-> <<"{">> \o Listed(list, LAMBDA m : <<"quote">> \o m.name \o <<"quote", ":">> \o m.value.text)
               \o <<"space", "}">>,
    tokens |-> <<<<"objectStart", <<>>>>>>
                 \o FlattenSeq([n \in 1..Len(list) |-> <<<<"name", list[n].name>>>> \o list[n].value.tokens])
                 \o <<<<"objectEnd", <<>>>>>>,
    type |-> "objectEnd"] : list \in Lists(Members(S))}

Flat == Scalars \cup Arrays(Scalars) \cup {o \in Objects(Scalars) : Len(o.tokens) < 6}
Documents == Flat \cup Arrays(Flat) \cup Objects(Flat)

JsonFiles == Texts \cup {[text |-> d.text, tokens |-> d.tokens] : d \in Documents}

=============================================================================
