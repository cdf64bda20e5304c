-------------------------------- MODULE Dict --------------------------------
(***************************************************************************)
(* What a hash table promises to its callers: a finite map.  Setting a key *)
(* binds it to the item, getting a key answers with the item it is bound   *)
(* to, or with NoValue (the null pointer of ht_get) when it is unbound.    *)
(* HashTable is shown to implement this specification.                     *)
(***************************************************************************)

CONSTANTS Keys, Values, NoValue

VARIABLES
  dict,     \* dict[k] is the item bound to k, or NoValue
  answer,   \* what the latest lookup answered
  asked     \* what has been asked for and not been done yet

vars == <<dict, answer, asked>>

Nothing == <<>>

TypeOK ==
  /\ dict \in [Keys -> Values \cup {NoValue}]
  /\ answer \in Values \cup {NoValue}
  /\ asked \in {Nothing} \cup ({"set"} \X Keys \X Values) \cup ({"get"} \X Keys)

Init ==
  /\ dict = [k \in Keys |-> NoValue]
  /\ answer = NoValue
  /\ asked = Nothing

Ask(request) ==
  /\ asked = Nothing
  /\ asked' = request
  /\ UNCHANGED <<dict, answer>>

Set(k, v) ==
  /\ asked = <<"set", k, v>>
  /\ dict' = [dict EXCEPT ![k] = v]
  /\ asked' = Nothing
  /\ UNCHANGED answer

Get(k) ==
  /\ asked = <<"get", k>>
  /\ answer' = dict[k]
  /\ asked' = Nothing
  /\ UNCHANGED dict

Next ==
  \/ \E k \in Keys, v \in Values : Ask(<<"set", k, v>>) \/ Set(k, v)
  \/ \E k \in Keys : Ask(<<"get", k>>) \/ Get(k)

Spec == Init /\ [][Next]_vars

=============================================================================
