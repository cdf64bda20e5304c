------------------------------ MODULE HashTable ------------------------------
(***************************************************************************)
(* The open-addressing hash table of core/ht.h, as its macros run: a probe *)
(* is one step per slot looked at, and growing the table re-inserts the    *)
(* old entries one by one.  Only one operation runs at a time.             *)
(*                                                                         *)
(* The table only deals in keys, their hashes and items; a key type's hash *)
(* function is the field hashfunc, any of HashFuncs, and its equality      *)
(* function is equality.  The decrement and increment of length around one *)
(* re-insertion cancel out and nothing reads length in between.            *)
(***************************************************************************)
EXTENDS Capacity, FiniteSets

CONSTANTS
  Keys, Values,
  ZeroKey, ZeroValue,  \* what calloc leaves in an unused slot
  NoValue,             \* the null pointer ht_get gives for a missing key
  HashFuncs,           \* the hash functions a table may be given
  InitCaps,            \* the capacities a table may be created with
  ReserveCaps          \* the capacities a caller passes to ht_reserve itself

ASSUME ConstantsAssumption ==
  /\ ZeroKey \in Keys
  /\ ZeroValue \in Values
  /\ NoValue \notin Values
  /\ HashFuncs \subseteq [Keys -> Nat]
  /\ InitCaps \subseteq 0..MaxCapacity
  /\ ReserveCaps \subseteq 0..MaxCapacity

\* Every key can be in a table whose capacity an int can hold.
ASSUME KeysAssumption ==
  /\ IsFiniteSet(Keys)
  /\ Cardinality(Keys) < MaxCapacity

VARIABLES
  careful,                   \* whether only full and empty tables are reserved
  hashfunc,
  capacity, length,
  occupied, keys, values,    \* the three arrays of the table
  oldKeys, oldValues, i,     \* the arrays being moved and the next old slot
  op, key, item,             \* the running operation and its arguments
  pc, index,                 \* where it is, and the slot it looks at
  itemp                      \* what the latest ht_get gave back

table == <<capacity, occupied, keys, values>>
old == <<oldKeys, oldValues, i>>
call == <<op, key, item>>
vars == <<careful, hashfunc, table, length, old, call, pc, index, itemp>>

Slots == 0..(capacity - 1)
Home(k) == hashfunc[k] % capacity
NextSlotByTwo(s) == (s + 2) % capacity    \* mutant: a stride that misses slots
NextSlot(s) == (s + 1) % capacity

\* The slots a probe that starts at a has passed when it comes to b.
Passed(a, b) ==
  {s \in Slots : IF a <= b THEN a <= s /\ s < b ELSE a <= s \/ s < b}

NoArray == [s \in {} |-> s]

TypeOK ==
  /\ careful \in BOOLEAN
  /\ hashfunc \in [Keys -> Nat]
  /\ capacity \in 0..MaxCapacity
  /\ length \in Nat
  /\ occupied \in [Slots -> BOOLEAN]
  /\ keys \in [Slots -> Keys]
  /\ values \in [Slots -> Values]
  /\ oldKeys \in [DOMAIN oldKeys -> Keys]
  /\ oldValues \in [DOMAIN oldKeys -> Values]
  /\ i \in Nat
  /\ op \in {"none", "set", "get", "reserve"}
  /\ key \in Keys
  /\ item \in Values
  /\ pc \in {"idle", "rehash", "reprobe", "probe", "trap"}
  /\ pc \in {"reprobe", "probe"} => index \in Slots
  /\ itemp \in Values \cup {NoValue}

\* ht_init: zeroed arrays of the capacity asked for, which need not be a power
\* of two and may be zero.
Init ==
  /\ careful \in BOOLEAN
  /\ hashfunc \in HashFuncs
  /\ capacity \in InitCaps
  /\ length = 0
  /\ occupied = [s \in Slots |-> FALSE]
  /\ keys = [s \in Slots |-> ZeroKey]
  /\ values = [s \in Slots |-> ZeroValue]
  /\ oldKeys = NoArray /\ oldValues = NoArray /\ i = 0
  /\ op = "none" /\ key = ZeroKey /\ item = ZeroValue
  /\ pc = "idle" /\ index = 0
  /\ itemp = NoValue

Begin(name, k, v) == pc = "idle" /\ op' = name /\ key' = k /\ item' = v

Return ==
  /\ pc' = "idle" /\ index' = 0
  /\ op' = "none" /\ key' = ZeroKey /\ item' = ZeroValue

\* __ht_reserve up to its loop: bigger zeroed arrays, the old ones kept aside.
Grow(cap) ==
  /\ capacity' = RoundUp(cap)
  /\ occupied' = [s \in 0..(RoundUp(cap) - 1) |-> FALSE]
  /\ keys' = [s \in 0..(RoundUp(cap) - 1) |-> ZeroKey]
  /\ values' = [s \in 0..(RoundUp(cap) - 1) |-> ZeroValue]
  /\ oldKeys' = keys /\ oldValues' = values /\ i' = 0
  /\ pc' = "rehash"
  /\ UNCHANGED index

\* Mutant: a table that is just full is not grown.
SetProbeFull(k, v) ==
  /\ Begin("set", k, v)
  /\ capacity > 0 /\ capacity >= length
  /\ pc' = "probe" /\ index' = Home(k)
  /\ UNCHANGED <<careful, hashfunc, table, length, old, itemp>>

\* ht_set on a table with no room for one more: grow it first, even if the key
\* turns out to be there already.
SetGrow(k, v) ==
  /\ Begin("set", k, v)
  /\ capacity < length + 1
  /\ Grow(length + 1)
  /\ UNCHANGED <<careful, hashfunc, length, itemp>>

\* ht_set on a table with room: start probing at the key's home slot.
SetProbe(k, v) ==
  /\ Begin("set", k, v)
  /\ capacity >= length + 1
  /\ pc' = "probe" /\ index' = Home(k)
  /\ UNCHANGED <<careful, hashfunc, table, length, old, itemp>>

\* ht_reserve called by the table's user; smaller capacities change nothing.  A
\* careful user (everyone in the repository, who never calls it) keeps off
\* tables that are neither full nor empty.
Reserve(cap) ==
  /\ careful => length \in {0, capacity}
  /\ capacity < cap
  /\ Begin("reserve", key, item)
  /\ Grow(cap)
  /\ UNCHANGED <<careful, hashfunc, length, itemp>>

\* ht_get starts at the home slot; with no slots, the remainder by zero traps.
GetProbe(k) ==
  /\ Begin("get", k, item)
  /\ capacity > 0
  /\ pc' = "probe" /\ index' = Home(k)
  /\ UNCHANGED <<careful, hashfunc, table, length, old, itemp>>

GetTrap(k) ==
  /\ Begin("get", k, item)
  /\ capacity = 0
  /\ pc' = "trap"
  /\ UNCHANGED <<careful, hashfunc, table, length, old, index, itemp>>

\* Mutants: an old entry keeps its slot number; the probe of ht_set goes on with a
\* home slot worked out before the table grew.
RehashNextSameSlot ==
  /\ pc = "rehash" /\ i < length
  /\ pc' = "reprobe" /\ index' = i
  /\ UNCHANGED <<careful, hashfunc, table, length, old, call, itemp>>

RehashDoneStaleIndex ==
  /\ pc = "rehash" /\ i >= length
  /\ oldKeys' = NoArray /\ oldValues' = NoArray /\ i' = 0
  /\ \/ /\ op = "set" /\ pc' = "probe"
        /\ index' = IF length = 0 THEN 0 ELSE hashfunc[key] % length
        /\ UNCHANGED call
     \/ op = "reserve" /\ Return
  /\ UNCHANGED <<careful, hashfunc, table, length, itemp>>

\* The loop of __ht_reserve: old slot i, used or not, is inserted again.
RehashNext ==
  /\ pc = "rehash" /\ i < length
  /\ pc' = "reprobe" /\ index' = Home(oldKeys[i])
  /\ UNCHANGED <<careful, hashfunc, table, length, old, call, itemp>>

RehashSkip ==
  /\ pc = "reprobe" /\ occupied[index]
  /\ index' = NextSlot(index)
  /\ UNCHANGED <<careful, hashfunc, table, length, old, call, pc, itemp>>

RehashPlace ==
  /\ pc = "reprobe" /\ ~occupied[index]
  /\ occupied' = [occupied EXCEPT ![index] = TRUE]
  /\ keys' = [keys EXCEPT ![index] = oldKeys[i]]
  /\ values' = [values EXCEPT ![index] = oldValues[i]]
  /\ i' = i + 1
  /\ pc' = "rehash"
  /\ UNCHANGED <<careful, hashfunc, capacity, length, oldKeys, oldValues, call, index, itemp>>

\* The old arrays are freed; ht_set goes on to its probe, ht_reserve returns.
RehashDone ==
  /\ pc = "rehash" /\ i >= length
  /\ oldKeys' = NoArray /\ oldValues' = NoArray /\ i' = 0
  /\ \/ op = "set" /\ pc' = "probe" /\ index' = Home(key) /\ UNCHANGED call
     \/ op = "reserve" /\ Return
  /\ UNCHANGED <<careful, hashfunc, table, length, itemp>>

\* A slot with another key in it is passed over, by ht_set and ht_get alike.
ProbeSkip ==
  /\ pc = "probe" /\ occupied[index] /\ keys[index] # key
  /\ index' = NextSlot(index)
  /\ UNCHANGED <<careful, hashfunc, table, length, old, call, pc, itemp>>

SetOverwrite ==
  /\ pc = "probe" /\ op = "set" /\ occupied[index] /\ keys[index] = key
  /\ values' = [values EXCEPT ![index] = item]
  /\ Return
  /\ UNCHANGED <<careful, hashfunc, capacity, occupied, keys, length, old, itemp>>

SetPlace ==
  /\ pc = "probe" /\ op = "set" /\ ~occupied[index]
  /\ values' = [values EXCEPT ![index] = item]
  /\ keys' = [keys EXCEPT ![index] = key]
  /\ occupied' = [occupied EXCEPT ![index] = TRUE]
  /\ length' = length + 1
  /\ Return
  /\ UNCHANGED <<careful, hashfunc, capacity, old, itemp>>

GetHit ==
  /\ pc = "probe" /\ op = "get" /\ occupied[index] /\ keys[index] = key
  /\ itemp' = values[index]
  /\ Return
  /\ UNCHANGED <<careful, hashfunc, table, length, old>>

GetMiss ==
  /\ pc = "probe" /\ op = "get" /\ ~occupied[index]
  /\ itemp' = NoValue
  /\ Return
  /\ UNCHANGED <<careful, hashfunc, table, length, old>>

Call ==
  \/ \E k \in Keys, v \in Values : SetGrow(k, v) \/ SetProbe(k, v)
  \/ \E k \in Keys : GetProbe(k) \/ GetTrap(k)
  \/ \E cap \in ReserveCaps : Reserve(cap)

Step ==
  \/ RehashNext \/ RehashSkip \/ RehashPlace \/ RehashDone
  \/ ProbeSkip \/ SetOverwrite \/ SetPlace \/ GetHit \/ GetMiss

Next == Call \/ Step

Spec == Init /\ [][Next]_vars

\* A call, once made, runs until it returns: nothing else uses the processor.
FairSpec == Spec /\ WF_vars(Step)

-----------------------------------------------------------------------------
Used == {s \in Slots : occupied[s]}
Rehashing == pc \in {"rehash", "reprobe"}

\* No gap on the way: every slot between a stored key's home and its own is in
\* use, so the probe of a later ht_set or ht_get for that key cannot stop
\* early.  It must survive growth, which changes every key's home.
ProbeReachable ==
  \A s \in Used : \A t \in Passed(Home(keys[s]), s) : occupied[t]

\* ht_set's probe for a place always has a free slot to come to.
SetHasRoom == pc = "probe" /\ op = "set" => \E s \in Slots : ~occupied[s]

\* Key k is bound to v by a slot in use or by an old slot still to be moved.
Bound(k, v) ==
  \/ \E s \in Used : keys[s] = k /\ values[s] = v
  \/ Rehashing /\ \E j \in i..(length - 1) : oldKeys[j] = k /\ oldValues[j] = v

Contents ==
  [k \in Keys |-> IF \E v \in Values : Bound(k, v)
                  THEN CHOOSE v \in Values : Bound(k, v) ELSE NoValue]

Unbound == [k \in Keys |-> NoValue]
Asked == IF op = "set" THEN <<"set", key, item>> ELSE IF op = "get" THEN <<"get", key>> ELSE <<>>

\* Hash collisions, wrap-around and growth never show: the table is a map, every
\* call of ht_set binds its key in one step and ht_get answers from the map.
\* (ht_reserve called on a table that is neither full nor empty loses entries
\* and makes up zero keys: its loop takes the first length old slots, in use or
\* not.  Of such a table nothing is said.)
D == INSTANCE Dict WITH dict <- IF careful THEN Contents ELSE Unbound,
                        answer <- IF careful THEN itemp ELSE NoValue,
                        asked <- IF careful THEN Asked ELSE <<>>
ImplementsDict == D!Spec

\* ht_set always returns, because growing leaves it a free slot; ht_get returns
\* if the key is there or some slot is free.  (With neither, it goes round for
\* ever: the TODO at the top of ht.h.)
CallsReturn ==
  /\ (op = "set") ~> (op # "set")
  /\ (op = "get" /\ \E s \in Slots : ~occupied[s] \/ keys[s] = key) ~> (op # "get")

=============================================================================
