--------------------------- MODULE HashTableProofs ---------------------------
(***************************************************************************)
(* Proofs about HashTable for every set of keys and items, every hash      *)
(* function and every initial capacity, for careful users: those who call  *)
(* ht_reserve of full and empty tables only, or, as everyone in the        *)
(* repository, not at all.                                                 *)
(***************************************************************************)
EXTENDS HashTable, TLAPS, FiniteSetTheorems

\* No key is stored twice, or an overwrite would leave a stale item behind that
\* a later growth may bring to the front.
UniqueKeys == \A s, t \in Used : keys[s] = keys[t] => s = t

\* length counts the slots in use: ht_set relies on it to leave a free slot for
\* its probe to stop at.  While the table grows, i entries have been moved.
LengthIsCount == Cardinality(Used) = IF Rehashing THEN i ELSE length

\* While a table is being moved: its first length slots, all that are moved, had
\* different keys, and those still to be moved are not in the new table, which
\* has room for them all.
GrowthInv ==
  Rehashing =>
    /\ op \in {"set", "reserve"}
    /\ length < capacity
    /\ i <= length
    /\ pc = "reprobe" => i < length
    /\ 0..(length - 1) \subseteq DOMAIN oldKeys
    /\ \A j, l \in 0..(length - 1) : oldKeys[j] = oldKeys[l] => j = l
    /\ \A s \in Used, j \in i..(length - 1) : keys[s] # oldKeys[j]

\* What a running probe has learnt about the slots it has passed.
ProbeInv ==
  /\ pc = "idle" => op = "none"
  /\ pc = "reprobe" => \A t \in Passed(Home(oldKeys[i]), index) : occupied[t]
  /\ pc = "probe" => /\ op \in {"set", "get"}
                     /\ op = "set" => length < capacity
                     /\ \A t \in Passed(Home(key), index) :
                          occupied[t] /\ keys[t] # key

IInv ==
  /\ TypeOK
  /\ ProbeReachable
  /\ UniqueKeys
  /\ LengthIsCount
  /\ GrowthInv
  /\ ProbeInv

-----------------------------------------------------------------------------
(* The arithmetic of the table.                                            *)

LEMMA HomeInSlots ==
  ASSUME capacity \in Nat \ {0}, hashfunc \in [Keys -> Nat], NEW k \in Keys
  PROVE  Home(k) \in Slots
<1>1. hashfunc[k] \in Nat
  OBVIOUS
<1>2. \A n \in Nat : n % capacity \in 0..(capacity - 1)
  OBVIOUS
<1>3. QED
  BY <1>1, <1>2 DEF Home, Slots

LEMMA NextSlotValue ==
  ASSUME capacity \in Nat, NEW s \in Slots
  PROVE  NextSlot(s) = IF s = capacity - 1 THEN 0 ELSE s + 1
<1>1. CASE s = capacity - 1
  <2>1. capacity % capacity = 0
    BY <1>1 DEF Slots
  <2>2. s + 1 = capacity
    BY <1>1
  <2>3. QED
    BY <1>1, <2>1, <2>2 DEF NextSlot
<1>2. CASE s # capacity - 1
  <2>1. s + 1 \in 0..(capacity - 1) /\ capacity \in Nat \ {0}
    BY <1>2 DEF Slots
  <2>2. \A n \in Nat \ {0} : \A m \in 0..(n - 1) : m % n = m
    OBVIOUS
  <2>3. QED
    BY <1>2, <2>1, <2>2 DEF NextSlot
<1>3. QED
  BY <1>1, <1>2

LEMMA NextSlotInSlots ==
  ASSUME capacity \in Nat, NEW s \in Slots
  PROVE  NextSlot(s) \in Slots
BY NextSlotValue DEF Slots

\* A step of a probe passes the slot it was at and no other.
LEMMA PassedNext ==
  ASSUME capacity \in Nat, NEW a \in Slots, NEW b \in Slots
  PROVE  Passed(a, NextSlot(b)) \subseteq Passed(a, b) \cup {b}
BY NextSlotValue DEF Passed, Slots

\* A probe from a comes to one of two slots before the other.
LEMMA PassedTotal ==
  ASSUME capacity \in Nat, NEW a \in Slots, NEW s \in Slots, NEW t \in Slots, s # t
  PROVE  s \in Passed(a, t) \/ t \in Passed(a, s)
BY DEF Passed, Slots

LEMMA PassedSelf ==
  ASSUME capacity \in Nat, NEW a \in Slots
  PROVE  Passed(a, a) = {}
BY DEF Passed, Slots

-----------------------------------------------------------------------------
(* How full a table can be.                                                *)

LEMMA MaxCapacityIsNat == MaxCapacity \in Nat \ {0}
BY SMT DEF MaxCapacity

LEMMA PowersFit == \A p \in PowersOfTwo : p \in Int /\ 1 <= p /\ p <= MaxCapacity
<1>1. \A p \in SmallPowers : p \in Int /\ 1 <= p /\ p <= MaxCapacity
  BY SMT DEF SmallPowers, MaxCapacity
<1>2. \A p \in LargePowers : p \in Int /\ 1 <= p /\ p <= MaxCapacity
  BY SMT DEF LargePowers, MaxCapacity
<1> QED
  BY <1>1, <1>2 DEF PowersOfTwo

\* Between a capacity and its double there is a power of two.
LEMMA PowerExists ==
  ASSUME NEW c \in Int, 1 <= c, c <= MaxCapacity
  PROVE  \E p \in PowersOfTwo : c <= p /\ p < 2 * c
<1>1. c <= 16384 => \E p \in SmallPowers : c <= p /\ p < 2 * c
  BY SMT DEF SmallPowers, MaxCapacity
<1>2. c > 16384 => \E p \in LargePowers : c <= p /\ p < 2 * c
  BY SMT DEF LargePowers, MaxCapacity
<1> QED
  BY <1>1, <1>2 DEF PowersOfTwo

\* Growing to hold c entries gives room for c entries, in a capacity that fits an int.
LEMMA RoundUpBounds ==
  ASSUME NEW c \in 1..MaxCapacity
  PROVE  RoundUp(c) \in 1..MaxCapacity /\ c <= RoundUp(c)
BY PowerExists, PowersFit, MaxCapacityIsNat DEF RoundUp

LEMMA UsedFinite ==
  ASSUME TypeOK
  PROVE  /\ IsFiniteSet(Slots) /\ Cardinality(Slots) = capacity
         /\ IsFiniteSet(Used) /\ Used \subseteq Slots /\ Cardinality(Used) <= capacity
<1>1. capacity \in Nat
  BY MaxCapacityIsNat DEF TypeOK
<1>2. IsFiniteSet(Slots) /\ Cardinality(Slots) = capacity
  BY <1>1, FS_Interval DEF Slots
<1>3. Used \in SUBSET Slots
  BY DEF Used
<1>4. QED
  BY <1>2, <1>3, FS_Subset

\* A key is in one slot at most, so there are no more entries than keys; and a
\* table with as many entries as slots has no free slot.
LEMMA Fullness ==
  ASSUME TypeOK, UniqueKeys, LengthIsCount, ~Rehashing
  PROVE  /\ length <= capacity
         /\ length < MaxCapacity
         /\ length = capacity => Used = Slots
<1>1. Cardinality(Used) = length /\ length \in Nat
  BY DEF LengthIsCount, TypeOK
<1>2. Cardinality(Used) <= Cardinality(Keys)
  <2>1. Cardinality(Keys) \in Nat
    BY KeysAssumption, FS_CardinalityType
  <2>2. SUFFICES ASSUME Cardinality(Keys) < Cardinality(Used)
                 PROVE  FALSE
    BY <1>1, <2>1
  <2> DEFINE f == [s \in Used |-> keys[s]]
  <2>3. f \in [Used -> Keys]
    BY DEF Used, TypeOK
  <2>4. \E s, t \in Used : s # t /\ f[s] = f[t]
    <3> HIDE DEF f
    <3> QED
      BY <2>2, <2>3, UsedFinite, KeysAssumption, FS_PigeonHole
  <2>5. QED
    BY <2>4 DEF UniqueKeys
<1>3. Cardinality(Keys) \in Nat /\ Cardinality(Keys) < MaxCapacity
  BY KeysAssumption, FS_CardinalityType
<1>4. length = capacity => Used = Slots
  BY <1>1, UsedFinite, FS_Subset
<1>5. QED
  BY <1>1, <1>2, <1>3, <1>4, UsedFinite, MaxCapacityIsNat

\* What depends on the three arrays alone.
LEMMA SameTable ==
  ASSUME UNCHANGED <<hashfunc, table>>
  PROVE  /\ Slots' = Slots /\ Used' = Used
         /\ \A a, b : Passed(a, b)' = Passed(a, b)
         /\ \A k : Home(k)' = Home(k)
         /\ ProbeReachable => ProbeReachable'
         /\ UniqueKeys => UniqueKeys'
<1>1. Slots' = Slots /\ Used' = Used
  BY DEF table, Slots, Used
<1>2. \A a, b : Passed(a, b)' = Passed(a, b)
  BY <1>1 DEF Passed
<1>3. \A k : Home(k)' = Home(k)
  BY DEF table, Home
<1>4. ProbeReachable => ProbeReachable'
  BY <1>1 DEF ProbeReachable, Passed, Home, table
<1>5. UniqueKeys => UniqueKeys'
  BY <1>1 DEF UniqueKeys, table
<1>6. QED
  BY <1>1, <1>2, <1>3, <1>4, <1>5

\* Filling the free slot a probe has come to, whichever key the probe is for.
LEMMA Fill ==
  ASSUME TypeOK, ProbeReachable, NEW k \in Keys, index \in Slots, ~occupied[index],
         \A t \in Passed(Home(k), index) : occupied[t],
         UNCHANGED <<hashfunc, capacity>>,
         occupied' = [occupied EXCEPT ![index] = TRUE],
         keys' = [keys EXCEPT ![index] = k]
  PROVE  /\ Used' = Used \cup {index} /\ index \notin Used
         /\ Slots' = Slots
         /\ \A s \in Used : keys'[s] = keys[s]
         /\ keys'[index] = k
         /\ ProbeReachable'
         /\ Cardinality(Used') = Cardinality(Used) + 1
<1>1. Slots' = Slots
  BY DEF Slots
<1>2. Used' = Used \cup {index} /\ index \notin Used
  BY <1>1 DEF Used, TypeOK
<1>3. (\A s \in Used : keys'[s] = keys[s]) /\ keys'[index] = k
  BY <1>2 DEF TypeOK, Used
<1>4. ProbeReachable'
  <2> SUFFICES ASSUME NEW s \in Used', NEW t \in Passed(Home(keys[s]), s)'
               PROVE  occupied'[t]
    BY DEF ProbeReachable
  <2>1. t \in Slots /\ t \in Passed(Home(keys'[s]), s)
    BY <1>1 DEF Passed, Home
  <2>2. occupied[t]
    <3>1. CASE s = index
      BY <3>1, <2>1, <1>3
    <3>2. CASE s \in Used
      BY <3>2, <2>1, <1>3 DEF ProbeReachable
    <3>3. QED
      BY <1>2, <3>1, <3>2
  <2>3. QED
    BY <2>1, <2>2 DEF TypeOK
<1>5. Cardinality(Used') = Cardinality(Used) + 1
  BY <1>2, UsedFinite, FS_AddElement
<1>6. QED
  BY <1>1, <1>2, <1>3, <1>4, <1>5

\* A probe that has come to a free slot without meeting its key shows that the
\* key is nowhere in the table.
LEMMA AbsentKey ==
  ASSUME TypeOK, ProbeReachable, NEW k \in Keys, index \in Slots, ~occupied[index],
         \A t \in Passed(Home(k), index) : keys[t] # k
  PROVE  \A s \in Used : keys[s] # k
<1> SUFFICES ASSUME NEW s \in Used, keys[s] = k
             PROVE  FALSE
  OBVIOUS
<1>1. capacity \in Nat \ {0} /\ s \in Slots /\ Home(k) \in Slots /\ s # index
  BY HomeInSlots, MaxCapacityIsNat DEF TypeOK, Used, Slots
<1>2. s \notin Passed(Home(k), index)
  OBVIOUS
<1>3. index \in Passed(Home(k), s)
  BY <1>1, <1>2, PassedTotal
<1>4. QED
  BY <1>3 DEF ProbeReachable

-----------------------------------------------------------------------------
(* The inductive invariant.                                                *)

LEMMA InitIInv == Init => IInv
<1> SUFFICES ASSUME Init
             PROVE  IInv
  OBVIOUS
<1>1. TypeOK
  BY ConstantsAssumption, MaxCapacityIsNat DEF Init, TypeOK, NoArray
<1>2. Used = {}
  BY DEF Init, Used
<1>3. ProbeReachable /\ UniqueKeys
  BY <1>2 DEF ProbeReachable, UniqueKeys
<1>4. LengthIsCount
  BY <1>2, FS_EmptySet DEF LengthIsCount, Init, Rehashing
<1>5. GrowthInv /\ ProbeInv
  BY DEF GrowthInv, ProbeInv, Init, Rehashing
<1>6. QED
  BY <1>1, <1>3, <1>4, <1>5 DEF IInv

\* The calls that only start a probe or end in the trap.
LEMMA ProbeStart ==
  ASSUME IInv, NEW k \in Keys, NEW v \in Values, SetProbe(k, v) \/ GetProbe(k) \/ GetTrap(k)
  PROVE  IInv'
<1>1. /\ UNCHANGED <<careful, hashfunc, table, length, old>> /\ ~Rehashing /\ ~Rehashing'
      /\ pc = "idle" /\ key' = k
  BY DEF SetProbe, GetProbe, GetTrap, Begin, Rehashing
<1>2. TypeOK
  BY DEF IInv
<1>3. ProbeReachable' /\ UniqueKeys' /\ LengthIsCount'
  BY <1>1, SameTable DEF IInv, LengthIsCount
<1>4. GrowthInv'
  BY <1>1 DEF GrowthInv
<1>5. CASE GetTrap(k)
  <2>1. TypeOK'
    BY <1>2, <1>5 DEF TypeOK, GetTrap, Begin, table, old, Slots
  <2>2. ProbeInv'
    BY <1>5 DEF ProbeInv, GetTrap
  <2>3. QED
    BY <1>3, <1>4, <2>1, <2>2 DEF IInv
<1>6. CASE SetProbe(k, v) \/ GetProbe(k)
  <2>1. /\ capacity \in Nat \ {0} /\ index' = Home(k) /\ pc' = "probe"
        /\ op' \in {"set", "get"} /\ item' \in Values /\ itemp' = itemp
        /\ op' = "set" => length' < capacity'
    BY <1>2, <1>6, MaxCapacityIsNat DEF SetProbe, GetProbe, Begin, TypeOK, table
  <2>2. Home(k) \in Slots
    BY <1>2, <2>1, HomeInSlots DEF TypeOK
  <2>3. TypeOK'
    BY <1>1, <1>2, <2>1, <2>2 DEF TypeOK, table, old, Slots
  <2>4. Passed(Home(key), index)' = {}
    BY <1>1, <2>1, <2>2, SameTable, PassedSelf
  <2>5. ProbeInv'
    BY <2>1, <2>4 DEF ProbeInv
  <2>6. QED
    BY <1>3, <1>4, <2>3, <2>5 DEF IInv
<1>7. QED
  BY <1>5, <1>6

\* ht_set and ht_reserve begin to grow a table that is full or empty.
LEMMA GrowStart ==
  ASSUME IInv, pc = "idle", length \in {0, capacity},
         NEW cap \in 1..MaxCapacity, capacity < cap, Grow(cap),
         UNCHANGED <<careful, hashfunc, length, itemp>>,
         op' \in {"set", "reserve"}, key' \in Keys, item' \in Values
  PROVE  IInv'
<1>1. TypeOK /\ UniqueKeys /\ LengthIsCount
  BY DEF IInv
<1>2. ~Rehashing /\ Rehashing' /\ pc' = "rehash"
  BY DEF Grow, Rehashing
<1>3. RoundUp(cap) \in 1..MaxCapacity /\ cap <= RoundUp(cap)
  BY RoundUpBounds
<1>4. /\ capacity' = RoundUp(cap) /\ i' = 0
      /\ oldKeys' = keys /\ oldValues' = values
      /\ occupied' = [s \in 0..(capacity' - 1) |-> FALSE]
      /\ keys' = [s \in 0..(capacity' - 1) |-> ZeroKey]
      /\ values' = [s \in 0..(capacity' - 1) |-> ZeroValue]
  BY DEF Grow
<1>5. TypeOK'
  <2>1. DOMAIN keys = Slots /\ DOMAIN values = Slots
    BY <1>1 DEF TypeOK
  <2>2. QED
    BY <1>1, <1>2, <1>3, <1>4, <2>1, ConstantsAssumption, MaxCapacityIsNat DEF TypeOK, Slots
<1>6. Used' = {}
  BY <1>4 DEF Used, Slots
<1>7. ProbeReachable' /\ UniqueKeys'
  BY <1>6 DEF ProbeReachable, UniqueKeys
<1>8. LengthIsCount'
  BY <1>2, <1>4, <1>6, FS_EmptySet DEF LengthIsCount
<1>9. GrowthInv'
  <2>1. 0..(length - 1) \subseteq Used
    <3>1. CASE length = capacity
      BY <1>1, <1>2, <3>1, Fullness DEF Slots
    <3>2. CASE length = 0
      BY <3>2
    <3>3. QED
      BY <3>1, <3>2
  <2>2. \A j, l \in 0..(length - 1) : keys[j] = keys[l] => j = l
    BY <1>1, <2>1 DEF UniqueKeys
  <2>3. 0..(length - 1) \subseteq DOMAIN keys
    BY <1>1, <2>1 DEF TypeOK, Used
  <2>4. length < capacity' /\ 0 <= length
    BY <1>1, <1>3, <1>4, MaxCapacityIsNat DEF TypeOK
  <2>5. QED
    BY <1>2, <1>4, <1>6, <2>2, <2>3, <2>4 DEF GrowthInv
<1>10. ProbeInv'
  BY <1>2 DEF ProbeInv
<1>11. QED
  BY <1>5, <1>7, <1>8, <1>9, <1>10 DEF IInv

GrowCall ==
  \/ \E k \in Keys, v \in Values : SetGrow(k, v)
  \/ \E cap \in ReserveCaps : Reserve(cap)

\* ht_set finds a table without room full; a careful user is the one to choose
\* whether an empty table is reserved.
LEMMA GrowCalls ==
  ASSUME IInv, careful, GrowCall
  PROVE  \E cap \in 1..MaxCapacity :
           /\ pc = "idle" /\ length \in {0, capacity} /\ capacity < cap /\ Grow(cap)
           /\ UNCHANGED <<careful, hashfunc, length, itemp>>
           /\ op' \in {"set", "reserve"} /\ key' \in Keys /\ item' \in Values
<1> DEFINE Growth == \E cap \in 1..MaxCapacity :
             /\ pc = "idle" /\ length \in {0, capacity} /\ capacity < cap /\ Grow(cap)
             /\ UNCHANGED <<careful, hashfunc, length, itemp>>
             /\ op' \in {"set", "reserve"} /\ key' \in Keys /\ item' \in Values
<1>1. TypeOK /\ UniqueKeys /\ LengthIsCount
  BY DEF IInv
<1>2. ASSUME NEW k \in Keys, NEW v \in Values, SetGrow(k, v)
      PROVE  Growth
  <2>1. pc = "idle" /\ ~Rehashing /\ capacity < length + 1
    BY <1>2 DEF SetGrow, Begin, Rehashing
  <2>2. length = capacity /\ length + 1 \in 1..MaxCapacity
    BY <1>1, <2>1, Fullness, MaxCapacityIsNat DEF TypeOK
  <2>3. QED
    BY <1>2, <2>1, <2>2 DEF SetGrow, Begin
<1>3. ASSUME NEW c \in ReserveCaps, Reserve(c)
      PROVE  Growth
  <2>1. c \in 1..MaxCapacity
    BY <1>1, <1>3, ConstantsAssumption, MaxCapacityIsNat DEF Reserve, TypeOK
  <2>2. QED
    BY <1>1, <1>3, <2>1 DEF Reserve, Begin, TypeOK
<1>4. QED
  BY <1>2, <1>3 DEF GrowCall

LEMMA NextOldEntry ==
  ASSUME IInv, RehashNext
  PROVE  IInv'
<1>1. /\ UNCHANGED <<careful, hashfunc, table, length, old, call, itemp>>
      /\ Rehashing /\ Rehashing' /\ pc' = "reprobe" /\ i < length
      /\ index' = Home(oldKeys[i])
  BY DEF RehashNext, Rehashing
<1>2. TypeOK /\ GrowthInv
  BY DEF IInv
<1>3. capacity \in Nat \ {0} /\ oldKeys[i] \in Keys
  BY <1>1, <1>2, MaxCapacityIsNat DEF TypeOK, GrowthInv
<1>4. Home(oldKeys[i]) \in Slots
  BY <1>2, <1>3, HomeInSlots DEF TypeOK
<1>5. TypeOK'
  BY <1>1, <1>2, <1>4 DEF TypeOK, table, old, call, Slots
<1>6. ProbeReachable' /\ UniqueKeys' /\ LengthIsCount'
  BY <1>1, SameTable DEF IInv, LengthIsCount, old
<1>7. GrowthInv'
  BY <1>1, <1>2, SameTable DEF GrowthInv, table, old, call
<1>8. ProbeInv'
  <2>1. Passed(Home(oldKeys[i]), index)' = {}
    BY <1>1, <1>3, <1>4, SameTable, PassedSelf DEF old
  <2>2. QED
    BY <1>1, <2>1 DEF ProbeInv
<1>9. QED
  BY <1>5, <1>6, <1>7, <1>8 DEF IInv

LEMMA Skip ==
  ASSUME IInv, RehashSkip \/ ProbeSkip
  PROVE  IInv'
<1>1. /\ UNCHANGED <<careful, hashfunc, table, length, old, call, pc, itemp>>
      /\ pc \in {"reprobe", "probe"} /\ occupied[index] /\ index' = NextSlot(index)
      /\ pc = "probe" => keys[index] # key
  BY DEF RehashSkip, ProbeSkip
<1>2. TypeOK /\ ProbeInv /\ GrowthInv
  BY DEF IInv
<1>3. capacity \in Nat \ {0} /\ index \in Slots
  BY <1>1, <1>2, MaxCapacityIsNat DEF TypeOK, Slots
<1>4. NextSlot(index) \in Slots
  BY <1>3, NextSlotInSlots
<1>5. TypeOK'
  BY <1>1, <1>2, <1>4 DEF TypeOK, table, old, call, Slots
<1>6. ProbeReachable' /\ UniqueKeys' /\ LengthIsCount'
  BY <1>1, SameTable DEF IInv, LengthIsCount, old, Rehashing
<1>7. GrowthInv'
  BY <1>1, <1>2, SameTable DEF GrowthInv, table, old, call, Rehashing
<1>8. ProbeInv'
  <2>1. CASE pc = "reprobe"
    <3>1. oldKeys[i] \in Keys
      BY <1>2, <2>1, MaxCapacityIsNat DEF GrowthInv, Rehashing, TypeOK
    <3>2. Home(oldKeys[i]) \in Slots
      BY <1>2, <1>3, <3>1, HomeInSlots DEF TypeOK
    <3>3. Passed(Home(oldKeys[i]), NextSlot(index)) \subseteq
            Passed(Home(oldKeys[i]), index) \cup {index}
      BY <1>3, <3>2, PassedNext
    <3>4. Passed(Home(oldKeys[i]), index)' = Passed(Home(oldKeys[i]), NextSlot(index))
      BY <1>1, SameTable DEF old
    <3>5. QED
      BY <1>1, <1>2, <2>1, <3>3, <3>4 DEF ProbeInv, table
  <2>2. CASE pc = "probe"
    <3>1. Home(key) \in Slots
      BY <1>2, <1>3, HomeInSlots DEF TypeOK
    <3>2. Passed(Home(key), NextSlot(index)) \subseteq Passed(Home(key), index) \cup {index}
      BY <1>3, <3>1, PassedNext
    <3>3. Passed(Home(key), index)' = Passed(Home(key), NextSlot(index))
      BY <1>1, SameTable DEF call
    <3>4. QED
      BY <1>1, <1>2, <2>2, <3>2, <3>3 DEF ProbeInv, table, call
  <2>3. QED
    BY <1>1, <2>1, <2>2
<1>9. QED
  BY <1>5, <1>6, <1>7, <1>8 DEF IInv

LEMMA PlaceOldEntry ==
  ASSUME IInv, RehashPlace
  PROVE  IInv'
<1> DEFINE k == oldKeys[i]
<1>1. /\ UNCHANGED <<careful, hashfunc, capacity, length, oldKeys, oldValues, call, itemp>>
      /\ Rehashing /\ Rehashing' /\ pc = "reprobe" /\ pc' = "rehash" /\ i' = i + 1
      /\ ~occupied[index]
      /\ occupied' = [occupied EXCEPT ![index] = TRUE]
      /\ keys' = [keys EXCEPT ![index] = k]
      /\ values' = [values EXCEPT ![index] = oldValues[i]]
  BY DEF RehashPlace, Rehashing
<1>2. TypeOK /\ GrowthInv /\ ProbeReachable /\ UniqueKeys
  BY DEF IInv
<1>3. index \in Slots /\ i \in 0..(length - 1) /\ k \in Keys /\ oldValues[i] \in Values
  BY <1>1, <1>2 DEF TypeOK, GrowthInv
<1>4. \A t \in Passed(Home(k), index) : occupied[t]
  BY <1>1 DEF IInv, ProbeInv
<1>5. /\ Used' = Used \cup {index} /\ index \notin Used /\ Slots' = Slots
      /\ \A s \in Used : keys'[s] = keys[s]
      /\ keys'[index] = k
      /\ ProbeReachable'
      /\ Cardinality(Used') = Cardinality(Used) + 1
  <2> HIDE DEF k
  <2> QED
    BY <1>1, <1>2, <1>3, <1>4, Fill
<1>6. TypeOK'
  BY <1>1, <1>2, <1>3 DEF TypeOK, Slots, call
<1>7. UniqueKeys'
  <2>1. \A s \in Used : keys[s] # k
    BY <1>1, <1>2, <1>3 DEF GrowthInv
  <2> HIDE DEF k
  <2>2. QED
    BY <1>2, <1>5, <2>1 DEF UniqueKeys
<1>8. LengthIsCount'
  BY <1>1, <1>5 DEF IInv, LengthIsCount
<1>9. GrowthInv'
  <2>1. \A s \in Used', j \in i'..(length' - 1) : keys'[s] # oldKeys'[j]
    <3> SUFFICES ASSUME NEW s \in Used', NEW j \in (i + 1)..(length - 1)
                 PROVE  keys'[s] # oldKeys[j]
      BY <1>1
    <3>1. j \in i..(length - 1) /\ j \in 0..(length - 1) /\ j # i
      BY <1>3
    <3>2. CASE s \in Used
      BY <1>1, <1>2, <1>5, <3>1, <3>2 DEF GrowthInv
    <3>3. CASE s = index
      BY <1>1, <1>2, <1>3, <1>5, <3>1, <3>3 DEF GrowthInv
    <3>4. QED
      BY <1>5, <3>2, <3>3
  <2>2. i' <= length'
    BY <1>1, <1>2, <1>3 DEF TypeOK
  <2>3. QED
    BY <1>1, <1>2, <2>1, <2>2 DEF GrowthInv, call
<1>10. ProbeInv'
  BY <1>1 DEF ProbeInv
<1>11. QED
  BY <1>5, <1>6, <1>7, <1>8, <1>9, <1>10 DEF IInv

LEMMA EndGrowth ==
  ASSUME IInv, RehashDone
  PROVE  IInv'
<1>1. TypeOK /\ GrowthInv /\ Rehashing /\ pc = "rehash" /\ i >= length
  BY DEF IInv, RehashDone, Rehashing
<1>2. op \in {"set", "reserve"} /\ i = length /\ length < capacity
  BY <1>1 DEF GrowthInv, TypeOK
<1>3. /\ UNCHANGED <<careful, hashfunc, table, length, itemp>> /\ ~Rehashing'
      /\ oldKeys' = NoArray /\ oldValues' = NoArray /\ i' = 0
      /\ \/ op = "set" /\ pc' = "probe" /\ index' = Home(key) /\ UNCHANGED call
         \/ pc' = "idle" /\ op' = "none" /\ key' = ZeroKey /\ item' = ZeroValue
  BY <1>2 DEF RehashDone, Return, Rehashing
<1>4. Home(key) \in Slots
  BY <1>1, <1>2, HomeInSlots, MaxCapacityIsNat DEF TypeOK
<1>5. TypeOK'
  <2>1. NoArray \in [DOMAIN NoArray -> Keys] /\ NoArray \in [DOMAIN NoArray -> Values]
    BY DEF NoArray
  <2>2. QED
    BY <1>1, <1>3, <1>4, <2>1, ConstantsAssumption DEF TypeOK, table, call, Slots
<1>6. ProbeReachable' /\ UniqueKeys'
  BY <1>3, SameTable DEF IInv
<1>7. LengthIsCount'
  BY <1>1, <1>2, <1>3, SameTable DEF IInv, LengthIsCount
<1>8. GrowthInv'
  BY <1>3 DEF GrowthInv
<1>9. ProbeInv'
  <2>1. CASE pc' = "probe"
    <3>1. Passed(Home(key), index)' = {}
      BY <1>1, <1>2, <1>3, <1>4, <2>1, SameTable, PassedSelf DEF call, TypeOK
    <3>2. QED
      BY <1>2, <1>3, <2>1, <3>1 DEF ProbeInv, call, table
  <2>2. CASE pc' = "idle"
    BY <1>3, <2>2 DEF ProbeInv
  <2>3. QED
    BY <1>3, <2>1, <2>2
<1>10. QED
  BY <1>5, <1>6, <1>7, <1>8, <1>9 DEF IInv

LEMMA PlaceNewEntry ==
  ASSUME IInv, SetPlace
  PROVE  IInv'
<1>1. /\ UNCHANGED <<careful, hashfunc, capacity, old, itemp>>
      /\ ~Rehashing /\ ~Rehashing' /\ pc = "probe" /\ pc' = "idle" /\ length' = length + 1
      /\ op' = "none" /\ key' = ZeroKey /\ item' = ZeroValue
      /\ ~occupied[index]
      /\ occupied' = [occupied EXCEPT ![index] = TRUE]
      /\ keys' = [keys EXCEPT ![index] = key]
      /\ values' = [values EXCEPT ![index] = item]
  BY DEF SetPlace, Return, Rehashing
<1>2. TypeOK /\ ProbeReachable /\ UniqueKeys /\ ProbeInv
  BY DEF IInv
<1>3. index \in Slots /\ key \in Keys /\ item \in Values
  BY <1>1, <1>2 DEF TypeOK
<1>4. \A t \in Passed(Home(key), index) : occupied[t] /\ keys[t] # key
  BY <1>1, <1>2 DEF ProbeInv
<1>5. /\ Used' = Used \cup {index} /\ index \notin Used /\ Slots' = Slots
      /\ \A s \in Used : keys'[s] = keys[s]
      /\ keys'[index] = key
      /\ ProbeReachable'
      /\ Cardinality(Used') = Cardinality(Used) + 1
  BY <1>1, <1>2, <1>3, <1>4, Fill
<1>6. TypeOK'
  BY <1>1, <1>2, <1>3, ConstantsAssumption DEF TypeOK, Slots, old
<1>7. UniqueKeys'
  <2>1. \A s \in Used : keys[s] # key
    BY <1>1, <1>2, <1>3, <1>4, AbsentKey
  <2>2. QED
    BY <1>2, <1>5, <2>1 DEF UniqueKeys
<1>8. LengthIsCount'
  BY <1>1, <1>5 DEF IInv, LengthIsCount
<1>9. GrowthInv' /\ ProbeInv'
  BY <1>1 DEF GrowthInv, ProbeInv
<1>10. QED
  BY <1>5, <1>6, <1>7, <1>8, <1>9 DEF IInv

LEMMA Finish ==
  ASSUME IInv, SetOverwrite \/ GetHit \/ GetMiss
  PROVE  IInv'
<1>1. /\ UNCHANGED <<careful, hashfunc, capacity, occupied, keys, length, old>>
      /\ ~Rehashing /\ ~Rehashing' /\ pc = "probe" /\ pc' = "idle"
      /\ op' = "none" /\ key' = ZeroKey /\ item' = ZeroValue
  BY DEF SetOverwrite, GetHit, GetMiss, Return, Rehashing, table
<1>2. TypeOK
  BY DEF IInv
<1>3. values' \in [Slots -> Values] /\ itemp' \in Values \cup {NoValue}
  BY <1>1, <1>2 DEF SetOverwrite, GetHit, GetMiss, TypeOK, table
<1>4. TypeOK'
  BY <1>1, <1>2, <1>3, ConstantsAssumption DEF TypeOK, Slots, old
<1>5. Slots' = Slots /\ Used' = Used
  BY <1>1 DEF Slots, Used
<1>6. ProbeReachable' /\ UniqueKeys' /\ LengthIsCount'
  BY <1>1, <1>5 DEF IInv, ProbeReachable, UniqueKeys, LengthIsCount, Passed, Home
<1>7. GrowthInv' /\ ProbeInv'
  BY <1>1 DEF GrowthInv, ProbeInv
<1>8. QED
  BY <1>4, <1>6, <1>7 DEF IInv

LEMMA StepIInv ==
  ASSUME IInv, careful, [Next]_vars
  PROVE  IInv'
<1>1. CASE Call
  <2>1. ASSUME NEW k \in Keys, NEW v \in Values, SetProbe(k, v)
        PROVE  IInv'
    BY <2>1, ProbeStart
  <2>2. ASSUME NEW k \in Keys, GetProbe(k) \/ GetTrap(k)
        PROVE  IInv'
    BY <2>2, ProbeStart, ConstantsAssumption
  <2>3. CASE GrowCall
    BY <2>3, GrowCalls, GrowStart
  <2>4. QED
    BY <1>1, <2>1, <2>2, <2>3 DEF Call, GrowCall
<1>2. CASE Step
  BY <1>2, NextOldEntry, Skip, PlaceOldEntry, EndGrowth, PlaceNewEntry, Finish DEF Step
<1>3. CASE UNCHANGED vars
  <2>1. UNCHANGED <<hashfunc, table>>
    BY <1>3 DEF vars
  <2>2. TypeOK'
    BY <1>3 DEF IInv, TypeOK, vars, table, old, call, Slots
  <2>3. ProbeReachable' /\ UniqueKeys' /\ LengthIsCount'
    BY <1>3, <2>1, SameTable DEF IInv, LengthIsCount, vars, old, Rehashing
  <2>4. GrowthInv' /\ ProbeInv'
    BY <1>3, <2>1, SameTable DEF IInv, GrowthInv, ProbeInv, vars, table, old, call, Rehashing
  <2>5. QED
    BY <2>2, <2>3, <2>4 DEF IInv
<1>4. QED
  BY <1>1, <1>2, <1>3 DEF Next

LEMMA CarefulStays ==
  ASSUME [Next]_vars
  PROVE  careful' = careful
<1>1. CASE Call
  BY <1>1 DEF Call, SetGrow, SetProbe, GetProbe, GetTrap, Reserve
<1>2. CASE Step
  BY <1>2 DEF Step, RehashNext, RehashSkip, RehashPlace, RehashDone, ProbeSkip,
              SetOverwrite, SetPlace, GetHit, GetMiss
<1>3. CASE UNCHANGED vars
  BY <1>3 DEF vars
<1>4. QED
  BY <1>1, <1>2, <1>3 DEF Next

-----------------------------------------------------------------------------
(* What the runs check on small tables, for every table.                   *)

\* The invariant holds in every reachable state of a table (core/ht.h) whose
\* user is careful.
THEOREM Invariance == Spec => [](careful => IInv)
<1>1. Init => (careful => IInv)
  BY InitIInv
<1>2. (careful => IInv) /\ [Next]_vars => (careful => IInv)'
  BY StepIInv, CarefulStays
<1>3. QED
  BY <1>1, <1>2, PTL DEF Spec

\* Every index ht_set, ht_get and the loop of __ht_reserve use is in bounds.
THEOREM TypeCorrect == Spec => [](careful => TypeOK)
<1>1. IInv => TypeOK
  BY DEF IInv
<1>2. QED
  BY <1>1, Invariance, PTL

\* A stored key can always be found from its home slot, and is stored once.
THEOREM KeysAreFound == Spec => [](careful => ProbeReachable /\ UniqueKeys)
<1>1. IInv => ProbeReachable /\ UniqueKeys
  BY DEF IInv
<1>2. QED
  BY <1>1, Invariance, PTL

\* length is right, so growth happens in time: ht_set's probe always has a free
\* slot to stop at.
THEOREM GrowsInTime == Spec => [](careful => LengthIsCount /\ SetHasRoom)
<1>1. ASSUME IInv
      PROVE  LengthIsCount /\ SetHasRoom
  <2>1. LengthIsCount
    BY <1>1 DEF IInv
  <2>2. ASSUME pc = "probe", op = "set"
        PROVE  \E s \in Slots : ~occupied[s]
    <3>1. Cardinality(Used) = length /\ length < capacity
      BY <1>1, <2>2 DEF IInv, LengthIsCount, ProbeInv, Rehashing
    <3>2. Used # Slots
      BY <1>1, <3>1, UsedFinite, MaxCapacityIsNat DEF IInv, TypeOK
    <3>3. QED
      BY <3>2 DEF Used
  <2>3. QED
    BY <2>1, <2>2 DEF SetHasRoom
<1>2. QED
  BY <1>1, Invariance, PTL

-----------------------------------------------------------------------------
(* The table implements a map.                                             *)

\* Contents is the map Bound describes, which binds a key to one item at most.
ContentsIsBound ==
  \A k \in Keys :
    /\ \A v \in Values : Bound(k, v) => Contents[k] = v
    /\ (\A v \in Values : ~Bound(k, v)) => Contents[k] = NoValue

LEMMA ContentsByBound == IInv => ContentsIsBound
<1> SUFFICES ASSUME IInv, NEW k \in Keys
             PROVE  /\ \A v \in Values : Bound(k, v) => Contents[k] = v
                    /\ (\A v \in Values : ~Bound(k, v)) => Contents[k] = NoValue
  BY DEF ContentsIsBound
<1>1. ASSUME NEW v \in Values, NEW w \in Values, Bound(k, v), Bound(k, w)
      PROVE  v = w
  <2>1. i \in Nat /\ length \in Nat /\ \A j \in i..(length - 1) : j \in 0..(length - 1)
    BY DEF IInv, TypeOK
  <2>2. QED
    BY <1>1, <2>1 DEF IInv, UniqueKeys, GrowthInv, Bound
<1>2. Contents[k] = IF \E v \in Values : Bound(k, v)
                    THEN CHOOSE v \in Values : Bound(k, v) ELSE NoValue
  BY DEF Contents
<1>3. ASSUME NEW v \in Values, Bound(k, v)
      PROVE  Contents[k] = v
  <2> DEFINE c == CHOOSE w \in Values : Bound(k, w)
  <2>1. c \in Values /\ Bound(k, c)
    BY <1>3
  <2>2. Contents[k] = c
    BY <1>2, <1>3
  <2>3. QED
    BY <1>1, <1>3, <2>1, <2>2
<1>4. QED
  BY <1>2, <1>3

\* Steps that change no binding do not change the map.
LEMMA SameContents ==
  ASSUME ContentsIsBound, ContentsIsBound',
         \A k \in Keys, v \in Values : Bound(k, v)' <=> Bound(k, v)
  PROVE  Contents' = Contents
<1>1. ASSUME NEW k \in Keys
      PROVE  Contents'[k] = Contents[k]
  BY DEF ContentsIsBound
<1>2. QED
  BY <1>1 DEF Contents

\* Binding k to v, where the other keys' bindings stay, is a step of the map.
LEMMA NewContents ==
  ASSUME ContentsIsBound, ContentsIsBound', NEW k \in Keys, NEW v \in Values,
         Bound(k, v)',
         \A l \in Keys, w \in Values : l # k => (Bound(l, w)' <=> Bound(l, w))
  PROVE  Contents' = [Contents EXCEPT ![k] = v]
<1>1. Contents'[k] = v
  BY DEF ContentsIsBound
<1>2. ASSUME NEW l \in Keys, l # k
      PROVE  Contents'[l] = Contents[l]
  BY <1>2 DEF ContentsIsBound
<1>3. Contents = [l \in Keys |-> Contents[l]] /\ Contents' = [l \in Keys |-> Contents'[l]]
  BY DEF Contents
<1>4. QED
  BY <1>1, <1>2, <1>3

\* Each step of the table is a step of the map or leaves it alone.
LEMMA StepRefines ==
  ASSUME careful, careful', IInv, IInv', [Next]_vars
  PROVE  [D!Next]_D!vars
<1>1. TypeOK /\ GrowthInv /\ ProbeInv /\ ProbeReachable
  BY DEF IInv
<1>2. i \in Nat /\ length \in Nat
  BY <1>1 DEF TypeOK
<1>3. ContentsIsBound
  BY ContentsByBound
<1>4. ContentsIsBound'
  <2>1. (IInv => ContentsIsBound)'
    BY ContentsByBound, PTL
  <2>2. QED
    BY <2>1
<1> DEFINE Same == \A k \in Keys, v \in Values : Bound(k, v)' <=> Bound(k, v)
<1>5. ASSUME Same
      PROVE  Contents' = Contents
  BY <1>3, <1>4, <1>5, SameContents
<1> DEFINE Stutter == Contents' = Contents /\ itemp' = itemp /\ Asked' = Asked
           Sets == \E k \in Keys, v \in Values :
                     /\ Asked = <<"set", k, v>> /\ Asked' = <<>> /\ itemp' = itemp
                     /\ Contents' = [Contents EXCEPT ![k] = v]
           Gets == \E k \in Keys :
                     /\ Asked = <<"get", k>> /\ Asked' = <<>> /\ itemp' = Contents[k]
                     /\ Contents' = Contents
           Asks(request) == /\ Contents' = Contents /\ itemp' = itemp
                            /\ Asked = <<>> /\ Asked' = request
<1>6. ASSUME UNCHANGED <<table, length, old>>, Rehashing' <=> Rehashing
      PROVE  Same
  <2>1. Used' = Used
    BY <1>6 DEF Used, Slots, table
  <2>2. QED
    BY <1>6, <2>1 DEF Bound, table, old
<1>7. ASSUME NEW k \in Keys, NEW v \in Values, SetProbe(k, v) \/ GetProbe(k) \/ GetTrap(k)
      PROVE  Asks(<<"set", k, v>>) \/ Asks(<<"get", k>>)
  <2>1. Rehashing' <=> Rehashing
    BY <1>7 DEF Rehashing, SetProbe, GetProbe, GetTrap, Begin
  <2>2. UNCHANGED <<table, length, old>> /\ itemp' = itemp
    BY <1>7 DEF SetProbe, GetProbe, GetTrap, old, table
  <2>3. Contents' = Contents
    BY <1>5, <1>6, <2>1, <2>2
  <2>4. Asked = <<>> /\ (Asked' = <<"set", k, v>> \/ Asked' = <<"get", k>>)
    BY <1>1, <1>7 DEF SetProbe, GetProbe, GetTrap, Begin, ProbeInv, Asked
  <2>5. QED
    BY <2>2, <2>3, <2>4
<1>8. ASSUME GrowCall
      PROVE  Contents' = Contents /\ itemp' = itemp
  <2>1. PICK cap \in 1..MaxCapacity :
          /\ pc = "idle" /\ length \in {0, capacity} /\ Grow(cap)
          /\ UNCHANGED <<careful, hashfunc, length, itemp>>
    BY <1>8, GrowCalls
  <2>2. ~Rehashing /\ Rehashing'
    BY <2>1 DEF Grow, Rehashing
  <2>3. i' = 0 /\ oldKeys' = keys /\ oldValues' = values
    BY <2>1 DEF Grow
  <2>4. Used = 0..(length - 1)
    <3>1. CASE length = capacity
      BY <2>2, <3>1, Fullness DEF IInv, Slots
    <3>2. CASE length = 0
      BY <2>2, <3>2, UsedFinite, FS_EmptySet DEF IInv, LengthIsCount
    <3>3. QED
      BY <2>1, <3>1, <3>2
  <2>5. Used' = {}
    BY <2>1 DEF Grow, Used, Slots
  <2>6. Same
    BY <2>1, <2>2, <2>3, <2>4, <2>5 DEF Bound
  <2>7. QED
    BY <1>5, <2>1, <2>6
<1>9. ASSUME NEW k \in Keys, NEW v \in Values, SetGrow(k, v)
       PROVE  Asks(<<"set", k, v>>)
  <2>1. Contents' = Contents /\ itemp' = itemp
    BY <1>8, <1>9 DEF GrowCall
  <2>2. Asked = <<>> /\ Asked' = <<"set", k, v>>
    BY <1>1, <1>9 DEF SetGrow, Begin, ProbeInv, Asked
  <2>3. QED
    BY <2>1, <2>2
<1>10. ASSUME NEW c \in ReserveCaps, Reserve(c)
       PROVE  Stutter
  <2>1. Contents' = Contents /\ itemp' = itemp
    BY <1>8, <1>10 DEF GrowCall
  <2>2. Asked' = Asked
    BY <1>1, <1>10 DEF Reserve, Begin, ProbeInv, Asked
  <2>3. QED
    BY <2>1, <2>2
<1>11. ASSUME RehashNext \/ RehashSkip \/ ProbeSkip
      PROVE  Stutter
  <2>1. Rehashing' <=> Rehashing
    BY <1>11 DEF Rehashing, RehashNext, RehashSkip, ProbeSkip
  <2>2. UNCHANGED <<table, length, old, call>> /\ itemp' = itemp
    BY <1>11 DEF RehashNext, RehashSkip, ProbeSkip
  <2>3. Contents' = Contents
    BY <1>5, <1>6, <2>1, <2>2
  <2>4. QED
    BY <2>2, <2>3 DEF Asked, call
<1>12. ASSUME RehashPlace
       PROVE  Stutter
  <2>1. Rehashing /\ Rehashing' /\ i < length /\ index \in Slots /\ ~occupied[index]
    BY <1>1, <1>12 DEF RehashPlace, Rehashing, GrowthInv, TypeOK
  <2>2. /\ UNCHANGED <<length, oldKeys, oldValues, capacity, call, itemp>> /\ i' = i + 1
        /\ occupied' = [occupied EXCEPT ![index] = TRUE]
        /\ keys' = [keys EXCEPT ![index] = oldKeys[i]]
        /\ values' = [values EXCEPT ![index] = oldValues[i]]
    BY <1>12 DEF RehashPlace
  <2>3. Used' = Used \cup {index} /\ index \notin Used /\ Used \subseteq Slots
    BY <1>1, <2>1, <2>2 DEF Used, Slots, TypeOK
  <2>4. /\ keys'[index] = oldKeys[i] /\ values'[index] = oldValues[i]
        /\ \A s \in Used : keys'[s] = keys[s] /\ values'[s] = values[s]
    BY <1>1, <2>1, <2>2, <2>3 DEF TypeOK
  <2>5. i..(length - 1) = {i} \cup i'..(length' - 1)
    BY <1>2, <2>1, <2>2
  <2>6. Same
    BY <2>1, <2>2, <2>3, <2>4, <2>5 DEF Bound
  <2>7. QED
    BY <1>5, <2>2, <2>6 DEF Asked, call
<1>13. ASSUME RehashDone
       PROVE  Stutter
  <2>1. Rehashing /\ ~Rehashing' /\ i >= length /\ UNCHANGED table /\ itemp' = itemp
    BY <1>13 DEF RehashDone, Return, Rehashing
  <2>2. i..(length - 1) = {} /\ Used' = Used
    BY <1>2, <2>1 DEF Used, Slots, table
  <2>3. Same
    BY <2>1, <2>2 DEF Bound, table
  <2>4. Asked' = Asked
    BY <1>13 DEF RehashDone, Return, Asked, call
  <2>5. QED
    BY <1>5, <2>1, <2>3, <2>4
<1>14. ASSUME SetOverwrite
       PROVE  Sets
  <2>1. ~Rehashing /\ ~Rehashing' /\ index \in Slots /\ key \in Keys /\ item \in Values
    BY <1>1, <1>14 DEF SetOverwrite, Return, Rehashing, TypeOK
  <2>2. Asked = <<"set", key, item>> /\ Asked' = <<>>
    BY <1>14 DEF SetOverwrite, Return, Asked
  <2>3. /\ UNCHANGED <<capacity, occupied, keys, itemp>>
        /\ values' = [values EXCEPT ![index] = item]
        /\ occupied[index] /\ keys[index] = key
    BY <1>14 DEF SetOverwrite
  <2>4. Used' = Used /\ index \in Used /\ Used \subseteq Slots
    BY <2>1, <2>3 DEF Used, Slots
  <2>5. values'[index] = item /\ \A s \in Used : s # index => values'[s] = values[s]
    BY <1>1, <2>1, <2>3, <2>4 DEF TypeOK
  <2>6. PICK k \in Keys, v \in Values : k = key /\ v = item
    BY <2>1
  <2>7. Bound(k, v)'
    BY <2>3, <2>4, <2>5, <2>6 DEF Bound
  <2>8. \A l \in Keys, w \in Values : l # k => (Bound(l, w)' <=> Bound(l, w))
    BY <2>1, <2>3, <2>4, <2>5, <2>6 DEF Bound
  <2>9. Contents' = [Contents EXCEPT ![k] = v]
    BY <1>3, <1>4, <2>7, <2>8, NewContents
  <2>10. QED
    BY <2>3, <2>6, <2>9, <2>2
<1>15. ASSUME SetPlace
       PROVE  Sets
  <2>1. ~Rehashing /\ ~Rehashing' /\ index \in Slots /\ key \in Keys /\ item \in Values
    BY <1>1, <1>15 DEF SetPlace, Return, Rehashing, TypeOK
  <2>2. Asked = <<"set", key, item>> /\ Asked' = <<>>
    BY <1>15 DEF SetPlace, Return, Asked
  <2>3. /\ UNCHANGED <<capacity, itemp>>
        /\ ~occupied[index]
        /\ values' = [values EXCEPT ![index] = item]
        /\ keys' = [keys EXCEPT ![index] = key]
        /\ occupied' = [occupied EXCEPT ![index] = TRUE]
    BY <1>15 DEF SetPlace
  <2>4. Used' = Used \cup {index} /\ index \notin Used /\ Used \subseteq Slots
    BY <1>1, <2>1, <2>3 DEF Used, Slots, TypeOK
  <2>5. /\ keys'[index] = key /\ values'[index] = item
        /\ \A s \in Used : keys'[s] = keys[s] /\ values'[s] = values[s]
    BY <1>1, <2>1, <2>3, <2>4 DEF TypeOK
  <2>6. PICK k \in Keys, v \in Values : k = key /\ v = item
    BY <2>1
  <2>7. Bound(k, v)'
    BY <2>4, <2>5, <2>6 DEF Bound
  <2>8. \A l \in Keys, w \in Values : l # k => (Bound(l, w)' <=> Bound(l, w))
    BY <2>1, <2>3, <2>4, <2>5, <2>6 DEF Bound
  <2>9. Contents' = [Contents EXCEPT ![k] = v]
    BY <1>3, <1>4, <2>7, <2>8, NewContents
  <2>10. QED
    BY <2>3, <2>6, <2>9, <2>2
<1>16. ASSUME GetHit \/ GetMiss
       PROVE  Gets
  <2>1. /\ UNCHANGED <<table, length, old>> /\ ~Rehashing /\ ~Rehashing' /\ pc = "probe"
        /\ index \in Slots /\ key \in Keys
    BY <1>1, <1>16 DEF GetHit, GetMiss, Return, Rehashing, TypeOK
  <2>2. Same
    BY <1>6, <2>1
  <2>3. Contents' = Contents /\ Asked = <<"get", key>> /\ Asked' = <<>>
    BY <1>5, <1>16, <2>2 DEF GetHit, GetMiss, Return, Asked
  <2>4. CASE GetHit
    <3>1. occupied[index] /\ keys[index] = key /\ itemp' = values[index]
      BY <2>4 DEF GetHit
    <3>2. values[index] \in Values /\ Bound(key, values[index])
      BY <1>1, <2>1, <3>1 DEF Bound, Used, TypeOK
    <3>3. Contents[key] = values[index]
      BY <1>3, <2>1, <3>2 DEF ContentsIsBound
    <3>4. QED
      BY <2>1, <2>3, <3>1, <3>3
  <2>5. CASE GetMiss
    <3>1. ~occupied[index] /\ itemp' = NoValue
      BY <2>5 DEF GetMiss
    <3>2. \A s \in Used : keys[s] # key
      BY <1>1, <2>1, <3>1, AbsentKey DEF ProbeInv
    <3>3. Contents[key] = NoValue
      BY <1>3, <2>1, <3>2 DEF ContentsIsBound, Bound
    <3>4. QED
      BY <2>1, <2>3, <3>1, <3>3
  <2>6. QED
    BY <1>16, <2>4, <2>5
<1>17. ASSUME UNCHANGED vars
       PROVE  Stutter
  <2>1. UNCHANGED <<table, length, old, call>> /\ itemp' = itemp /\ (Rehashing' <=> Rehashing)
    BY <1>17 DEF vars, Rehashing
  <2>2. QED
    BY <1>5, <1>6, <2>1 DEF Asked, call
<1>18. CASE Call
  <2>1. ASSUME NEW k \in Keys, GetProbe(k) \/ GetTrap(k)
        PROVE  \E v \in Values : Asks(<<"set", k, v>>) \/ Asks(<<"get", k>>)
    BY <1>7, <2>1, ConstantsAssumption
  <2>2. Stutter \/ \E k \in Keys, v \in Values : Asks(<<"set", k, v>>) \/ Asks(<<"get", k>>)
    BY <1>7, <1>18, <1>9, <1>10, <2>1 DEF Call
  <2>3. QED
    BY <2>2 DEF D!Next, D!Ask, D!Nothing, D!vars
<1>19. CASE Step
  <2>1. Stutter \/ Sets \/ Gets
    BY <1>11, <1>12, <1>13, <1>14, <1>15, <1>16, <1>19 DEF Step
  <2>2. QED
    BY <2>1 DEF D!Next, D!Set, D!Get, D!Nothing, D!vars
<1>20. QED
  BY <1>17, <1>18, <1>19 DEF Next, D!vars

\* A table (core/ht.h) with a careful user is a map: collisions, wrap-around and
\* the moves of growth never show in what ht_set binds and ht_get answers.
THEOREM Refinement == Spec => ImplementsDict
<1>1. Init => D!Init
  <2> SUFFICES ASSUME Init
               PROVE  D!Init
    OBVIOUS
  <2>1. \A k \in Keys, v \in Values : ~Bound(k, v)
    BY DEF Init, Bound, Used, Rehashing
  <2>2. \A k \in Keys : Contents[k] = NoValue
    BY <2>1 DEF Contents
  <2>3. Contents = Unbound
    BY <2>2 DEF Contents, Unbound
  <2>4. QED
    BY <2>3 DEF Init, D!Init, D!Nothing, Asked, Unbound
<1>2. ASSUME careful => IInv, (careful => IInv)', [Next]_vars
      PROVE  [D!Next]_D!vars
  <2>1. CASE careful
    BY <1>2, <2>1, CarefulStays, StepRefines
  <2>2. CASE ~careful
    BY <1>2, <2>2, CarefulStays DEF D!vars, Unbound
  <2>3. QED
    BY <2>1, <2>2
<1>3. QED
  BY <1>1, <1>2, Invariance, PTL DEF Spec, ImplementsDict, D!Spec

=============================================================================
