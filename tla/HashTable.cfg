\* Only ht_set and ht_get, as in the repository, or ht_reserve at any time too.
CONSTANTS
  k0 = k0  k1 = k1  k2 = k2  k3 = k3  v0 = v0  v1 = v1
  Keys = {k0, k1, k2, k3}
  Values = {v0, v1}
  ZeroKey = k0
  ZeroValue = v0
  NoValue = NoValue
  HashFuncs <- MCHashFuncs
  InitCaps = {0, 3}
  ReserveCaps = {4}
SPECIFICATION FairSpec
INVARIANTS ProbeReachable SetHasRoom
PROPERTIES ImplementsDict CallsReturn
\* ht_get on a table of capacity 0 ends the program.
CHECK_DEADLOCK FALSE
