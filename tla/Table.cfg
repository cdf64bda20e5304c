\* Any calls, in any order, on columns of any heights, and the calls of a careful
\* program, which keeps the columns at one height.
CONSTANTS
  a = a
  b = b
  d = d
  Names = {a, b, d}
  Unnamed = Unnamed
  Types = {"string", "integral"}
  Values <- MCValues
  Half = 2
  Junk = Junk
  Headers <- MCHeaders
  Arguments <- MCArguments
  MaxRows = 3
  MaxAnyRows = 1
SPECIFICATION Spec
INVARIANTS UniqueNames FoundRowHasKey
PROPERTIES ImplementsRows
\* What is undefined goes no further.
CHECK_DEADLOCK FALSE
