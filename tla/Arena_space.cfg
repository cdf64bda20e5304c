\* When an allocation is refused, against the message it is refused with.
CONSTANTS
  Kilobyte = 4
  Block = 8
  Junk <- MCJunk
  Kilobytes = {0, 1}
  Sizes = {1, 5}
  Aligns = {1, 4}
  MaxAddress = 17
  MaxPages = 2
SPECIFICATION Spec
PROPERTIES OutOfSpaceIsFull
\* A panic ends the program.
CHECK_DEADLOCK FALSE
