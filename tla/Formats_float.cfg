\* csv_float and what is no number.
CONSTANTS
  Comma = Comma
  Newline = Newline
  Quote = Quote
  x = x
  OtherChars <- MCOthers
  SpaceChars <- MCSpaces
  Long = 8
  MaxText = 1
  Files <- MCFiles
  JsonDocuments <- JsonFiles
  Garbage <- MCGarbage
  MaxBody = 1
  MaxString = 3
  MaxNumber = 4
SPECIFICATION MCSpec
INVARIANT FloatsAreNumbers
\* A file is read, given up or refused, or the reader never gets past it.
CHECK_DEADLOCK FALSE
