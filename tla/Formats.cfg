\* Any text, files written from tables and documents written from values; the two
\* locals of the CSV reader that are not initialized are 0 or something else.
CONSTANTS
  Comma = Comma
  Newline = Newline
  Quote = Quote
  x = x
  OtherChars <- MCOthers
  SpaceChars <- MCSpaces
  Long = 8
  MaxText = 7
  Files <- MCFiles
  JsonDocuments <- JsonFiles
  Garbage <- MCGarbage
  MaxBody = 4
  MaxString = 3
  MaxNumber = 4
SPECIFICATION MCSpec
INVARIANTS TokensForEveryRow CsvReadsBack TokensNest JsonReadsBack
\* A file is read, given up or refused, or the reader never gets past it.
CHECK_DEADLOCK FALSE
