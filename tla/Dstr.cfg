\* A proper program, and one whose files change or fail while they are read and
\* whose builders may have no NUL.
CONSTANTS
  a = a  b = b
  Chars = {a, b}
  Nul = Nul  Junk = Junk  Untaken = Untaken
  Pieces <- MCPieces
  Views <- MCViews
  ReadErrors = TRUE
  MaxLength = 3
SPECIFICATION Spec
INVARIANTS TypeOK BuilderIsCstr
PROPERTIES ImplementsBuilder AppendKeepsText
\* Appending an empty builder ends a program.
CHECK_DEADLOCK FALSE
