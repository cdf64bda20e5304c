\* A builder made of a view, which has no NUL of its own.
CONSTANTS
  a = a  b = b
  Chars = {a, b}
  Nul = Nul  Junk = Junk  Untaken = Untaken
  Pieces <- MCPieces
  Views <- MCViews
  ReadErrors = FALSE
  MaxLength = 3
SPECIFICATION Spec
INVARIANTS ItemsAreCstr
\* Appending an empty builder ends a program.
CHECK_DEADLOCK FALSE
