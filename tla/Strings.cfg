\* Each loop and function with texts of its own.  A word of three bytes, so that a view
\* has every part in every length.
CONSTANTS
  MaxSize = 6
  PointerSize = 4
  Spaces <- MCSpaces
  Chars <- MCChars
  Inputs <- MCInputs
  ViewChars = {0, 1, 2, 3}
  Word = 3
  Bits = 2
  Bytes = 3
  MaxView = 9
  Views <- MCViews
  MaxTyped = 5
  Typings <- MCTypings
  Questions <- MCQuestions
  Half = 2
  Long = 8
SPECIFICATION MCSpec
INVARIANTS AnswersWhatWasTyped CutsAsAsked CapturesBalanced WordsAsAsked NumbersRead PathsJoin TemplateCopies UriReadBack MessageReadBack WordsInside StopsWhereItIs
PROPERTIES FindsIt
\* A call ends and is followed by no other.
CHECK_DEADLOCK FALSE
