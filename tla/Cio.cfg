\* Inputs of up to five characters.
CONSTANTS
  MaxSize = 5
  PointerSize = 8
  Half = 2
  Long = 8
  Spaces <- MCSpaces
  Inputs <- MCInputs
  Calls <- MCCalls
SPECIFICATION Spec
PROPERTIES CallReturns
\* The loops of a call never end where no answer is to come.
