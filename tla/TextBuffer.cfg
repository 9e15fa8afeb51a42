CONSTANTS
  Buttons = {1, 2}
  Size = 3
  CountLimit = 4
SPECIFICATION Spec
INVARIANTS TextThenBlanks RepeatRewritesOwnLetter
PROPERTY ImplementsMultiTap
