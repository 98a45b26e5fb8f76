SPECIFICATION MCSpec
CONSTANTS
  a = a
  b = b
  ab = ab
  x = x
  y = y
  true = true
  Formulas = {a, b, ab}
  conjuncts <- MCConjuncts
  IllSorted = {x}
  FunNames = {f, g}
  Names = {"n"}
  NoName = NoName
  MaxFrames = 3
  MaxAsserts = 3
  MaxNumeral = 2
  MaxFrameIds = 5
  LetNames = {x, y, true}
  NoScoping = {true}
  Values = {1, 2}
  MaxLets = 3
INVARIANTS
  
  
  InnermostLetWins
PROPERTIES
  ScopesFollowFrames
  ReaderEnds
CHECK_DEADLOCK FALSE
