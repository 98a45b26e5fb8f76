SPECIFICATION MCSpec
CONSTANTS
  m1 = m1
  m2 = m2
  Interp <- MCInterp
  Formula <- MCFormula
  ProduceInter = FALSE
  CanOverflow = FALSE
  MaxFrames = 2
  MaxFrameId = 2
INVARIANTS
  TypeOK
  AnswerCorrect
  UnsatFlags
  SolverReady
  ConflictFrameOnStack
  GivenFrames
PROPERTIES
  ImplementsAssertionStack
  
CHECK_DEADLOCK FALSE
