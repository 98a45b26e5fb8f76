SPECIFICATION MCSpec
CONSTANTS
  Vertex = {0, 1, 2, 3}
  Atom <- Triangle
  RealLogic = FALSE
  MaxInt = 100
  Mantissa = 128
  SearchSteps = 16
  MaxTime = 4
  Truths <- TriangleTruths
INVARIANTS
  EgraphAnswers
  
  STPAnswers
  STPStructure
CHECK_DEADLOCK FALSE
