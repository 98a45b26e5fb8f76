SPECIFICATION MCSpec
CONSTANTS
  Var = {1, 2, 3, 4, 5, 6, 7}
  TheoryVar = {1, 2, 3, 5, 6}
  TheoryConflict <- MCConflict
  TheoryModel <- MCModels
  InputClause <- UnitClause
  SplitClause <- SplitLemma
  Assumption <- OneFrame
  MayStop = FALSE
  GlueLimit = 2
  MaxSolves = 1
  MaxStarts = 1
INVARIANTS
  SearchSound
  TheoryFollows
  
PROPERTIES
  SolveEnds
CHECK_DEADLOCK FALSE
