SPECIFICATION Spec
INVARIANTS
  LAAnswers
  LAStructure

  
CHECK_DEADLOCK FALSE
