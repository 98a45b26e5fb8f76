SPECIFICATION Spec
INVARIANTS
  ProofShape
  ProofSound
  
PROPERTIES
  Terminates
CHECK_DEADLOCK FALSE
