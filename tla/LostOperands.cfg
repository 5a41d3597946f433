CONSTANTS
  Bits <- MCBits
  Answer <- MCAnswer
  Failing = {"fail"}
  ArrayLength = 2
  Families <- LostOperands
  Memories <- MCMemories
SPECIFICATION Spec
INVARIANTS
  CodeMeansExpression
CHECK_DEADLOCK FALSE
