CONSTANTS
  Bits <- MCBits
  Answer <- MCAnswer
  Failing = {"fail"}
  ArrayLength = 2
  Families <- MCFamilies
  Memories <- MCMemories
SPECIFICATION Spec
INVARIANTS
  TypedAsSpecified
  OverflowIsCautioned
  CodeMeansExpression
CHECK_DEADLOCK FALSE
