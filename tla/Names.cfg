SPECIFICATION Spec
CONSTANTS
  NoType = NoType
  Families <- MCFamilies
INVARIANTS
  JudgedAsJava
  CodeMeansSource
