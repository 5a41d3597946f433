SPECIFICATION Spec
CONSTANTS
  NoType = NoType
  Families <- MCFamilies
INVARIANTS
  TablesAreMembers
  JudgedAsSpecified
  DispatchMeansSource
