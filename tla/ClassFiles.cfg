CONSTANTS
  Declarations <- MCDeclarations
  NestedTypes <- MCNestedTypes
  CutShortOnes <- MCCutShortOnes
  Worlds <- MCWorlds
  GenericOnes <- MCGenericOnes
  ClassInitializer <- MCClassInitializer
  MaxU2 = 40
SPECIFICATION Spec
INVARIANTS
  WholeFilesAreRead
  NestedTypesAreListed
  LoadedAsDeclared
CHECK_DEADLOCK FALSE
