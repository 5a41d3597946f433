CONSTANTS
    Types <- FileTypes
    Files <- FileNames
    NoType = "NULL"
    Programs <- MCPrograms
SPECIFICATION Spec
INVARIANTS HierarchyExact CircularOnCycle HierarchyAcyclic MembersAfterSupers EveryTypeOnce
PROPERTIES HierarchyFrozen Termination
