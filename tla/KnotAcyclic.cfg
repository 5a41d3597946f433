CONSTANTS
    Types <- KnotTypes
    Files = {"F"}
    NoType = "NULL"
    Programs <- KnotPrograms
SPECIFICATION Spec
INVARIANT HierarchyAcyclic
