CONSTANTS
    Files = {"F", "G", "H"}
    Types = {"F1", "F2", "G1"}
    File <- MCFile
    Inputs = {"F", "G"}
    Nameless = {"G", "H"}
    NoType = "NULL"
    Options = {FALSE, TRUE}
SPECIFICATION Spec
INVARIANTS BodiesAreLive AllCleanedUp SuccessMeansClassFiles NeverCrashes
PROPERTIES EachTypeOnce EndsAndReports
