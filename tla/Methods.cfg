CONSTANTS
    Variables = {"x", "y", "e", "f", "r", "q"}
    Finals = {"f"}
    InlineFinally = FALSE
    MaxEvents = 30
    MaxSilent = 60
    MaxAnswers = 6
    Families <- MCFamilies
SPECIFICATION Spec
INVARIANTS CodeIsComplete AssignmentsAreKnown ExceptionsDeclared EndsAreKnown
PROPERTY CodeMeansSource
CHECK_DEADLOCK FALSE
