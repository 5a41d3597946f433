CONSTANTS
    Names <- MCNames
    NoName = NoName
    NoText = NoText
    Texts <- MCTexts
    Disks <- MCDisks
    Inputs = {"B", "C"}
    MaxWrites = 3
SPECIFICATION Spec
INVARIANTS KeepsUp EdgesAreLive AllTypesInReach
PROPERTY PassEnds
