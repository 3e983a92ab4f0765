SPECIFICATION Spec
CONSTANTS
    Members <- Three
    Scores <- Two
    MaxLevel = 3
    MaxNodes = 5
    NaN = NaN
INVARIANTS WellFormed ReadsExact
PROPERTY OthersKeep
VIEW Shape
