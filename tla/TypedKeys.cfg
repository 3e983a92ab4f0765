SPECIFICATION Spec
CONSTANTS
    k1 = k1  k2 = k2  la = la  lb = lb  x = x  y = y  c1 = c1  c2 = c2
    Keys = {k1, k2}
    NoValue = NoValue
    KindsOf <- MCKindsOf
    Members = {x, y}
    Names = {"n", "m"}
    Leaves = {x}
    Index <- MCIndex
    Json <- MCJson
    Docs <- MCDocs
    Paths <- MCPaths
    Ids = {1, 2, 3}
    Groups = {x}
    Consumers = {c1, c2}
    MaxEntries = 3
    MaxDeliveries = 2
    Moments = {0, 2, 3, 4, 5}
    Samples = {1, 2}
    Windows <- MCWindows
    Interval = 2
    MaxPoints = 3
    Elements = {x, y}
    HashOf <- MCHashOf
    Places = {x, y}
    Spots = {x, y}
    Kilometres <- MCKilometres
    MaxAdds = 3
    Vectors = {x, y}
    Cosine <- MCCosine
    ByteBits = 2
    MaxBytes = 2
    Offsets = {0, 1, 3}
    BitFields <- MCBitFields
    Numbers <- MCNumbers
    Letters = {la, lb}
    Space = Space
    Strings <- MCStrings
    MaxText = 2
    Patterns <- MCPatterns
VIEW View
SYMMETRY Symmetry
CONSTRAINT OneAtATime
INVARIANTS IInv StreamFollowed AcksMatchDeliveries KeepsWhatWasAdded
PROPERTIES EditsExact AnswersExact WritesExact KeysApart
