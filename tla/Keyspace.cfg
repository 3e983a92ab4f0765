SPECIFICATION Spec
CONSTANTS
    k1 = k1
    k2 = k2
    c1 = c1
    c2 = c2
    w1 = w1
    w2 = w2
    Keys = {k1, k2}
    Clients = {c1, c2}
    Cleaners = {w1}
    Procs <- AllProcs
    Commands <- RoundCommands
    Text = Text
    NoValue = NoValue
    NoExpiry = NoExpiry
    NoCommand = NoCommand
    Ok = Ok
    Error = Error
    IntLimit = 1
    MaxTime = 2
INVARIANT IInv
PROPERTIES LiveKeysSurvive WedgedIsForever Linearizable
SYMMETRY ClientSymmetry
CHECK_DEADLOCK FALSE
