SPECIFICATION FairSpec
CONSTANTS
    k1 = k1
    k2 = k2
    c1 = c1
    c2 = c2
    w1 = w1
    w2 = w2
    Keys = {k1}
    Clients = {c1}
    Cleaners = {w1}
    Procs <- AllProcs
    Commands <- FewCommands
    Text = Text
    NoValue = NoValue
    NoExpiry = NoExpiry
    NoCommand = NoCommand
    Ok = Ok
    Error = Error
    IntLimit = 2
    MaxTime = 2
PROPERTY ExpiredGetReturns
CHECK_DEADLOCK FALSE
