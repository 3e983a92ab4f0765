SPECIFICATION FairSpec
CONSTANTS
    t = t
    w = w
    h = h
    Letters = {"a", "b"}
    Conns = {t, w, h}
    Transport <- MCTransport
    ClientIds = {t, w, h}
    IdOf <- MCIdOf
    LinesOf <- MCLines
    None = None
    MaxLines = 3
INVARIANTS TypeOK BytesBecomeCommands
PROPERTIES ExecRunsAsAsked GoneIsForgotten
CHECK_DEADLOCK FALSE
