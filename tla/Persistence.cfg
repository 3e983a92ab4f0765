SPECIFICATION Spec
CONSTANTS
    a = a
    b = b
    bg = bg
    k1 = k1
    k2 = k2
    f1 = f1
    f2 = f2
    f3 = f3
    Clients = {a, b}
    Savers = {bg}
    Procs <- ClientsAndSavers
    Keys = {k1, k2}
    Kinds = {"string", "list", "array", "nan"}
    Inodes = {f1, f2, f3}
    MaxCalls <- TwoAndTwo
    MaxCrashes = 1
    NoEntry = NoEntry
    NoFile = NoFile
    NoImage = NoImage
    Torn = Torn
    Hole = Hole
INVARIANTS IInv SnapshotOfOneMoment FileExplainsStore
PROPERTIES RestoreInstallsSnapshot RewriteIsCurrent
SYMMETRY Symmetry
CONSTRAINT ListsOrNaNs
