SPECIFICATION Spec
CONSTANTS
    a = a
    b = b
    m1 = m1
    m2 = m2
    m3 = m3
    x = x
    y = y
    Clients = {a, b}
    Procs = {a, b}
    Arrays = {m1, m2, m3}
    Elements = {x, y}
    Pushes <- OneAndPair
    Commands = {"RPUSH", "LPUSH", "LPOP", "RPOP", "LRANGE", "LLEN", "DEL"}
    MaxCapacity = 3
    MaxCalls = 3
    NoArray = NoArray
    Empty = Empty
    Torn = Torn
INVARIANT RepliesAreRanges
SYMMETRY MemorySymmetry
CHECK_DEADLOCK FALSE
