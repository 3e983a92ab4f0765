SPECIFICATION Spec
CONSTANTS
    c1 = c1
    c2 = c2
    c3 = c3
    tcp1 = tcp1
    http = http
    Conns = {c1, c2, c3}
    ClientIds = {tcp1, http}
    IdOf <- OneAndHttp
    None = None
    MaxSent <- ThreeTwoOne
INVARIANTS MultiHasOwner QueueInOrder
PROPERTIES EachCommandAtMostOnce ExecRunsAllAlone DiscardRunsNoneAlone
CHECK_DEADLOCK FALSE
