SPECIFICATION Spec
CONSTANTS
    ws = ws
    tcp = tcp
    h1 = h1
    h2 = h2
    channel = channel
    news = news
    Clients = {ws, tcp}
    WsClients = {ws}
    Chans = {h1, h2}
    Procs <- ClientsAndChans
    Topics = {channel, news}
    Fixed = channel
    NoChan = NoChan
    NoClient = NoClient
    NoMessage = NoMessage
    BufferSize = 2
    MaxPublished <- TcpPublishesThree
INVARIANTS IInv OneDelivererEach NoSendOnClosed SubscriptionOrder
SYMMETRY ChanSymmetry
VIEW View
CONSTRAINT FewForTwo
CHECK_DEADLOCK FALSE
