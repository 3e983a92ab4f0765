SPECIFICATION FairSpec
CONSTANTS
    ws = ws
    tcp = tcp
    h1 = h1
    h2 = h2
    channel = channel
    news = news
    Clients = {ws}
    WsClients = {ws}
    Chans = {h1, h2}
    Procs <- ClientsAndChans
    Topics = {channel, news}
    Fixed = channel
    NoChan = NoChan
    NoClient = NoClient
    NoMessage = NoMessage
    BufferSize = 1
    MaxPublished <- EachPublishesOne
PROPERTIES CommandsAnswered DeliverersEnd
CHECK_DEADLOCK FALSE
