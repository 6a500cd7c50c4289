\* One loss: the FIN is never sent again.
SPECIFICATION FairSpec
CONSTANTS
    MSS = 2
    RECV_BUF_CAP = 2
    RTO_INITIAL_MS = 1
    RTO_MAX_MS = 2
    Client = Client
    Server = Server
    Amount <- ShortUpload
    Closers <- OnlyClient
    Readers <- Both
    MaxRead = 2
    Reorder = FALSE
    LinkBuf = 2
    MaxLoss = 1
    MaxSyn = 0
PROPERTIES
    FinArrives
CHECK_DEADLOCK FALSE
