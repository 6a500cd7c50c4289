\* The SYN comes to the server a second time in the middle of a transfer.
SPECIFICATION Spec
CONSTANTS
    MSS = 2
    RECV_BUF_CAP = 2
    RTO_INITIAL_MS = 1
    RTO_MAX_MS = 1
    Client = Client
    Server = Server
    Amount <- ShortUpload
    Closers <- OnlyClient
    Readers <- OnlyServer
    MaxRead = 2
    Reorder = TRUE
    LinkBuf = 2
    MaxLoss = 0
    MaxSyn = 1
INVARIANTS
    OneChildHasAll
CHECK_DEADLOCK FALSE
