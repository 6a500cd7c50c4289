\* A lossless link with room for every packet: the sender stalls on a window of 0.
SPECIFICATION FairSpec
CONSTANTS
    MSS = 2
    RECV_BUF_CAP = 2
    RTO_INITIAL_MS = 1
    RTO_MAX_MS = 2
    Client = Client
    Server = Server
    Amount <- ShortUpload
    Closers <- OnlyClient
    Readers <- Both
    MaxRead = 2
    Reorder = FALSE
    LinkBuf = 4
    MaxLoss = 0
    MaxSyn = 0
PROPERTIES
    TransferCompletes
CHECK_DEADLOCK FALSE
