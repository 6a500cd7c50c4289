\* Emulator: UDP loses, duplicates and reorders.  The client sends and closes.
SPECIFICATION Spec
CONSTANTS
    MSS = 1
    RECV_BUF_CAP = 2
    RTO_INITIAL_MS = 1
    RTO_MAX_MS = 1
    Client = Client
    Server = Server
    Amount <- ShortUpload
    Closers <- OnlyClient
    Readers <- OnlyServer
    MaxRead = 2
    Reorder = TRUE
    LinkBuf = 2
    MaxLoss = 0
    MaxSyn = 1
INVARIANTS
    ConnInv
    StreamIntegrity
    AckedIsReceived
    Recoverable
    WindowIsOutstanding
    EofComplete
    CloseMeansReceived
PROPERTIES
    ForwardOnly
    ContractUntilSyn
CHECK_DEADLOCK FALSE
