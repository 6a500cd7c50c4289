\* Simulator link: in order, lossy, drop-tail.  The client sends and closes.
SPECIFICATION FairSpec
CONSTANTS
    MSS = 2
    RECV_BUF_CAP = 2
    RTO_INITIAL_MS = 1
    RTO_MAX_MS = 2
    Client = Client
    Server = Server
    Amount <- ShortUpload
    Closers <- OnlyClient
    Readers <- Both
    MaxRead = 2
    Reorder = FALSE
    LinkBuf = 2
    MaxLoss = 2
    MaxSyn = 0
INVARIANTS
    TypeOK
    NoOverrun
    EofComplete
PROPERTIES
    WindowNeverShrinks
    ReliableStreamContract
    EventuallyAcked
    EofReached
CHECK_DEADLOCK FALSE
