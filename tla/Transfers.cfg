\* Four scenarios: ports used again and shared under loss, and clients that give up.
SPECIFICATION Spec
CONSTANTS
    MSS = 1
    RECV_BUF_CAP = 2
    RTO_INITIAL_MS = 1
    RTO_MAX_MS = 1
    MAX_PORT_NUM = 4
    Nodes = {1, 2}
    Scenarios <- Mixed
    ServerCmds <- OneServer
    ByteValues = 4
    LinkBuf = 2
INVARIANTS
    TypeOK
    TablesConsistent
    ConnectedToChild
    ReportedIsReceived
    NoOrphan
    NoFalseAlarm
    WorkerReadAll
CHECK_DEADLOCK FALSE
