\* No loss and no timeout: a connection the backlog has no room for.
SPECIFICATION FairSpec
CONSTANTS
    MSS = 1
    RECV_BUF_CAP = 4
    RTO_INITIAL_MS = 1
    RTO_MAX_MS = 1
    MAX_PORT_NUM = 4
    Nodes = {1, 2}
    Scenarios <- TwoClients
    ServerCmds <- OneServer
    ByteValues = 4
    LinkBuf = 8
PROPERTIES
    EveryTransferVerified
CHECK_DEADLOCK FALSE
