\* No loss, room for every packet and for every byte: every transfer ends.
SPECIFICATION FairSpec
CONSTANTS
    MSS = 1
    RECV_BUF_CAP = 4
    RTO_INITIAL_MS = 1
    RTO_MAX_MS = 1
    MAX_PORT_NUM = 4
    Nodes = {1, 2}
    Scenarios <- OneRefused
    ServerCmds <- OneServer
    ByteValues = 4
    LinkBuf = 8
PROPERTIES
    TransferEnds
CHECK_DEADLOCK FALSE
