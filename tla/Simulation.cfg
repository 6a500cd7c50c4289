\* Two files, the console, and an edge that loses, drops, fails and changes.
SPECIFICATION FairSpec
CONSTANTS
    Numbers <- Words
    LossRates <- Rates
    MicrosPerMs = 2
    Nodes = {0, 1}
    BROADCAST_ADDRESS = 4
    PktSize = 1
    PING_TIMEOUT_MS = 3
    RETRANS_TICK_MS = 2
    TopoFiles <- Bursts
    CommandFiles <- Commands
    Inputs <- Typed
    MaxLate = 1
    MaxTime = 20
INVARIANTS
    TypeOK
    LinkInOrder
    BoundedQueueing
    Conservation
    PingAge
    RepliesAccounted
PROPERTIES
    FilesRead
CHECK_DEADLOCK FALSE
