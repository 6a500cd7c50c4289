\* A node fails, and then an edge of it is restarted.
SPECIFICATION Spec
CONSTANTS
    p1 = p1
    p2 = p2
    p3 = p3
    Procs = {p1, p2, p3}
    BROADCAST_ADDRESS = 2
    Numbers <- Words
    LossRates = {"0.0"}
    MicrosPerMs = 1000
    TopoFiles <- RestartedEdge
    PortChoices <- Ports
    Pings <- Broadcast
INVARIANTS
    UnshapedIsLearned
CHECK_DEADLOCK FALSE
