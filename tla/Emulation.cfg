\* Three processes, two addresses.
SPECIFICATION FairSpec
CONSTANTS
    p1 = p1
    p2 = p2
    p3 = p3
    Procs = {p1, p2, p3}
    BROADCAST_ADDRESS = 2
    Numbers <- Words
    LossRates = {"0.0"}
    MicrosPerMs = 1000
    TopoFiles <- Files
    PortChoices <- Ports
    Pings <- Broadcast
INVARIANTS
    TypeOK
    AddressHeld
    ArpAgrees
CHECK_DEADLOCK FALSE
PROPERTIES
    JoinAnswered
    ExitSpreads
