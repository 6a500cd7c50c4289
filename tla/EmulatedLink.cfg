\* Three segments over links that are slow and replaced, under any clock.
SPECIFICATION Spec
CONSTANTS
    From = 0
    To = 254
    Segments <- Edges
    EdgeOptions <- Slow
    MaxSent = 3
    MaxLinks = 2
    MaxTime = 3
INVARIANTS
    TypeOK
    Intact
    DepartsInOrder
    Paced
CHECK_DEADLOCK FALSE
