SPECIFICATION Spec
CONSTANTS
    Models = {a, b}
    Ports = {x, y}
    Nothing = Nothing
    Retries = 2
    MaxProcs = 3
INVARIANTS
    NoProcessOutOfReach
    ListedIsServed
PROPERTIES
    StopStops
    EveryCallEnds
