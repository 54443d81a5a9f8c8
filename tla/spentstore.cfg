SPECIFICATION FairSpec
CONSTANTS
    Procs = {p, q, r}
    Keys = {k}
    Files = {f1, f2, f3, f4, f5, f6}
    NoFile = NoFile
    FirstFile = f1
    FirstHolds = {"nothing", "foreign", "db"}
    MaxRestarts = 2
INVARIANTS
    SerialStartsAreExact
PROPERTIES
    EveryoneSettles
CHECK_DEADLOCK FALSE
