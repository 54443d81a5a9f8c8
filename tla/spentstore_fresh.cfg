SPECIFICATION Spec
CONSTANTS
    Procs = {p, q, r}
    Keys = {k}
    Files = {f1, f2, f3, f4, f5, f6}
    NoFile = NoFile
    FirstFile = f1
    FirstHolds = {"nothing", "foreign"}
    MaxRestarts = 0
INVARIANTS ExactlyOnce
CHECK_DEADLOCK FALSE
