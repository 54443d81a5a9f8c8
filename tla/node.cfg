SPECIFICATION NSpec
CONSTANTS
    Machines <- MCMachines
    Catalog <- MCCatalog
    Queries <- MCQueries
    Unknown = Unknown
    MaxClock = 3
    MaxLines = 3
INVARIANTS
    BestAreListed
    FitIsHonest
    BenchmarkHonest
CHECK_DEADLOCK FALSE
