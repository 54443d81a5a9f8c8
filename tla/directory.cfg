SPECIFICATION Spec
CONSTANTS
    Keys = {k1, k2}
    Models = {a, b}
    Writers = {node, service}
    Service = service
    Nothing = Nothing
    PageSize = 2
    MaxTime = 1
    MaxSigned = 3
SYMMETRY ProviderSymmetry
INVARIANTS
    FoundIsSigned
    FreshestOfPage
    AnnouncedIsListed
CHECK_DEADLOCK FALSE
