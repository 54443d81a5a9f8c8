SPECIFICATION Spec
CONSTANTS
    p1 = p1
    p2 = p2
    Routers = {r1, r2}
    Listed <- MCListed
    Manifests <- MCManifests
    Policies <- MCPolicies
    Requests <- MCRequests
    Outcomes <- MCOutcomes
    Latencies = {60, 120}
    Nothing = Nothing
    Scale = 4
    MaxOutcomes = 2
SYMMETRY RouterSymmetry
INVARIANTS
    RoutedIsBestAllowed
    CountersSound
    RankRespectsDominance
CHECK_DEADLOCK FALSE
