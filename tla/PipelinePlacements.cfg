\* Two replicas of the placement adapter, PUTs that land late and a failed reconcile;
\* without a version the adapters behind it have nothing to do.
CONSTANTS
    c1 = c1
    n1 = n1
    Cluster = {c1}
    NodePool = {}
    Owner <- MCOwner
    MC = {m1, m2, m3, m4}
    Version = {}
    NoVersion = NoVersion
    NoMC = NoMC
    Requested = {NoVersion}
    Process = {p1, p2}
    MaxGeneration <- MCTwoGenerations
    MaxFailures = 1
    MaxDelays = 2
SYMMETRY MCSymmetry
SPECIFICATION SafeSpec
INVARIANTS
    PlacementsCounted
    PlacementsBounded
