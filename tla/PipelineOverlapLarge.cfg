\* Two replicas of every adapter reconcile the same cluster at once.
CONSTANTS
    c1 = c1
    n1 = n1
    Cluster = {c1}
    NodePool = {}
    Owner <- MCOwner
    MC = {m1, m2}
    Version = {v1}
    NoVersion = NoVersion
    NoMC = NoMC
    Requested = {v1, NoVersion}
    Process = {p1, p2}
    MaxGeneration <- MCTwoGenerations
    MaxFailures = 0
    MaxDelays = 0
SYMMETRY MCSymmetry
SPECIFICATION SafeSpec
INVARIANTS
    WorkMatchesGeneration
    WorkWherePlaced
    OverlapInv
