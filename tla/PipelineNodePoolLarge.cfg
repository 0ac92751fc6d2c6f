\* A node pool through two generations beside a cluster of one, two management
\* clusters and two versions, one failed reconcile.
CONSTANTS
    c1 = c1
    n1 = n1
    Cluster = {c1}
    NodePool = {n1}
    Owner <- MCOwner
    MC = {m1, m2}
    Version = {v1, v2}
    NoVersion = NoVersion
    NoMC = NoMC
    Requested = {v1, v2}
    Process = {p1}
    MaxGeneration <- MCTwoNodePoolGenerations
    MaxFailures = 1
    MaxDelays = 0
SYMMETRY MCSymmetry
SPECIFICATION SafeSpec
INVARIANTS
    WorkMatchesGeneration
    NodePoolFollowsCluster
    ReportedIsApplied
