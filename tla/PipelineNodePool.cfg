\* A node pool through two generations beside a cluster of one, one failed
\* reconcile: the specification with its fairness.
CONSTANTS
    c1 = c1
    n1 = n1
    Cluster = {c1}
    NodePool = {n1}
    Owner <- MCOwner
    MC = {m1}
    Version = {v1}
    NoVersion = NoVersion
    NoMC = NoMC
    Requested = {v1}
    Process = {p1}
    MaxGeneration <- MCTwoNodePoolGenerations
    MaxFailures = 1
    MaxDelays = 0
SPECIFICATION Spec
INVARIANTS
    NodePoolFollowsCluster
    ReportedIsApplied
PROPERTIES
    NodePoolConverges
