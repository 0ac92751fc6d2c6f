\* A cluster and its node pool with a failed reconcile and a PUT that lands late.
CONSTANTS
    c1 = c1
    n1 = n1
    Cluster = {c1}
    NodePool = {n1}
    Owner <- MCOwner
    MC = {m1}
    Version = {v1}
    NoVersion = NoVersion
    NoMC = NoMC
    Requested = {v1}
    Process = {p1}
    MaxGeneration <- MCTwoNodePoolGenerations
    MaxFailures = 1
    MaxDelays = 1
SPECIFICATION SafeSpec
INVARIANTS
    OneReplicaInv
    OverlapInv
