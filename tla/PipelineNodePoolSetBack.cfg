\* A node pool through three generations with a failed reconcile, whose write may land
\* late over a newer one.
CONSTANTS
    c1 = c1
    n1 = n1
    Cluster = {c1}
    NodePool = {n1}
    Owner <- MCOwner
    MC = {m1}
    Version = {v1}
    NoVersion = NoVersion
    NoMC = NoMC
    Requested = {v1}
    Process = {p1}
    MaxGeneration <- MCThreeNodePoolGenerations
    MaxFailures = 1
    MaxDelays = 0
SPECIFICATION SafeSpec
INVARIANTS
    OneReplicaInv
    OverlapInv
PROPERTIES
    WorkMovesForward
