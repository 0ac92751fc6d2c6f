\* The same with two versions and specs that ask for none, and with the inductive
\* invariant of one replica.
CONSTANTS
    c1 = c1
    n1 = n1
    Cluster = {c1}
    NodePool = {}
    Owner <- MCOwner
    MC = {m1, m2}
    Version = {v1, v2}
    NoVersion = NoVersion
    NoMC = NoMC
    Requested = {v1, v2, NoVersion}
    Process = {p1}
    MaxGeneration <- MCThreeGenerations
    MaxFailures = 1
    MaxDelays = 1
SYMMETRY MCSymmetry
SPECIFICATION SafeSpec
INVARIANTS
    OneReplicaInv
    OverlapInv
    PlacementsBounded
    WorkWherePlaced
    ReportedIsApplied
    ReconciledIsCurrent
PROPERTIES
    WorkMovesForward
