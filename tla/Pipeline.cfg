\* One cluster through three generations and two management clusters, with one
\* failed reconcile, whose write may land late, and one status PUT that lands late:
\* the specification with its fairness.
CONSTANTS
    c1 = c1
    n1 = n1
    Cluster = {c1}
    NodePool = {}
    Owner <- MCOwner
    MC = {m1, m2}
    Version = {v1}
    NoVersion = NoVersion
    NoMC = NoMC
    Requested = {v1}
    Process = {p1}
    MaxGeneration <- MCThreeGenerations
    MaxFailures = 1
    MaxDelays = 1
SPECIFICATION Spec
INVARIANTS
    OverlapInv
    PlacementsBounded
    WorkWherePlaced
    ReportedIsApplied
    ReconciledIsCurrent
PROPERTIES
    WorkMovesForward
    ClusterConverges
