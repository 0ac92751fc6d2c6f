\* Two replicas reconcile one cluster: the specification with its fairness.
CONSTANTS
    c1 = c1
    n1 = n1
    Cluster = {c1}
    NodePool = {}
    Owner <- MCOwner
    MC = {m1}
    Version = {v1}
    NoVersion = NoVersion
    NoMC = NoMC
    Requested = {v1, NoVersion}
    Process = {p1, p2}
    MaxGeneration <- MCTwoGenerations
    MaxFailures = 0
    MaxDelays = 0
SPECIFICATION Spec
INVARIANTS
    WorkMatchesGeneration
PROPERTIES
    ClusterConverges
