\* Four clusters, two workers; the consumers fit on one page.
CONSTANTS
    m1 = m1
    m2 = m2
    m3 = m3
    d1 = d1
    Cluster = {c1, c2, c3, c4}
    Worker = {w1, w2}
    MC = {m1, m2, m3}
    Domain = {d1}
    NoCluster = NoCluster
    NoMC = NoMC
    NoDomain = NoDomain
    Candidates <- MCCandidates
    SecretMCs <- MCSecrets
    Consumers <- MCConsumers
    Domains <- MCDomains
    PageSize = 4
    MaxFailures = 1
    MaxChanges = 1
SPECIFICATION Spec
INVARIANTS
    EvenPlacement
PROPERTIES
    EveryClusterPlaced
