\* The three inductive parts of the selectors: types, turns, and what is placed where.
CONSTANTS
    m1 = m1
    m2 = m2
    m3 = m3
    d1 = d1
    Cluster = {c1, c2, c3, c4}
    Worker = {w1, w2}
    MC = {m1, m2, m3}
    Domain = {d1}
    NoCluster = NoCluster
    NoMC = NoMC
    NoDomain = NoDomain
    Candidates <- MCCandidates
    SecretMCs <- MCSecrets
    Consumers <- MCConsumers
    Domains <- MCDomains
    PageSize = 4
    MaxFailures = 2
    MaxChanges = 2
SPECIFICATION SafeSpec
INVARIANTS
    TypeOK
    SelectorInv
    WhereInv
PROPERTIES
    PlacementsStay
