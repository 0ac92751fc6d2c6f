\* Two subnets: what a node pool's ManifestWork takes from its cluster.
CONSTANTS
    ClusterID = id
    ClusterName = name
    NodePoolName = pool
    Subnet = {s1, s2}
    MaxGeneration = 2
    NoWork = NoWork
SPECIFICATION Spec
INVARIANTS
    NodePoolFollowsOwnSpec
