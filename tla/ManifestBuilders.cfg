\* One subnet, two generations of the cluster and of the node pool.
CONSTANTS
    ClusterID = id
    ClusterName = name
    NodePoolName = pool
    Subnet = {s1}
    MaxGeneration = 2
    NoWork = NoWork
SPECIFICATION Spec
INVARIANTS
    RulesMeetManifests
    StatusIsOfOwnResource
    NodePoolAfterHostedCluster
