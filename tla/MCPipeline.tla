----------------------------- MODULE MCPipeline -----------------------------
(* Pipeline with one cluster and at most one node pool of it.               *)
EXTENDS Pipeline, TLC

CONSTANTS c1, n1

\* With three generations, a late write of the second can land over the third.
MCThreeGenerations == [r \in Resource |-> IF r = c1 THEN 3 ELSE 1]

MCTwoGenerations == [r \in Resource |-> IF r = c1 THEN 2 ELSE 1]

MCTwoNodePoolGenerations == [r \in Resource |-> IF r = c1 THEN 1 ELSE 2]

MCThreeNodePoolGenerations == [r \in Resource |-> IF r = c1 THEN 1 ELSE 3]

MCOwner == [n \in NodePool |-> c1]

\* Clusters and node pools are singletons; candidates, versions and processes
\* are interchangeable.
MCSymmetry == Permutations(MC) \cup Permutations(Version) \cup Permutations(Process)
=============================================================================
