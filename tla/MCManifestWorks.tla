--------------------------- MODULE MCManifestWorks ---------------------------
(* Two generations: the second has a ManifestWork without labels and one       *)
(* without manifests; and one ManifestWork has a manifest without annotation.  *)
EXTENDS ManifestWorks

Number(n) == [form |-> "number", value |-> n]

Missing == [form |-> "missing", value |-> 0]

Manifests(n, name) == <<[generation |-> n, name |-> name]>>

First ==
    [generation |-> Number(1), manifests |-> Manifests(Number(1), 1), labels |-> (1 :> 1)]

MCWork ==
    {First,
     [generation |-> Number(2), manifests |-> Manifests(Number(2), 2), labels |-> <<>>],
     [generation |-> Number(2), manifests |-> <<>>, labels |-> (2 :> 1)],
     [generation |-> Number(2), manifests |-> Manifests(Missing, 1), labels |-> (2 :> 2)]}

MCTwoWorks ==
    {First,
     [generation |-> Number(2), manifests |-> Manifests(Number(2), 1), labels |-> (2 :> 1)]}

CallerSymmetry == Permutations(Caller)
=============================================================================
