----------------------------- MODULE Generations -----------------------------
(***************************************************************************)
(* internal/manifest/generation.go and the lookups of                      *)
(* internal/maestroclient/client.go built on it: what a generation         *)
(* annotation is worth, what an apply does about it, and which manifests a *)
(* name or a label selector finds.                                         *)
(*                                                                         *)
(* Names, namespaces, label keys and label values are numbers, 0 for the   *)
(* empty string; numbers are ordered as the strings they stand for. A      *)
(* selector is the set of its comma-separated parts.                       *)
(***************************************************************************)
EXTENDS Integers, Sequences, SequencesExt, Lists

\* The generation annotation: absent, empty, not an int64, or a number.
Annotation == [form : {"missing", "empty", "unparsable", "number"}, value : Int]

\* One part of a label selector: "key=value", or a part without "=".
Pair(k, v) == [form |-> "pair", key |-> k, value |-> v]
Stray == [form |-> "stray", key |-> 0, value |-> 0]

-----------------------------------------------------------------------------
(* Generations                                                              *)

\* GetGeneration and GetGenerationFromUnstructured: 0 unless it is a number.
GetGeneration(a) == IF a.form = "number" THEN a.value ELSE 0

\* ValidateGeneration, ValidateGenerationFromUnstructured.
ValidGeneration(a) == a.form = "number" /\ a.value > 0

\* ValidateManifestWorkGeneration: the ManifestWork's own annotation and that of
\* every manifest in it.
ValidWork(work) ==
    /\ ValidGeneration(work.generation)
    /\ \A i \in DOMAIN work.manifests : ValidGeneration(work.manifests[i].generation)

\* Mutant of CompareGenerations: an older generation is skipped as well.
CompareGenerationsForward(newGen, existingGen, exists) ==
    IF ~exists THEN "create"
    ELSE IF existingGen >= newGen THEN "skip"
    ELSE "update"

\* Create what is not there, skip an equal generation, update any other.
CompareGenerations(newGen, existingGen, exists) ==
    IF ~exists THEN "create"
    ELSE IF existingGen = newGen THEN "skip"
    ELSE "update"

\* Mutant of Less: a smaller name comes first whatever its generation.
LessByEither(a, b) ==
    \/ GetGeneration(a.generation) > GetGeneration(b.generation)
    \/ a.name < b.name

\* The order of GetLatestGenerationFromList: by generation, then by name.
Less(a, b) ==
    LET genA == GetGeneration(a.generation)
        genB == GetGeneration(b.generation)
    IN  IF genA # genB THEN genA > genB ELSE a.name < b.name

\* GetLatestGenerationFromList: the items that a sort by Less may put first
\* (sort.Slice is not stable).
GetLatest(list) ==
    {list[i] : i \in {j \in DOMAIN list : \A k \in DOMAIN list : ~Less(list[k], list[j])}}

-----------------------------------------------------------------------------
(* Labels and discovery                                                     *)

\* The value of a label, the zero value of a Go map if there is none.
LabelOf(labels, k) == IF k \in DOMAIN labels THEN labels[k] ELSE 0

BuildLabelSelector(labels) == {Pair(k, labels[k]) : k \in DOMAIN labels}

\* Mutant of MatchesLabels: one matching label is enough.
MatchesAnyLabel(obj, selector) ==
    \/ selector = {}
    \/ \E part \in selector : part.form = "pair" /\ LabelOf(obj.labels, part.key) = part.value

\* An object without labels matches the empty selector only; a part without "="
\* is passed over.
MatchesLabels(obj, selector) ==
    \/ selector = {}
    \/ /\ DOMAIN obj.labels # {}
       /\ \A part \in selector :
             part.form = "pair" => LabelOf(obj.labels, part.key) = part.value

\* Mutant of MatchesDiscoveryCriteria: a name is looked up in every namespace.
MatchesDiscoveryByNameFirst(obj, d) ==
    IF d.name # 0 THEN obj.name = d.name
    ELSE (d.namespace # 0 => obj.namespace = d.namespace) /\ MatchesLabels(obj, d.selector)

\* The namespace if one is given; then the name if one is given, else the labels.
MatchesDiscoveryCriteria(obj, d) ==
    /\ d.namespace # 0 => obj.namespace = d.namespace
    /\ IF d.name # 0 THEN obj.name = d.name ELSE MatchesLabels(obj, d.selector)

DiscoverNestedManifest(work, d) ==
    Selected(work.manifests,
             {obj \in Elements(work.manifests) : MatchesDiscoveryCriteria(obj, d)})

\* DiscoverResources: the ManifestWorks themselves if that is the kind asked for,
\* else what is nested in any of them; the kind plays no further part.
DiscoverResources(works, kind, d) ==
    IF kind = "ManifestWork"
    THEN Selected(works, {work \in Elements(works) : MatchesDiscoveryCriteria(work, d)})
    ELSE FlattenSeq([i \in DOMAIN works |-> DiscoverNestedManifest(works[i], d)])

\* GetResource for a nested kind: the first manifest of that kind, namespace and
\* name; <<>> is the not-found error.
GetResource(works, kind, namespace, name) ==
    LET nested == FlattenSeq([i \in DOMAIN works |-> works[i].manifests])
    IN  FirstOf(nested, {obj \in Elements(nested) : /\ obj.kind = kind
                                                   /\ obj.namespace = namespace
                                                   /\ obj.name = name})

\* Mutant of EnrichWithResourceStatus: the namespaces are not compared.
EnrichByName(entries, obj) ==
    FirstOf(entries, {e \in Elements(entries) : e.name = obj.name})

\* EnrichWithResourceStatus: the first entry of status.resourceStatus.manifests
\* with the object's name and namespace; <<>> if there is none.
EnrichWithResourceStatus(entries, obj) ==
    FirstOf(entries, {e \in Elements(entries) : /\ e.name = obj.name
                                               /\ e.namespace = obj.namespace})
=============================================================================
