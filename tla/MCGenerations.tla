---------------------------- MODULE MCGenerations ----------------------------
(* A consumer's ManifestWorks, built manifest by manifest, and what the      *)
(* functions of Generations find in them.                                    *)
EXTENDS Generations, FiniteSets

CONSTANTS
    MaxWorks,      \* bound: ManifestWorks of the consumer
    MaxManifests   \* bound: manifests in all of them

VARIABLE works

Kinds == {"HostedCluster", "Certificate"}
Texts == 1..2

Number(n) == [form |-> "number", value |-> n]

\* An object that predates the generation annotation, an older one with one label
\* and a newer one with two.
Variants ==
    {[generation |-> [form |-> "missing", value |-> 0], labels |-> <<>>],
     [generation |-> Number(1), labels |-> <<1>>],
     [generation |-> Number(2), labels |-> <<2, 1>>]}

Objects ==
    {[kind |-> kind, namespace |-> ns, name |-> n, generation |-> v.generation,
      labels |-> v.labels] : kind \in Kinds, ns \in Texts, n \in Texts, v \in Variants}

Nested == FlattenSeq([i \in DOMAIN works |-> works[i].manifests])

\* What is nested in works is what the lookups search.
TypeOK == works \in Seq([manifests : Seq(Objects)])

Init == works = <<>>

AddWork ==
    /\ Len(works) < MaxWorks
    /\ works' = Append(works, [manifests |-> <<>>])

AddManifest ==
    /\ works # <<>>
    /\ Len(Nested) < MaxManifests
    /\ \E obj \in Objects :
          works' = [works EXCEPT ![Len(works)].manifests = Append(@, obj)]

Finished ==
    /\ Len(works) = MaxWorks
    /\ Len(Nested) = MaxManifests
    /\ UNCHANGED works

Next == AddWork \/ AddManifest \/ Finished

Spec == Init /\ [][Next]_works

-----------------------------------------------------------------------------
(* Properties                                                               *)

\* GetLatestGenerationFromList: whatever the order of the list, what is returned
\* has the highest generation in it, and of those the smallest name, so that two
\* runs over one list agree; an object without the annotation comes last.
LatestIsNewest ==
    Nested # <<>> =>
        /\ GetLatest(Nested) # {}
        /\ \A obj \in GetLatest(Nested), i \in DOMAIN Nested :
              LET gen == GetGeneration(Nested[i].generation) IN
              /\ GetGeneration(obj.generation) >= gen
              /\ GetGeneration(obj.generation) = gen => obj.name <= Nested[i].name

LabelMaps(values) == UNION {[keys -> values] : keys \in SUBSET Texts}

Carries(obj, labels) ==
    \A k \in DOMAIN labels : k \in DOMAIN obj.labels /\ obj.labels[k] = labels[k]

\* BuildLabelSelector and MatchesLabels fit together: an object matches the
\* selector built from labels exactly if it carries all of them, as long as no
\* value is empty.
SelectorRoundTrip ==
    \A i \in DOMAIN Nested, labels \in LabelMaps(Texts) :
        MatchesLabels(Nested[i], BuildLabelSelector(labels)) <=> Carries(Nested[i], labels)

Named(ns, n) == [namespace |-> ns, name |-> n, selector |-> {}]

\* GetResource and DiscoverResources, two searches of the same ManifestWorks,
\* agree: what is discovered by namespace and name has both, and what GetResource
\* returns for any kind is among it.
DiscoveryFindsWhatGetFinds ==
    \A kind \in Kinds, ns, n \in Texts :
        LET found == DiscoverResources(works, kind, Named(ns, n)) IN
        /\ \A i \in DOMAIN found : found[i].namespace = ns /\ found[i].name = n
        /\ \A i \in DOMAIN GetResource(works, kind, ns, n) :
              \E j \in DOMAIN found : found[j] = GetResource(works, kind, ns, n)[i]

\* What the management cluster reports of a ManifestWork: one entry a manifest.
Entries(work) ==
    [i \in DOMAIN work.manifests |->
        [kind |-> work.manifests[i].kind, namespace |-> work.manifests[i].namespace,
         name |-> work.manifests[i].name]]

SameName(a, b) == a.namespace = b.namespace /\ a.name = b.name

\* EnrichWithResourceStatus looks an entry up by name and namespace only: a
\* manifest whose name and namespace no other manifest of the ManifestWork has
\* gets its own status.
EnrichedIsOwn ==
    \A w \in DOMAIN works : \A i \in DOMAIN works[w].manifests :
        LET obj == works[w].manifests[i]
            entries == Entries(works[w])
        IN  (\A j \in DOMAIN entries \ {i} : ~SameName(entries[j], obj)) =>
                EnrichWithResourceStatus(entries, obj) = <<entries[i]>>

\* "Returns true if all selector labels are present in the object's labels"
\* (MatchesLabels), empty values included.
AllSelectorLabelsPresent ==
    \A i \in DOMAIN Nested, labels \in LabelMaps({0} \cup Texts) :
        MatchesLabels(Nested[i], BuildLabelSelector(labels)) => Carries(Nested[i], labels)

\* "If Discovery.IsSingleResource() is true, it fetches a single resource by name"
\* (transportclient/interface.go): given the kind, the namespace and the name of
\* a resource that is in one ManifestWork once, DiscoverResources returns one.
SingleResourceByName ==
    \A kind \in Kinds, ns, n \in Texts :
        Cardinality({i \in DOMAIN Nested : /\ Nested[i].kind = kind
                                           /\ SameName(Nested[i], Named(ns, n))}) = 1
            => Len(DiscoverResources(works, kind, Named(ns, n))) = 1
=============================================================================
