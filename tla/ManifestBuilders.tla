-------------------------- MODULE ManifestBuilders --------------------------
(***************************************************************************)
(* What the builders of hc and nodepool put into a ManifestWork, and what  *)
(* the reconcilers read back out of its status: the identities of the      *)
(* manifests, the rules that ask for feedback on some of them, and the     *)
(* position at which the feedback is looked up.                            *)
(*                                                                         *)
(* One cluster with one node pool, one reconcile at a time; the other      *)
(* gates, placement and interleaved calls are Pipeline's subject. A        *)
(* composed name is the tuple of its parts. Of a spec, the subnet is kept: *)
(* it is what a node pool takes from its cluster.                          *)
(***************************************************************************)
EXTENDS Generations

CONSTANTS
    ClusterID, ClusterName,  \* the cluster
    NodePoolName,            \* its node pool
    Subnet,                  \* subnets a cluster may name
    MaxGeneration,           \* bound: generations of either
    NoWork                   \* Maestro has no such ManifestWork

VARIABLES
    cluster,     \* [gen, subnet]: the cluster's spec in the HyperFleet API
    npGen,       \* the generation of the node pool's
    works,       \* [Adapter -> its ManifestWork, or NoWork]
    reported,    \* [Adapter -> Seq]: per manifest, the feedback the agent reported
    applied,     \* the adapter whose reconcile has applied and not reported, if any
    entry,       \* [Adapter -> [available, health]]: the status entries in the API
    truth,       \* history: what the entry should say, see Told
    everUp,      \* history: HostedClusters that reported Available
    built        \* history: the NodePool manifests built so far

vars == <<cluster, npGen, works, reported, applied, entry, truth, everUp, built>>

Adapter == {"hc", "nodepool"}

-----------------------------------------------------------------------------
(* hc: Build                                                                *)

ClusterNS == <<"clusters", ClusterID>>
HCNS == <<"clusters", ClusterID, ClusterName>>
NoNamespace == <<>>

AnnotationOf(gen) == [form |-> "number", value |-> gen]

Manifest(resource, namespace, name, gen) ==
    [resource |-> resource, namespace |-> namespace, name |-> name,
     generation |-> AnnotationOf(gen)]

buildNamespace(gen) == Manifest("namespaces", NoNamespace, ClusterNS, gen)

buildExternalSecret(gen) == Manifest("externalsecrets", ClusterNS, <<"pull-secret">>, gen)

buildCertificate(gen) == Manifest("certificates", ClusterNS, <<"external-api-cert">>, gen)

buildHostedCluster(gen) == Manifest("hostedclusters", ClusterNS, <<ClusterName>>, gen)

\* The Job is immutable, so every generation has one of its own.
buildRBACJob(gen) == Manifest("jobs", HCNS, <<"rbac-setup-gen", gen>>, gen)

\* Mutant of buildManifests: the Certificate is listed after the HostedCluster.
buildManifestsCertificateLater(gen) ==
    <<buildNamespace(gen), buildExternalSecret(gen), buildHostedCluster(gen),
      buildCertificate(gen), buildRBACJob(gen)>>

\* The order matters: hostedClusterManifestIndex is a position in it.
buildManifests(gen) ==
    <<buildNamespace(gen), buildExternalSecret(gen), buildCertificate(gen),
      buildHostedCluster(gen), buildRBACJob(gen)>>

Config(resource, namespace, name, feedback) ==
    [resource |-> resource, namespace |-> namespace, name |-> name, feedback |-> feedback]

\* Mutant of buildManifestConfigs: the Job is configured under one name for all
\* generations.
buildManifestConfigsOneJob(gen) ==
    <<Config("namespaces", NoNamespace, ClusterNS, {}),
      Config("jobs", HCNS, <<"rbac-setup-gen", 1>>, {}),
      Config("hostedclusters", ClusterNS, <<ClusterName>>,
             {"availableCondition", "degradedCondition"})>>

\* Feedback that is asked for and read by nobody is left out.
buildManifestConfigs(gen) ==
    <<Config("namespaces", NoNamespace, ClusterNS, {}),
      Config("jobs", HCNS, <<"rbac-setup-gen", gen>>, {}),
      Config("hostedclusters", ClusterNS, <<ClusterName>>,
             {"availableCondition", "degradedCondition"})>>

HCBuild(gen) ==
    [generation |-> AnnotationOf(gen), manifests |-> buildManifests(gen),
     configs |-> buildManifestConfigs(gen)]

-----------------------------------------------------------------------------
(* nodepool: Build                                                          *)

\* Mutant of NodePoolNS: the namespace HyperShift makes for the control plane.
NodePoolNSOfControlPlane == HCNS

NodePoolNS == ClusterNS

\* The NodePool refers to its HostedCluster by name, within its namespace. The
\* subnet is the cluster's, as read in the same reconcile.
NodePoolManifest(gen, subnet) ==
    [resource |-> "nodepools", namespace |-> NodePoolNS, name |-> <<NodePoolName>>,
     generation |-> AnnotationOf(gen), clusterName |-> <<ClusterName>>, subnet |-> subnet]

NPBuild(gen, subnet) ==
    [generation |-> AnnotationOf(gen),
     manifests |-> <<NodePoolManifest(gen, subnet)>>,
     configs |-> <<Config("nodepools", NodePoolNS, <<NodePoolName>>,
                          {"readyCondition", "allNodesHealthyCondition"})>>]

-----------------------------------------------------------------------------
(* What is read back                                                        *)

hostedClusterManifestIndex == 4  \* 3 in Go, which counts from 0

Identifies(config, manifest) ==
    /\ config.resource = manifest.resource
    /\ config.namespace = manifest.namespace
    /\ config.name = manifest.name

\* The feedback names the ManifestWork asks for on a manifest.
Asked(work, manifest) ==
    UNION {work.configs[i].feedback :
              i \in {j \in DOMAIN work.configs : Identifies(work.configs[j], manifest)}}

Lookup(feedback, name, default) == IF name \in DOMAIN feedback THEN feedback[name] ELSE default

\* The status conditions of the payload, from the feedback at one position;
\* Unknown and unhealthy while the list is too short.
Conditions(statuses, index, available, healthy, good, unhealthy) ==
    IF Len(statuses) < index
    THEN [available |-> "Unknown", health |-> unhealthy]
    ELSE [available |-> Lookup(statuses[index], available, "Unknown"),
          health |-> IF Lookup(statuses[index], healthy, "Unknown") = good
                     THEN "True" ELSE unhealthy]

\* buildStatusPayload of hc and of nodepool, once there is a ManifestWork.
Payload(a, statuses) ==
    IF a = "hc"
    THEN Conditions(statuses, hostedClusterManifestIndex,
                    "availableCondition", "degradedCondition", "False", "False")
    ELSE Conditions(statuses, 1, "readyCondition", "allNodesHealthyCondition", "True", "False")

\* The same without a ManifestWork; the two adapters differ in their Health.
PayloadNotFound(a) ==
    [available |-> "Unknown", health |-> IF a = "hc" THEN "False" ELSE "Unknown"]

-----------------------------------------------------------------------------

\* Whatever order the manifests are in: the feedback on the resource the adapter
\* is about, as far as it was reported.
Told(a) ==
    LET resource == IF a = "hc" THEN "hostedclusters" ELSE "nodepools"
        own == {i \in DOMAIN reported[a] : works[a].manifests[i].resource = resource}
    IN  IF works[a] = NoWork \/ own = {} THEN <<>> ELSE reported[a][CHOOSE i \in own : TRUE]

Init ==
    /\ cluster \in [gen : {1}, subnet : Subnet]
    /\ npGen = 1
    /\ works = [a \in Adapter |-> NoWork]
    /\ reported = [a \in Adapter |-> <<>>]
    /\ applied = {}
    /\ entry = [a \in Adapter |-> PayloadNotFound(a)]
    /\ truth = [a \in Adapter |-> <<>>]
    /\ everUp = {}
    /\ built = {}

\* The user edits either spec (external).
EditCluster ==
    /\ cluster.gen < MaxGeneration
    /\ \E s \in Subnet : cluster' = [gen |-> cluster.gen + 1, subnet |-> s]
    /\ UNCHANGED <<npGen, works, reported, applied, entry, truth, everUp, built>>

EditNodePool ==
    /\ npGen < MaxGeneration
    /\ npGen' = npGen + 1
    /\ UNCHANGED <<cluster, works, reported, applied, entry, truth, everUp, built>>

\* transport.Apply of what was built: create, skip or update. The manifests of an
\* updated ManifestWork have been reported on as they were before.
Apply(a, work) ==
    /\ works' = IF /\ works[a] # NoWork
                   /\ CompareGenerations(GetGeneration(work.generation),
                                         GetGeneration(works[a].generation), TRUE) = "skip"
                THEN works
                ELSE [works EXCEPT ![a] = work]
    /\ applied' = {a}
    /\ UNCHANGED <<cluster, npGen, reported, entry, truth, everUp>>

HCApply ==
    /\ applied = {}
    /\ Apply("hc", HCBuild(cluster.gen))
    /\ UNCHANGED built

\* The gate on hc's entry, then the build from both specs.
NPApply ==
    /\ applied = {}
    /\ entry["hc"].available = "True"
    /\ Apply("nodepool", NPBuild(npGen, cluster.subnet))
    /\ built' = built \cup {NodePoolManifest(npGen, cluster.subnet)}

\* GetStatus and PUT: the status of the ManifestWork, or that there is none.
Report(a) ==
    /\ a \in applied
    /\ entry' = [entry EXCEPT ![a] = IF works[a] = NoWork THEN PayloadNotFound(a)
                                     ELSE Payload(a, reported[a])]
    /\ truth' = [truth EXCEPT ![a] = Told(a)]
    /\ applied' = {}
    /\ UNCHANGED <<cluster, npGen, works, reported, everUp, built>>

\* The agent of the management cluster (external) reports on every manifest, in
\* their order, what it is asked for; nothing where it finds no resource.
AgentReports(a) ==
    /\ works[a] # NoWork
    /\ LET manifests == works[a].manifests
           asked == [i \in DOMAIN manifests |-> Asked(works[a], manifests[i])]
       IN  \E there \in BOOLEAN, value \in [UNION Range(asked) -> {"True", "False"}] :
             LET found(i) == IF there THEN [name \in asked[i] |-> value[name]] ELSE <<>> IN
             /\ reported' = [reported EXCEPT ![a] = [i \in DOMAIN manifests |-> found(i)]]
             /\ everUp' = everUp \cup
                   {<<manifests[i].namespace, manifests[i].name>> :
                       i \in {j \in DOMAIN manifests :
                                 /\ manifests[j].resource = "hostedclusters"
                                 /\ Lookup(found(j), "availableCondition", "") = "True"}}
    /\ UNCHANGED <<cluster, npGen, works, applied, entry, truth, built>>

\* Somebody deletes the ManifestWork in Maestro (external), and its status with it.
RemoveWork(a) ==
    /\ works[a] # NoWork
    /\ works' = [works EXCEPT ![a] = NoWork]
    /\ reported' = [reported EXCEPT ![a] = <<>>]
    /\ UNCHANGED <<cluster, npGen, applied, entry, truth, everUp, built>>

Next ==
    \/ EditCluster \/ EditNodePool
    \/ HCApply \/ NPApply
    \/ \E a \in Adapter : Report(a) \/ AgentReports(a) \/ RemoveWork(a)

Spec == Init /\ [][Next]_vars

-----------------------------------------------------------------------------
(* Properties                                                               *)

\* What an adapter reports is about its own resource: Available and Health say
\* what the HostedCluster or NodePool was last reported to be, although the
\* reconcilers find it by its position in a list the builder, three packages
\* away, writes in another order than its rules.
StatusIsOfOwnResource ==
    \A a \in Adapter :
        LET up == IF a = "hc" THEN "availableCondition" ELSE "readyCondition"
            well == IF a = "hc" THEN "degradedCondition" ELSE "allNodesHealthyCondition"
            good == IF a = "hc" THEN "False" ELSE "True"
        IN  /\ entry[a].available = Lookup(truth[a], up, "Unknown")
            /\ entry[a].health = "True" <=> Lookup(truth[a], well, "Unknown") = good

\* In every ManifestWork in Maestro, each rule identifies exactly one manifest, no
\* two manifests are the same resource, and every manifest carries the
\* ManifestWork's generation. A rule that misses its manifest is silently without
\* effect: no feedback, or an update of the immutable Job.
RulesMeetManifests ==
    \A a \in Adapter : works[a] # NoWork =>
        LET manifests == works[a].manifests IN
        /\ ValidWork(works[a])
        /\ \A i \in DOMAIN works[a].configs :
              \E j \in DOMAIN manifests : \A k \in DOMAIN manifests :
                  Identifies(works[a].configs[i], manifests[k]) <=> k = j
        /\ \A i, j \in DOMAIN manifests : Identifies(manifests[i], manifests[j]) => i = j
        /\ \A i \in DOMAIN manifests : manifests[i].generation = works[a].generation

\* The two builders agree on names they compute independently, and the gate is
\* about the right resource: a NodePool is sent to the management cluster only
\* after the HostedCluster it refers to, in its own namespace, was itself
\* reported available.
NodePoolAfterHostedCluster ==
    \A m \in built : <<m.namespace, m.clusterName>> \in everUp

\* Maestro has what a builder made for a generation the spec has had.
WorksAreBuilt ==
    /\ works["hc"] # NoWork => \E g \in 1..cluster.gen : works["hc"] = HCBuild(g)
    /\ works["nodepool"] # NoWork =>
          \E g \in 1..npGen, s \in Subnet : works["nodepool"] = NPBuild(g, s)

ManifestCount(a) == IF a = "hc" THEN 5 ELSE 1

\* What was reported is a list as long as the adapter's manifests, also after the
\* ManifestWork was updated.
ReportsFit ==
    \A a \in Adapter :
        \/ reported[a] = <<>>
        \/ /\ DOMAIN reported[a] = 1..ManifestCount(a)
           /\ Len(reported[a]) = ManifestCount(a)

SaysUp(statuses) ==
    /\ statuses # <<>>
    /\ Lookup(statuses[hostedClusterManifestIndex], "availableCondition", "") = "True"

\* What is available, in a report or in hc's entry, was so at some time.
AvailableWasUp ==
    SaysUp(reported["hc"]) \/ entry["hc"].available = "True" =>
        <<ClusterNS, <<ClusterName>>>> \in everUp

BuildersTypeOK ==
    /\ cluster \in [gen : Nat \ {0}, subnet : Subnet]
    /\ npGen \in Nat \ {0}
    /\ applied \subseteq Adapter
    /\ DOMAIN works = Adapter /\ DOMAIN reported = Adapter
    /\ DOMAIN entry = Adapter /\ DOMAIN truth = Adapter

\* The inductive invariant of the builders and what is read back.
BuildersInv ==
    /\ BuildersTypeOK
    /\ WorksAreBuilt
    /\ ReportsFit
    /\ AvailableWasUp
    /\ StatusIsOfOwnResource
    /\ NodePoolAfterHostedCluster

\* "cluster fetched for validation; subnet/region come from nodepool spec"
\* (adapters/nodepool/reconciler.go): the NodePool of a generation is determined
\* by the node pool's spec, so every build of one generation is the same.
NodePoolFollowsOwnSpec ==
    \A m, n \in built : m.generation = n.generation => m = n
=============================================================================
