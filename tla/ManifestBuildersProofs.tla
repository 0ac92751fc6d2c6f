----------------------- MODULE ManifestBuildersProofs -----------------------
(***************************************************************************)
(* Proofs about ManifestBuilders, for every cluster, node pool and         *)
(* generation: rules meet their manifests, the status of an adapter is     *)
(* that of its own resource, and a NodePool follows its HostedCluster.     *)
(***************************************************************************)
EXTENDS ManifestBuilders, SequenceTheorems, TLAPS

-----------------------------------------------------------------------------
(* What the builders make                                                   *)

(* The fields of a manifest and of a rule.                                  *)
LEMMA ManifestFields ==
  ASSUME NEW r, NEW s, NEW n, NEW g
  PROVE  /\ Manifest(r, s, n, g).resource = r
         /\ Manifest(r, s, n, g).namespace = s
         /\ Manifest(r, s, n, g).name = n
         /\ Manifest(r, s, n, g).generation = AnnotationOf(g)
BY DEF Manifest

LEMMA ConfigFields ==
  ASSUME NEW r, NEW s, NEW n, NEW f
  PROVE  /\ Config(r, s, n, f).resource = r
         /\ Config(r, s, n, f).namespace = s
         /\ Config(r, s, n, f).name = n
BY DEF Config

(* The manifests of a hosted cluster, position by position: no two are of   *)
(* one kind, and the fourth is the HostedCluster.                           *)
LEMMA HCManifests ==
  ASSUME NEW g, NEW m, m = HCBuild(g).manifests
  PROVE  /\ DOMAIN m = 1..5 /\ Len(m) = 5
         /\ m[1].resource = "namespaces"
         /\ m[1].namespace = NoNamespace /\ m[1].name = ClusterNS
         /\ m[2].resource = "externalsecrets"
         /\ m[3].resource = "certificates"
         /\ m[4].resource = "hostedclusters"
         /\ m[4].namespace = ClusterNS /\ m[4].name = <<ClusterName>>
         /\ m[5].resource = "jobs"
         /\ m[5].namespace = HCNS /\ m[5].name = <<"rbac-setup-gen", g>>
         /\ \A i \in 1..5 : m[i].generation = AnnotationOf(g)
<1>1. /\ DOMAIN m = 1..5 /\ Len(m) = 5
      /\ m[1] = buildNamespace(g) /\ m[2] = buildExternalSecret(g)
      /\ m[3] = buildCertificate(g) /\ m[4] = buildHostedCluster(g)
      /\ m[5] = buildRBACJob(g)
  BY DEF HCBuild, buildManifests
<1>2. m[1].resource = "namespaces" /\ m[1].namespace = NoNamespace /\ m[1].name = ClusterNS
  BY <1>1, ManifestFields DEF buildNamespace
<1>3. m[2].resource = "externalsecrets"
  BY <1>1, ManifestFields DEF buildExternalSecret
<1>4. m[3].resource = "certificates"
  BY <1>1, ManifestFields DEF buildCertificate
<1>5. /\ m[4].resource = "hostedclusters"
      /\ m[4].namespace = ClusterNS /\ m[4].name = <<ClusterName>>
  BY <1>1, ManifestFields DEF buildHostedCluster
<1>6. /\ m[5].resource = "jobs"
      /\ m[5].namespace = HCNS /\ m[5].name = <<"rbac-setup-gen", g>>
  BY <1>1, ManifestFields DEF buildRBACJob
<1>7. /\ m[1].generation = AnnotationOf(g) /\ m[2].generation = AnnotationOf(g)
      /\ m[3].generation = AnnotationOf(g) /\ m[4].generation = AnnotationOf(g)
      /\ m[5].generation = AnnotationOf(g)
  BY <1>1, ManifestFields DEF buildNamespace, buildExternalSecret, buildCertificate,
     buildHostedCluster, buildRBACJob
<1>8. \A i \in 1..5 : i = 1 \/ i = 2 \/ i = 3 \/ i = 4 \/ i = 5
  OBVIOUS
<1>9. \A i \in 1..5 : m[i].generation = AnnotationOf(g)
  BY <1>7, <1>8
<1> QED
  BY <1>1, <1>2, <1>3, <1>4, <1>5, <1>6, <1>9

LEMMA HostedClusterIsFourth ==
  ASSUME NEW g, NEW m, m = HCBuild(g).manifests
  PROVE  /\ m[4].resource = "hostedclusters"
         /\ m[4].namespace = ClusterNS /\ m[4].name = <<ClusterName>>
<1>1. m[4].resource = "hostedclusters"
  BY HCManifests
<1>2. m[4].namespace = ClusterNS
  BY HCManifests
<1>3. m[4].name = <<ClusterName>>
  BY HCManifests
<1> QED
  BY <1>1, <1>2, <1>3

(* A manifest of a hosted cluster is known by its kind.                     *)
LEMMA HCPositions ==
  ASSUME NEW g, NEW m, m = HCBuild(g).manifests, NEW i \in 1..5
  PROVE  /\ m[i].resource = "namespaces" <=> i = 1
         /\ m[i].resource = "hostedclusters" <=> i = 4
         /\ m[i].resource = "jobs" <=> i = 5
         /\ \A j \in 1..5 : m[i].resource = m[j].resource => i = j
<1>1. \A k \in 1..5 : k = 1 \/ k = 2 \/ k = 3 \/ k = 4 \/ k = 5
  OBVIOUS
<1>2. /\ m[1].resource = "namespaces" /\ m[2].resource = "externalsecrets"
      /\ m[3].resource = "certificates" /\ m[4].resource = "hostedclusters"
      /\ m[5].resource = "jobs"
  BY HCManifests
<1> QED
  BY <1>1, <1>2

(* Each of the three rules of a hosted cluster is about one manifest: the   *)
(* Namespace, the Job of this generation, the HostedCluster.                *)
LEMMA HCConfigs ==
  ASSUME NEW g, NEW m, m = HCBuild(g).manifests, NEW c, c = HCBuild(g).configs
  PROVE  /\ DOMAIN c = 1..3
         /\ \A j \in 1..5 : Identifies(c[1], m[j]) <=> j = 1
         /\ \A j \in 1..5 : Identifies(c[2], m[j]) <=> j = 5
         /\ \A j \in 1..5 : Identifies(c[3], m[j]) <=> j = 4
<1>1. /\ DOMAIN c = 1..3
      /\ c[1] = Config("namespaces", NoNamespace, ClusterNS, {})
      /\ c[2] = Config("jobs", HCNS, <<"rbac-setup-gen", g>>, {})
      /\ c[3] = Config("hostedclusters", ClusterNS, <<ClusterName>>,
                       {"availableCondition", "degradedCondition"})
  BY DEF HCBuild, buildManifestConfigs
<1>2. /\ c[1].resource = "namespaces" /\ c[1].namespace = NoNamespace /\ c[1].name = ClusterNS
      /\ c[2].resource = "jobs" /\ c[2].namespace = HCNS
      /\ c[2].name = <<"rbac-setup-gen", g>>
      /\ c[3].resource = "hostedclusters" /\ c[3].namespace = ClusterNS
      /\ c[3].name = <<ClusterName>>
  BY <1>1, ConfigFields
<1>3. Identifies(c[1], m[1]) /\ Identifies(c[2], m[5]) /\ Identifies(c[3], m[4])
  <2>1. m[1].resource = "namespaces" /\ m[1].namespace = NoNamespace /\ m[1].name = ClusterNS
    BY HCManifests
  <2>2. m[5].resource = "jobs" /\ m[5].namespace = HCNS
    BY HCManifests
  <2>3. m[5].name = <<"rbac-setup-gen", g>>
    BY HCManifests
  <2>4. /\ m[4].resource = "hostedclusters" /\ m[4].namespace = ClusterNS
        /\ m[4].name = <<ClusterName>>
    BY HCManifests
  <2> QED
    BY <1>2, <2>1, <2>2, <2>3, <2>4 DEF Identifies
<1>4. \A i \in 1..3, j \in 1..5 : Identifies(c[i], m[j]) => c[i].resource = m[j].resource
  BY DEF Identifies
<1>5. \A j \in 1..5 : Identifies(c[1], m[j]) <=> j = 1
  BY <1>2, <1>3, <1>4, HCPositions
<1>6. \A j \in 1..5 : Identifies(c[2], m[j]) <=> j = 5
  BY <1>2, <1>3, <1>4, HCPositions
<1>7. \A j \in 1..5 : Identifies(c[3], m[j]) <=> j = 4
  BY <1>2, <1>3, <1>4, HCPositions
<1> QED
  BY <1>1, <1>5, <1>6, <1>7

(* A node pool's ManifestWork: one manifest, one rule, which is about it.   *)
LEMMA NPParts ==
  ASSUME NEW g, NEW s
  PROVE  LET w == NPBuild(g, s) IN
         /\ DOMAIN w.manifests = 1..1 /\ Len(w.manifests) = 1
         /\ w.manifests[1] = NodePoolManifest(g, s)
         /\ w.manifests[1].resource = "nodepools"
         /\ w.manifests[1].generation = AnnotationOf(g)
         /\ DOMAIN w.configs = 1..1
         /\ Identifies(w.configs[1], w.manifests[1])
<1> DEFINE w == NPBuild(g, s)
<1>1. DOMAIN w.manifests = 1..1 /\ Len(w.manifests) = 1 /\ w.manifests[1] = NodePoolManifest(g, s)
  BY DEF NPBuild
<1>2. /\ DOMAIN w.configs = 1..1
      /\ w.configs[1] = Config("nodepools", NodePoolNS, <<NodePoolName>>,
                               {"readyCondition", "allNodesHealthyCondition"})
  BY DEF NPBuild
<1>3. Identifies(w.configs[1], w.manifests[1])
  BY <1>1, <1>2 DEF Identifies, Config, NodePoolManifest
<1> QED
  BY <1>1, <1>2, <1>3 DEF NodePoolManifest

-----------------------------------------------------------------------------
(* Rules meet manifests                                                     *)

(* An annotation a builder writes is valid.                                 *)
LEMMA BuiltGenerationsAreValid ==
  ASSUME NEW g \in Nat \ {0}
  PROVE  ValidGeneration(AnnotationOf(g))
BY DEF ValidGeneration, AnnotationOf

(* What RulesMeetManifests says of a ManifestWork.                          *)
Meets(work) ==
    /\ ValidWork(work)
    /\ \A i \in DOMAIN work.configs :
          \E j \in DOMAIN work.manifests : \A k \in DOMAIN work.manifests :
              Identifies(work.configs[i], work.manifests[k]) <=> k = j
    /\ \A i, j \in DOMAIN work.manifests :
          Identifies(work.manifests[i], work.manifests[j]) => i = j
    /\ \A i \in DOMAIN work.manifests : work.manifests[i].generation = work.generation

LEMMA HCBuildMeets ==
  ASSUME NEW g \in Nat \ {0}
  PROVE  Meets(HCBuild(g))
<1>1. PICK m, c : m = HCBuild(g).manifests /\ c = HCBuild(g).configs
  OBVIOUS
<1>2. HCBuild(g).generation = AnnotationOf(g)
  BY DEF HCBuild
<1>3. /\ DOMAIN m = 1..5
      /\ \A i \in 1..5 : m[i].generation = AnnotationOf(g)
  BY <1>1, HCManifests
<1>4. ValidWork(HCBuild(g))
  BY <1>1, <1>2, <1>3, BuiltGenerationsAreValid DEF ValidWork
<1>5. ASSUME NEW i \in 1..3
      PROVE  \E j \in 1..5 : \A k \in 1..5 : Identifies(c[i], m[k]) <=> k = j
  <2>1. i = 1 \/ i = 2 \/ i = 3
    OBVIOUS
  <2> QED
    BY <1>1, <2>1, HCConfigs
<1>6. \A i, j \in 1..5 : Identifies(m[i], m[j]) => i = j
  BY <1>1, HCPositions DEF Identifies
<1>7. DOMAIN c = 1..3
  BY <1>1, HCConfigs
<1> QED
  BY <1>1, <1>2, <1>3, <1>4, <1>5, <1>6, <1>7 DEF Meets

LEMMA NPBuildMeets ==
  ASSUME NEW g \in Nat \ {0}, NEW s
  PROVE  Meets(NPBuild(g, s))
<1>1. PICK w : w = NPBuild(g, s)
  OBVIOUS
<1>2. w.generation = AnnotationOf(g)
  BY <1>1 DEF NPBuild
<1>3. /\ DOMAIN w.manifests = 1..1 /\ DOMAIN w.configs = 1..1
      /\ w.manifests[1].generation = AnnotationOf(g)
      /\ Identifies(w.configs[1], w.manifests[1])
  BY <1>1, NPParts
<1>4. \A i \in 1..1 : i = 1
  OBVIOUS
<1>5. ValidWork(w)
  BY <1>2, <1>3, <1>4, BuiltGenerationsAreValid DEF ValidWork
<1> QED
  BY <1>1, <1>2, <1>3, <1>4, <1>5 DEF Meets

(* So in every ManifestWork in Maestro the rules meet their manifests.      *)
LEMMA BuiltWorksMeet ==
  ASSUME BuildersTypeOK, WorksAreBuilt
  PROVE  RulesMeetManifests
<1>1. ASSUME NEW a \in Adapter, works[a] # NoWork
      PROVE  Meets(works[a])
  <2>1. /\ \A g \in 1..cluster.gen : g \in Nat \ {0}
        /\ \A g \in 1..npGen : g \in Nat \ {0}
    BY DEF BuildersTypeOK
  <2>2. CASE a = "hc"
    BY <1>1, <2>1, <2>2, HCBuildMeets DEF WorksAreBuilt
  <2>3. CASE a = "nodepool"
    BY <1>1, <2>1, <2>3, NPBuildMeets DEF WorksAreBuilt
  <2> QED
    BY <2>2, <2>3 DEF Adapter
<1> QED
  BY <1>1 DEF RulesMeetManifests, Meets

-----------------------------------------------------------------------------
(* What is read back                                                        *)

(* Nothing is found in an empty report.                                     *)
LEMMA NothingReported ==
  ASSUME NEW name, NEW default
  PROVE  Lookup(<<>>, name, default) = default
<1>1. DOMAIN <<>> = {}
  OBVIOUS
<1> QED
  BY <1>1 DEF Lookup

(* Where the adapter's own resource is in its ManifestWork.                 *)
OwnIndex(a) == IF a = "hc" THEN hostedClusterManifestIndex ELSE 1

LEMMA OwnIsAtIndex ==
  ASSUME BuildersTypeOK, WorksAreBuilt, NEW a \in Adapter, works[a] # NoWork
  PROVE  /\ DOMAIN works[a].manifests = 1..ManifestCount(a)
         /\ \A i \in 1..ManifestCount(a) :
               works[a].manifests[i].resource
                     = (IF a = "hc" THEN "hostedclusters" ELSE "nodepools")
                  <=> i = OwnIndex(a)
<1>1. CASE a = "hc"
  <2>1. PICK g : works[a] = HCBuild(g)
    BY <1>1 DEF WorksAreBuilt
  <2>2. PICK m : m = works[a].manifests
    OBVIOUS
  <2>3. DOMAIN m = 1..5
    BY <2>1, <2>2, HCManifests
  <2>4. \A i \in 1..5 : m[i].resource = "hostedclusters" <=> i = 4
    BY <2>1, <2>2, HCPositions
  <2> QED
    BY <1>1, <2>2, <2>3, <2>4 DEF ManifestCount, OwnIndex, hostedClusterManifestIndex
<1>2. CASE a = "nodepool"
  <2>1. PICK g, s : works[a] = NPBuild(g, s)
    BY <1>2 DEF WorksAreBuilt
  <2>2. PICK m : m = works[a].manifests
    OBVIOUS
  <2>3. DOMAIN m = 1..1 /\ m[1].resource = "nodepools"
    BY <2>1, <2>2, NPParts
  <2>4. \A i \in 1..1 : i = 1
    OBVIOUS
  <2> QED
    BY <1>2, <2>2, <2>3, <2>4 DEF ManifestCount, OwnIndex
<1> QED
  BY <1>1, <1>2 DEF Adapter

(* Told looks for the resource, Payload at a position: they find the same.  *)
LEMMA ToldIsAtIndex ==
  ASSUME BuildersTypeOK, WorksAreBuilt, ReportsFit, NEW a \in Adapter
  PROVE  Told(a) = IF works[a] = NoWork \/ reported[a] = <<>> THEN <<>>
                   ELSE reported[a][OwnIndex(a)]
<1> DEFINE resource == IF a = "hc" THEN "hostedclusters" ELSE "nodepools"
           own == {i \in DOMAIN reported[a] : works[a].manifests[i].resource = resource}
<1>1. CASE works[a] = NoWork
  BY <1>1 DEF Told
<1>2. CASE works[a] # NoWork /\ reported[a] = <<>>
  <2>1. DOMAIN reported[a] = {}
    BY <1>2
  <2>2. own = {}
    BY <2>1
  <2> QED
    BY <1>2, <2>2 DEF Told
<1>3. CASE works[a] # NoWork /\ reported[a] # <<>>
  <2>1. DOMAIN reported[a] = 1..ManifestCount(a)
    BY <1>3 DEF ReportsFit
  <2>2. OwnIndex(a) \in 1..ManifestCount(a)
    BY DEF OwnIndex, ManifestCount, hostedClusterManifestIndex
  <2>3. own = {OwnIndex(a)}
    BY <1>3, <2>1, <2>2, OwnIsAtIndex
  <2>4. Told(a) = reported[a][CHOOSE i \in own : TRUE]
    BY <1>3, <2>3 DEF Told
  <2> HIDE DEF own
  <2>5. (CHOOSE i \in own : TRUE) \in own
    BY <2>3
  <2> QED
    BY <1>3, <2>3, <2>4, <2>5
<1> QED
  BY <1>1, <1>2, <1>3

(* What a status payload says of its adapter.                               *)
Honest(a, payload, told) ==
    LET up == IF a = "hc" THEN "availableCondition" ELSE "readyCondition"
        well == IF a = "hc" THEN "degradedCondition" ELSE "allNodesHealthyCondition"
        good == IF a = "hc" THEN "False" ELSE "True"
    IN  /\ payload.available = Lookup(told, up, "Unknown")
        /\ payload.health = "True" <=> Lookup(told, well, "Unknown") = good

LEMMA NotFoundIsHonest ==
  ASSUME NEW a \in Adapter
  PROVE  Honest(a, PayloadNotFound(a), <<>>)
BY NothingReported DEF Honest, PayloadNotFound

(* An empty report counts as one on nothing.                                *)
LEMMA EmptyIsHonest ==
  ASSUME NEW a \in Adapter
  PROVE  Honest(a, Payload(a, <<>>), <<>>)
<1>1. Len(<<>>) < OwnIndex(a)
  BY DEF OwnIndex, hostedClusterManifestIndex
<1>2. Payload(a, <<>>) = [available |-> "Unknown", health |-> "False"]
  BY <1>1 DEF Payload, Conditions, OwnIndex
<1> QED
  BY <1>2, NothingReported DEF Honest

LEMMA PayloadIsHonest ==
  ASSUME NEW a \in Adapter, NEW statuses, Len(statuses) = ManifestCount(a)
  PROVE  Honest(a, Payload(a, statuses), statuses[OwnIndex(a)])
<1>1. ~(Len(statuses) < OwnIndex(a))
  BY DEF OwnIndex, ManifestCount, hostedClusterManifestIndex
<1>2. CASE a = "hc"
  BY <1>1, <1>2 DEF Payload, Conditions, OwnIndex, Honest
<1>3. CASE a = "nodepool"
  BY <1>1, <1>3 DEF Payload, Conditions, OwnIndex, Honest
<1> QED
  BY <1>2, <1>3 DEF Adapter

-----------------------------------------------------------------------------
(* The invariant                                                            *)

LEMMA HonestStatus ==
  StatusIsOfOwnResource <=> \A a \in Adapter : Honest(a, entry[a], truth[a])
BY DEF StatusIsOfOwnResource, Honest

LEMMA HonestStatusNext ==
  StatusIsOfOwnResource' <=> \A a \in Adapter : Honest(a, entry'[a], truth'[a])
BY DEF StatusIsOfOwnResource, Honest

LEMMA InitInv == Init => BuildersInv
<1> SUFFICES ASSUME Init PROVE BuildersInv
  OBVIOUS
<1>1. BuildersTypeOK
  BY DEF Init, BuildersTypeOK
<1>2. WorksAreBuilt
  BY DEF Init, WorksAreBuilt, Adapter
<1>3. ReportsFit
  BY DEF Init, ReportsFit
<1>4. AvailableWasUp
  BY DEF Init, AvailableWasUp, SaysUp, PayloadNotFound, Adapter
<1>5. StatusIsOfOwnResource
  <2>1. \A a \in Adapter : entry[a] = PayloadNotFound(a) /\ truth[a] = <<>>
    BY DEF Init
  <2> QED
    BY <2>1, NotFoundIsHonest, HonestStatus
<1>6. NodePoolAfterHostedCluster
  BY DEF Init, NodePoolAfterHostedCluster
<1> QED
  BY <1>1, <1>2, <1>3, <1>4, <1>5, <1>6 DEF BuildersInv

(* An edit leaves everything else, and what was built of earlier generations*)
(* stays built.                                                             *)
LEMMA EditsInv == ASSUME BuildersInv, EditCluster \/ EditNodePool PROVE BuildersInv'
<1>0. UNCHANGED <<works, reported, applied, entry, truth, everUp, built>>
  BY DEF EditCluster, EditNodePool
<1>1. /\ BuildersTypeOK'
      /\ \A g \in 1..cluster.gen : g \in 1..cluster'.gen
      /\ \A g \in 1..npGen : g \in 1..npGen'
  BY <1>0 DEF BuildersInv, BuildersTypeOK, EditCluster, EditNodePool
<1>2. WorksAreBuilt'
  BY <1>0, <1>1 DEF BuildersInv, WorksAreBuilt
<1>3. ReportsFit'
  BY <1>0 DEF BuildersInv, ReportsFit
<1>4. AvailableWasUp'
  BY <1>0 DEF BuildersInv, AvailableWasUp
<1>5. StatusIsOfOwnResource'
  BY <1>0 DEF BuildersInv, StatusIsOfOwnResource
<1>6. NodePoolAfterHostedCluster'
  BY <1>0 DEF BuildersInv, NodePoolAfterHostedCluster
<1> QED
  BY <1>1, <1>2, <1>3, <1>4, <1>5, <1>6 DEF BuildersInv

(* An apply replaces the adapter's own ManifestWork, or leaves it.          *)
LEMMA ApplyReplaces ==
  ASSUME BuildersTypeOK, NEW a \in Adapter, NEW work, Apply(a, work)
  PROVE  /\ UNCHANGED <<cluster, npGen, reported, entry, truth, everUp>>
         /\ applied' = {a}
         /\ DOMAIN works' = Adapter
         /\ \A b \in Adapter : works'[b] = works[b] \/ (b = a /\ works'[b] = work)
BY DEF Apply, BuildersTypeOK

LEMMA HCApplyInv == ASSUME BuildersInv, HCApply PROVE BuildersInv'
<1>0. "hc" \in Adapter /\ "nodepool" \in Adapter /\ "hc" # "nodepool"
  BY DEF Adapter
<1>1. /\ UNCHANGED <<cluster, npGen, reported, entry, truth, everUp, built>>
      /\ applied' = {"hc"}
      /\ DOMAIN works' = Adapter
      /\ \A b \in Adapter : \/ works'[b] = works[b]
                            \/ b = "hc" /\ works'[b] = HCBuild(cluster.gen)
  BY <1>0, ApplyReplaces DEF BuildersInv, HCApply
<1>2. BuildersTypeOK'
  BY <1>0, <1>1 DEF BuildersInv, BuildersTypeOK
<1>3. cluster.gen \in 1..cluster.gen
  BY DEF BuildersInv, BuildersTypeOK
<1>4. WorksAreBuilt'
  BY <1>0, <1>1, <1>3 DEF BuildersInv, WorksAreBuilt
<1>5. ReportsFit' /\ AvailableWasUp' /\ StatusIsOfOwnResource' /\ NodePoolAfterHostedCluster'
  BY <1>1 DEF BuildersInv, ReportsFit, AvailableWasUp, StatusIsOfOwnResource,
     NodePoolAfterHostedCluster
<1> QED
  BY <1>2, <1>4, <1>5 DEF BuildersInv

(* Behind the gate the hosted cluster was reported available, and a NodePool*)
(* refers to just that one.                                                 *)
LEMMA NPApplyInv == ASSUME BuildersInv, NPApply PROVE BuildersInv'
<1>0. "hc" \in Adapter /\ "nodepool" \in Adapter /\ "hc" # "nodepool"
  BY DEF Adapter
<1> DEFINE m == NodePoolManifest(npGen, cluster.subnet)
<1>1. /\ UNCHANGED <<cluster, npGen, reported, entry, truth, everUp>>
      /\ applied' = {"nodepool"}
      /\ DOMAIN works' = Adapter
      /\ \A b \in Adapter : \/ works'[b] = works[b]
                            \/ b = "nodepool" /\ works'[b] = NPBuild(npGen, cluster.subnet)
  BY <1>0, ApplyReplaces DEF BuildersInv, NPApply
<1>2. BuildersTypeOK'
  BY <1>0, <1>1 DEF BuildersInv, BuildersTypeOK
<1>3. npGen \in 1..npGen /\ cluster.subnet \in Subnet
  BY DEF BuildersInv, BuildersTypeOK
<1>4. WorksAreBuilt'
  BY <1>0, <1>1, <1>3 DEF BuildersInv, WorksAreBuilt
<1>5. ReportsFit' /\ AvailableWasUp' /\ StatusIsOfOwnResource'
  BY <1>1 DEF BuildersInv, ReportsFit, AvailableWasUp, StatusIsOfOwnResource
<1>6. NodePoolAfterHostedCluster'
  <2>1. m.namespace = ClusterNS /\ m.clusterName = <<ClusterName>>
    BY DEF NodePoolManifest, NodePoolNS
  <2>2. <<ClusterNS, <<ClusterName>>>> \in everUp
    BY DEF BuildersInv, AvailableWasUp, NPApply
  <2>3. <<m.namespace, m.clusterName>> \in everUp'
    BY <1>1, <2>1, <2>2
  <2>4. built' = built \cup {m}
    BY DEF NPApply
  <2> HIDE DEF m
  <2> QED
    BY <1>1, <2>3, <2>4 DEF BuildersInv, NodePoolAfterHostedCluster
<1> QED
  BY <1>2, <1>4, <1>5, <1>6 DEF BuildersInv

(* The status an adapter PUTs is that of its own resource.                  *)
LEMMA ReportInv == ASSUME BuildersInv, NEW a \in Adapter, Report(a) PROVE BuildersInv'
<1>0. "hc" \in Adapter
  BY DEF Adapter
<1>1. /\ UNCHANGED <<cluster, npGen, works, reported, everUp, built>>
      /\ applied' = {}
  BY DEF Report
<1>2. /\ DOMAIN entry' = Adapter /\ DOMAIN truth' = Adapter
      /\ \A b \in Adapter \ {a} : entry'[b] = entry[b] /\ truth'[b] = truth[b]
      /\ entry'[a] = IF works[a] = NoWork THEN PayloadNotFound(a) ELSE Payload(a, reported[a])
      /\ truth'[a] = Told(a)
  BY DEF Report, BuildersInv, BuildersTypeOK
<1>3. BuildersTypeOK'
  BY <1>1, <1>2 DEF BuildersInv, BuildersTypeOK
<1>4. WorksAreBuilt' /\ ReportsFit' /\ NodePoolAfterHostedCluster'
  BY <1>1 DEF BuildersInv, WorksAreBuilt, ReportsFit, NodePoolAfterHostedCluster
<1>5. Honest(a, entry'[a], truth'[a])
  <2>1. Told(a) = IF works[a] = NoWork \/ reported[a] = <<>> THEN <<>>
                  ELSE reported[a][OwnIndex(a)]
    BY ToldIsAtIndex DEF BuildersInv
  <2>2. CASE works[a] = NoWork
    BY <1>2, <2>1, <2>2, NotFoundIsHonest
  <2>3. CASE works[a] # NoWork /\ reported[a] = <<>>
    BY <1>2, <2>1, <2>3, EmptyIsHonest
  <2>4. CASE works[a] # NoWork /\ reported[a] # <<>>
    <3>1. Len(reported[a]) = ManifestCount(a)
      BY <2>4 DEF BuildersInv, ReportsFit
    <3> QED
      BY <1>2, <2>1, <2>4, <3>1, PayloadIsHonest
  <2> QED
    BY <2>2, <2>3, <2>4
<1>6. StatusIsOfOwnResource'
  BY <1>2, <1>5, HonestStatus, HonestStatusNext DEF BuildersInv
<1>7. AvailableWasUp'
  <2>1. SUFFICES ASSUME a = "hc", entry'["hc"].available = "True"
                 PROVE  <<ClusterNS, <<ClusterName>>>> \in everUp
    BY <1>0, <1>1, <1>2 DEF BuildersInv, AvailableWasUp
  <2>2. works["hc"] # NoWork /\ entry'["hc"] = Payload("hc", reported["hc"])
    BY <1>2, <2>1 DEF PayloadNotFound
  <2>3. reported["hc"] # <<>>
    BY <2>1, <2>2 DEF Payload, Conditions, hostedClusterManifestIndex
  <2>4. Payload("hc", reported["hc"]).available
            = Lookup(reported["hc"][hostedClusterManifestIndex], "availableCondition", "Unknown")
    <3>1. Len(reported["hc"]) = 5
      BY <1>0, <2>3 DEF BuildersInv, ReportsFit, ManifestCount
    <3> QED
      BY <3>1 DEF Payload, Conditions, hostedClusterManifestIndex
  <2>5. SaysUp(reported["hc"])
    BY <2>1, <2>2, <2>3, <2>4 DEF SaysUp, Lookup
  <2> QED
    BY <2>5 DEF BuildersInv, AvailableWasUp
<1> QED
  BY <1>3, <1>4, <1>6, <1>7 DEF BuildersInv

(* A function on 1..n is a list of n.                                       *)
LEMMA ListLength ==
  ASSUME NEW n \in Nat, NEW S, NEW s \in [1..n -> S]
  PROVE  DOMAIN s = 1..n /\ Len(s) = n
OBVIOUS

(* What the agent says of the fourth manifest is about the HostedCluster.   *)
LEMMA AgentReportsInv ==
  ASSUME BuildersInv, NEW a \in Adapter, AgentReports(a) PROVE BuildersInv'
<1>1. UNCHANGED <<cluster, npGen, works, applied, entry, truth, built>> /\ works[a] # NoWork
  BY DEF AgentReports
<1> DEFINE manifests == works[a].manifests
           asked == [i \in DOMAIN manifests |-> Asked(works[a], manifests[i])]
<1>2. PICK there \in BOOLEAN, value \in [UNION Range(asked) -> {"True", "False"}] :
        LET found(i) == IF there THEN [name \in asked[i] |-> value[name]] ELSE <<>> IN
        /\ reported' = [reported EXCEPT ![a] = [i \in DOMAIN manifests |-> found(i)]]
        /\ everUp' = everUp \cup
              {<<manifests[i].namespace, manifests[i].name>> :
                  i \in {j \in DOMAIN manifests :
                            /\ manifests[j].resource = "hostedclusters"
                            /\ Lookup(found(j), "availableCondition", "") = "True"}}
  BY DEF AgentReports
<1> DEFINE found(i) == IF there THEN [name \in asked[i] |-> value[name]] ELSE <<>>
           statuses == [i \in DOMAIN manifests |-> found(i)]
           up == {j \in DOMAIN manifests :
                    /\ manifests[j].resource = "hostedclusters"
                    /\ Lookup(found(j), "availableCondition", "") = "True"}
<1>3. /\ reported' = [reported EXCEPT ![a] = statuses]
      /\ everUp' = everUp \cup {<<manifests[i].namespace, manifests[i].name>> : i \in up}
  BY <1>2
<1>4. DOMAIN manifests = 1..ManifestCount(a)
  BY <1>1, OwnIsAtIndex DEF BuildersInv
<1>5. DOMAIN statuses = 1..ManifestCount(a) /\ Len(statuses) = ManifestCount(a)
  <2>1. ManifestCount(a) \in Nat
    BY DEF ManifestCount
  <2>2. PICK S : S = {found(i) : i \in DOMAIN manifests}
    OBVIOUS
  <2>3. statuses \in [1..ManifestCount(a) -> S]
    BY <1>4, <2>2
  <2> HIDE DEF statuses
  <2> QED
    BY <2>1, <2>3, ListLength
<1>6. \A i \in DOMAIN manifests : statuses[i] = found(i)
  OBVIOUS
<1>7. a = "hc" /\ SaysUp(statuses) => <<ClusterNS, <<ClusterName>>>> \in everUp'
  <2> SUFFICES ASSUME a = "hc", SaysUp(statuses)
               PROVE  <<ClusterNS, <<ClusterName>>>> \in everUp'
    OBVIOUS
  <2>1. PICK g : works[a] = HCBuild(g)
    BY <1>1 DEF BuildersInv, WorksAreBuilt
  <2>2. PICK m : m = manifests
    OBVIOUS
  <2>3. m = HCBuild(g).manifests
    BY <2>1, <2>2
  <2> HIDE DEF manifests
  <2>4. /\ m[4].resource = "hostedclusters"
        /\ m[4].namespace = ClusterNS /\ m[4].name = <<ClusterName>>
    BY <2>3, HostedClusterIsFourth
  <2>5. 4 \in DOMAIN manifests
    BY <1>4 DEF ManifestCount
  <2>6. Lookup(statuses[4], "availableCondition", "") = "True"
    BY DEF SaysUp, hostedClusterManifestIndex
  <2>7. Lookup(found(4), "availableCondition", "") = "True"
    BY <1>6, <2>5, <2>6
  <2>8. 4 \in up
    BY <2>2, <2>4, <2>5, <2>7
  <2> HIDE DEF up
  <2>9. <<manifests[4].namespace, manifests[4].name>> \in everUp'
    BY <1>3, <2>8
  <2> QED
    BY <2>2, <2>4, <2>9
<1> HIDE DEF statuses, up
<1>8. /\ DOMAIN reported' = Adapter
      /\ \A b \in Adapter \ {a} : reported'[b] = reported[b]
      /\ reported'[a] = statuses
      /\ everUp \subseteq everUp'
  BY <1>3 DEF BuildersInv, BuildersTypeOK
<1>9. BuildersTypeOK'
  BY <1>1, <1>8 DEF BuildersInv, BuildersTypeOK
<1>10. WorksAreBuilt' /\ StatusIsOfOwnResource'
  BY <1>1 DEF BuildersInv, WorksAreBuilt, StatusIsOfOwnResource
<1>11. ReportsFit'
  BY <1>5, <1>8 DEF BuildersInv, ReportsFit
<1>12. AvailableWasUp'
  <2>1. "hc" \in Adapter
    BY DEF Adapter
  <2> QED
    BY <1>1, <1>7, <1>8, <2>1 DEF BuildersInv, AvailableWasUp
<1>13. NodePoolAfterHostedCluster'
  BY <1>1, <1>8 DEF BuildersInv, NodePoolAfterHostedCluster
<1> QED
  BY <1>9, <1>10, <1>11, <1>12, <1>13 DEF BuildersInv

(* Entries and what was ever up outlive the ManifestWork.                   *)
LEMMA RemoveWorkInv ==
  ASSUME BuildersInv, NEW a \in Adapter, RemoveWork(a) PROVE BuildersInv'
<1>0. "hc" \in Adapter /\ "nodepool" \in Adapter
  BY DEF Adapter
<1>1. /\ UNCHANGED <<cluster, npGen, applied, entry, truth, everUp, built>>
      /\ DOMAIN works' = Adapter /\ DOMAIN reported' = Adapter
      /\ works'[a] = NoWork /\ reported'[a] = <<>>
      /\ \A b \in Adapter \ {a} : works'[b] = works[b] /\ reported'[b] = reported[b]
  BY DEF RemoveWork, BuildersInv, BuildersTypeOK
<1>2. BuildersTypeOK'
  BY <1>1 DEF BuildersInv, BuildersTypeOK
<1>3. WorksAreBuilt'
  BY <1>0, <1>1 DEF BuildersInv, WorksAreBuilt
<1>4. ReportsFit'
  BY <1>1 DEF BuildersInv, ReportsFit
<1>5. AvailableWasUp'
  BY <1>0, <1>1 DEF BuildersInv, AvailableWasUp, SaysUp
<1>6. StatusIsOfOwnResource' /\ NodePoolAfterHostedCluster'
  BY <1>1 DEF BuildersInv, StatusIsOfOwnResource, NodePoolAfterHostedCluster
<1> QED
  BY <1>2, <1>3, <1>4, <1>5, <1>6 DEF BuildersInv

LEMMA NextInv == BuildersInv /\ [Next]_vars => BuildersInv'
<1> SUFFICES ASSUME BuildersInv, [Next]_vars PROVE BuildersInv'
  OBVIOUS
<1>1. CASE EditCluster \/ EditNodePool
  BY <1>1, EditsInv
<1>2. CASE HCApply
  BY <1>2, HCApplyInv
<1>3. CASE NPApply
  BY <1>3, NPApplyInv
<1>4. ASSUME NEW a \in Adapter, Report(a) \/ AgentReports(a) \/ RemoveWork(a)
      PROVE  BuildersInv'
  BY <1>4, ReportInv, AgentReportsInv, RemoveWorkInv
<1>5. CASE UNCHANGED vars
  BY <1>5 DEF vars, BuildersInv, BuildersTypeOK, WorksAreBuilt, ReportsFit, AvailableWasUp,
     StatusIsOfOwnResource, NodePoolAfterHostedCluster
<1> QED
  BY <1>1, <1>2, <1>3, <1>4, <1>5 DEF Next

-----------------------------------------------------------------------------
(* Maestro has what was built, reports fit it, entries say what was         *)
(* reported, and whatever is available was up, in every state.              *)
THEOREM BuildersInvariantHolds == Spec => []BuildersInv
BY InitInv, NextInv, PTL DEF Spec

(* Rules and manifests are two lists in two packages that name each other   *)
(* by kind, namespace and name: each rule meets exactly one manifest, in    *)
(* ManifestWorks of every generation.                                       *)
THEOREM RulesAlwaysMeet == Spec => []RulesMeetManifests
<1>1. BuildersInv => RulesMeetManifests
  BY BuiltWorksMeet DEF BuildersInv
<1> QED
  BY <1>1, BuildersInvariantHolds, PTL

(* The reconcilers look the feedback up by a position; still, what they     *)
(* report is what was reported on the HostedCluster or the NodePool.        *)
THEOREM StatusIsOwn == Spec => []StatusIsOfOwnResource
<1>1. BuildersInv => StatusIsOfOwnResource
  BY DEF BuildersInv
<1> QED
  BY <1>1, BuildersInvariantHolds, PTL

(* A NodePool goes out only after the HostedCluster it refers to, by a name *)
(* and a namespace the two builders compose separately, was available.      *)
THEOREM HostedClusterFirst == Spec => []NodePoolAfterHostedCluster
<1>1. BuildersInv => NodePoolAfterHostedCluster
  BY DEF BuildersInv
<1> QED
  BY <1>1, BuildersInvariantHolds, PTL
=============================================================================
