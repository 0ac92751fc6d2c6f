------------------------------ MODULE Pipeline ------------------------------
(***************************************************************************)
(* The five adapters and what they share: the HyperFleet API's clusters,   *)
(* node pools and status entries, and the ManifestWorks in Maestro. Each   *)
(* reconcile is a sequence of calls; every call is a step of its own, so   *)
(* that what was read may be stale by the time it is used.                 *)
(*                                                                         *)
(* A process never runs two reconciles of one key (WorkQueue) and starts   *)
(* one whenever an event or a timer brings the key (AdapterProcess); here  *)
(* a reconcile of an existing resource may start at any moment. A PUT to   *)
(* the API or a write to Maestro that its caller has given up may still    *)
(* land. A release image stands for the version it was resolved from, a    *)
(* base domain for the management cluster it was selected with.            *)
(***************************************************************************)
EXTENDS Naturals, Sequences, FiniteSets

CONSTANTS
    Cluster, NodePool,   \* ids of hosted clusters and of their node pools
    Owner,               \* [NodePool -> Cluster], NodePoolDetail.ClusterID
    MC,                  \* management clusters, the candidates of the placement adapter
    Version,             \* release versions Cincinnati knows
    NoVersion, NoMC,     \* the empty string
    Requested,           \* what specs ask for: versions, or NoVersion
    Process,             \* overlapping replicas of each adapter; normally one
    MaxGeneration,       \* [Resource -> Nat], bound: generations of each resource
    MaxFailures,         \* bound: reconciles that end in an error or a crash
    MaxDelays            \* bound: PUTs that land after their caller gave them up

Resource == Cluster \cup NodePool

ASSUME ConstantAssumption ==
    /\ Cluster \cap NodePool = {}
    /\ Owner \in [NodePool -> Cluster]
    /\ NoVersion \notin Version
    /\ Requested \subseteq Version \cup {NoVersion}
    /\ NoMC \notin MC
    /\ MaxGeneration \in [Resource -> Nat] /\ MaxFailures \in Nat /\ MaxDelays \in Nat

VARIABLES
    spec,        \* [Resource -> [gen, version]], gen 0 while the resource does not exist
    reconciled,  \* the clusters whose Reconciled condition is True
    vr,          \* [Resource -> Version or NoVersion], (nodepool-)vr-adapter's entry
    placement,   \* [Cluster -> MC or NoMC], placement-adapter's entry
    status,      \* [Resource -> [gen, available]], hc-adapter's or nodepool-adapter's entry
    work,        \* [MC -> [Resource -> [gen, version]]], gen 0 where there is no ManifestWork
    feedback,    \* [MC -> [Resource -> "none", "True" or "False"]], what the MC last reported
    vrJob, placeJob, hcJob, npJob,   \* the reconciles in progress, per process and key
    late, delays,  \* the status PUTs in flight after a timeout, and how many there were
    lateWork,      \* the writes to Maestro given up by their callers that may still land
    failures,      \* the failures so far
    versionAt,     \* history: [Resource -> Seq], the version of each generation
    everPlaced,    \* history: each cluster's recorded placements
    highest        \* history: [MC -> [Resource -> Nat]], the highest generation applied

envVars == <<spec, versionAt>>
statusVars == <<vr, placement, status, reconciled, everPlaced>>
maestroVars == <<work, feedback, highest>>
jobVars == <<vrJob, placeJob, hcJob, npJob>>
faultVars == <<late, delays, lateWork, failures>>

vars == <<envVars, statusVars, maestroVars, jobVars, faultVars>>

Availability == {"none", "Unknown", "True", "False"}

VRJob == [at : {"idle", "statuses", "put"}, version : Version \cup {NoVersion}]
PlaceJob == [at : {"idle", "statuses", "put"}, mc : MC \cup {NoMC}]
ApplyJob == [at : {"idle", "cluster", "statuses", "apply", "create", "patch",
                   "feedback", "put"},
             gen : Nat, version : Version \cup {NoVersion}, mc : MC \cup {NoMC},
             available : Availability]

\* The body of PUT .../statuses: one entry per adapter and resource.
Payload ==
    [adapter : {"vr"}, of : Resource, value : Version]
        \cup [adapter : {"placement"}, of : Cluster, value : MC]
        \cup [adapter : {"hc"}, of : Cluster, value : [gen : Nat, available : Availability]]
        \cup [adapter : {"nodepool"}, of : NodePool,
              value : [gen : Nat, available : Availability]]

\* A create or patch in flight to Maestro.
WorkRequest ==
    [mc : MC, of : Resource, at : {"create", "patch"}, gen : Nat,
     version : Version \cup {NoVersion}]

TypeOK ==
    /\ spec \in [Resource -> [gen : Nat, version : Version \cup {NoVersion}]]
    /\ reconciled \subseteq Cluster
    /\ vr \in [Resource -> Version \cup {NoVersion}]
    /\ placement \in [Cluster -> MC \cup {NoMC}]
    /\ status \in [Resource -> [gen : Nat, available : Availability]]
    /\ work \in [MC -> [Resource -> [gen : Nat, version : Version \cup {NoVersion}]]]
    /\ feedback \in [MC -> [Resource -> {"none", "True", "False"}]]
    /\ vrJob \in [Process -> [Resource -> VRJob]]
    /\ placeJob \in [Process -> [Cluster -> PlaceJob]]
    /\ hcJob \in [Process -> [Cluster -> ApplyJob]]
    /\ npJob \in [Process -> [NodePool -> ApplyJob]]
    /\ late \subseteq Payload
    /\ delays \in 0..MaxDelays
    /\ lateWork \subseteq WorkRequest
    /\ failures \in 0..MaxFailures
    /\ versionAt \in [Resource -> Seq(Version \cup {NoVersion})]
    /\ everPlaced \in [Cluster -> SUBSET MC]
    /\ highest \in [MC -> [Resource -> Nat]]

IdleVR == [at |-> "idle", version |-> NoVersion]
IdlePlace == [at |-> "idle", mc |-> NoMC]
IdleApply ==
    [at |-> "idle", gen |-> 0, version |-> NoVersion, mc |-> NoMC, available |-> "none"]
NoWork == [gen |-> 0, version |-> NoVersion]

Init ==
    /\ spec = [r \in Resource |-> [gen |-> 0, version |-> NoVersion]]
    /\ reconciled = {}
    /\ vr = [r \in Resource |-> NoVersion]
    /\ placement = [c \in Cluster |-> NoMC]
    /\ status = [r \in Resource |-> [gen |-> 0, available |-> "none"]]
    /\ work = [m \in MC |-> [r \in Resource |-> NoWork]]
    /\ feedback = [m \in MC |-> [r \in Resource |-> "none"]]
    /\ vrJob = [p \in Process |-> [r \in Resource |-> IdleVR]]
    /\ placeJob = [p \in Process |-> [c \in Cluster |-> IdlePlace]]
    /\ hcJob = [p \in Process |-> [c \in Cluster |-> IdleApply]]
    /\ npJob = [p \in Process |-> [n \in NodePool |-> IdleApply]]
    /\ late = {}
    /\ delays = 0
    /\ lateWork = {}
    /\ failures = 0
    /\ versionAt = [r \in Resource |-> <<>>]
    /\ everPlaced = [c \in Cluster |-> {}]
    /\ highest = [m \in MC |-> [r \in Resource |-> 0]]

Exists(r) == spec[r].gen > 0

\* The cluster whose placement decides where r goes.
Home(r) == IF r \in Cluster THEN r ELSE Owner[r]

-----------------------------------------------------------------------------
(* The users of the HyperFleet API and the management clusters (external)   *)

\* A resource is created, or its spec is edited: the API counts generations
\* and takes the Reconciled condition back.
EditSpec(r) ==
    /\ spec[r].gen < MaxGeneration[r]
    /\ r \in NodePool => Exists(Owner[r])
    /\ \E v \in Requested :
          /\ spec' = [spec EXCEPT ![r] = [gen |-> @.gen + 1, version |-> v]]
          /\ versionAt' = [versionAt EXCEPT ![r] = Append(@, v)]
    /\ reconciled' = reconciled \ {r}
    /\ UNCHANGED <<vr, placement, status, everPlaced, maestroVars, jobVars, faultVars>>

\* What the API may derive Reconciled from: the hosted cluster was reported
\* available at the cluster's generation.
HCDone(entry, c) == entry[c] = [gen |-> spec[c].gen, available |-> "True"]

MarkReconciled(c) ==
    /\ Exists(c)
    /\ HCDone(status, c)
    /\ c \notin reconciled
    /\ reconciled' = reconciled \cup {c}
    /\ UNCHANGED <<envVars, vr, placement, status, everPlaced, maestroVars, jobVars, faultVars>>

\* The agent of a management cluster reports on the resource of a ManifestWork.
AgentReports(m, r) ==
    /\ work[m][r] # NoWork
    /\ \E a \in {"True", "False"} \ {feedback[m][r]} : feedback' = [feedback EXCEPT ![m][r] = a]
    /\ UNCHANGED <<envVars, statusVars, work, highest, jobVars, faultVars>>

-----------------------------------------------------------------------------
(* PUT .../statuses                                                         *)

\* The API replaces the adapter's entry for the resource.
Store(x) ==
    /\ IF x.adapter = "vr" THEN vr' = [vr EXCEPT ![x.of] = x.value] ELSE UNCHANGED vr
    /\ IF x.adapter = "placement"
       THEN /\ placement' = [placement EXCEPT ![x.of] = x.value]
            /\ everPlaced' = [everPlaced EXCEPT ![x.of] = @ \cup {x.value}]
       ELSE UNCHANGED <<placement, everPlaced>>
    /\ IF x.adapter \in {"hc", "nodepool"}
       THEN status' = [status EXCEPT ![x.of] = x.value]
       ELSE UNCHANGED status
    /\ reconciled' = {c \in reconciled : HCDone(status', c)}

\* A PUT that times out at the client may land at once or later, and its retry
\* may make it land twice: the copy in flight lands whenever it likes.
Put(x) ==
    \/ Store(x) /\ UNCHANGED <<late, delays>>
    \/ /\ delays < MaxDelays
       /\ delays' = delays + 1
       /\ late' = late \cup {x}
       /\ Store(x) \/ UNCHANGED statusVars

LandLate ==
    /\ \E x \in late : Store(x) /\ late' = late \ {x}
    /\ UNCHANGED <<envVars, maestroVars, jobVars, delays, lateWork, failures>>

-----------------------------------------------------------------------------
(* version-resolution and nodepool-vr: Reconcile                            *)

VRIs(p, r, j) == vrJob' = [vrJob EXCEPT ![p][r] = j]

\* GET the resource: not found, already Reconciled (clusters only) and no
\* version are returns; otherwise the version is kept for the rest of the run.
VRGet(p, r) ==
    /\ vrJob[p][r].at = "idle"
    /\ Exists(r)
    /\ r \notin reconciled
    /\ spec[r].version # NoVersion
    /\ VRIs(p, r, [at |-> "statuses", version |-> spec[r].version])
    /\ UNCHANGED <<envVars, statusVars, maestroVars, placeJob, hcJob, npJob, faultVars>>

\* GET the statuses: done if this version is already resolved. Resolving it
\* asks Cincinnati and changes nothing; an unknown version is Fail below.
VRCheck(p, r) ==
    LET j == vrJob[p][r] IN
    /\ j.at = "statuses"
    /\ VRIs(p, r, IF vr[r] = j.version THEN IdleVR ELSE [j EXCEPT !.at = "put"])
    /\ UNCHANGED <<envVars, statusVars, maestroVars, placeJob, hcJob, npJob, faultVars>>

VRPut(p, r) ==
    LET j == vrJob[p][r] IN
    /\ j.at = "put"
    /\ Put([adapter |-> "vr", of |-> r, value |-> j.version])
    /\ VRIs(p, r, IdleVR)
    /\ UNCHANGED <<envVars, maestroVars, placeJob, hcJob, npJob, lateWork, failures>>

VRStep(p, r) == VRGet(p, r) \/ VRCheck(p, r) \/ VRPut(p, r)

-----------------------------------------------------------------------------
(* placement: Reconcile                                                     *)

PlaceIs(p, c, j) == placeJob' = [placeJob EXCEPT ![p][c] = j]

PlaceGet(p, c) ==
    /\ placeJob[p][c].at = "idle"
    /\ Exists(c)
    /\ c \notin reconciled
    /\ PlaceIs(p, c, [IdlePlace EXCEPT !.at = "statuses"])
    /\ UNCHANGED <<envVars, statusVars, maestroVars, vrJob, hcJob, npJob, faultVars>>

\* Mutant of PlaceCheck: a placed cluster is placed again.
PlaceCheckAlways(p, c) ==
    /\ placeJob[p][c].at = "statuses"
    /\ \E m \in MC : PlaceIs(p, c, [at |-> "put", mc |-> m])
    /\ UNCHANGED <<envVars, statusVars, maestroVars, vrJob, hcJob, npJob, faultVars>>

\* A cluster that is placed stays where it is; otherwise the selector picks any
\* candidate.
PlaceCheck(p, c) ==
    /\ placeJob[p][c].at = "statuses"
    /\ IF placement[c] # NoMC
       THEN PlaceIs(p, c, IdlePlace)
       ELSE \E m \in MC : PlaceIs(p, c, [at |-> "put", mc |-> m])
    /\ UNCHANGED <<envVars, statusVars, maestroVars, vrJob, hcJob, npJob, faultVars>>

PlacePut(p, c) ==
    LET j == placeJob[p][c] IN
    /\ j.at = "put"
    /\ Put([adapter |-> "placement", of |-> c, value |-> j.mc])
    /\ PlaceIs(p, c, IdlePlace)
    /\ UNCHANGED <<envVars, maestroVars, vrJob, hcJob, npJob, lateWork, failures>>

PlaceStep(p, c) == PlaceGet(p, c) \/ PlaceCheck(p, c) \/ PlacePut(p, c)

-----------------------------------------------------------------------------
(* Maestro: what hc and nodepool ask of it                                  *)

\* Mutant of Decision: a ManifestWork that exists is left alone.
DecisionCreateOnly(m, r, j) == IF work[m][r] = NoWork THEN "create" ELSE "feedback"

\* ApplyManifestWork reads the ManifestWork and decides: create it, skip it at an
\* equal generation, or patch it, whether its generation is higher or lower.
Decision(m, r, j) ==
    IF work[m][r] = NoWork THEN "create"
    ELSE IF work[m][r].gen = j.gen THEN "feedback"
    ELSE "patch"

\* What a reconcile applies: the generation annotation and, in the HostedCluster
\* or NodePool, the release image.
Manifest(j) == [gen |-> j.gen, version |-> j.version]

\* It then does what it decided. Creating a ManifestWork that exists meanwhile is
\* an error.
Written(m, r, j) ==
    IF j.at = "create" /\ work[m][r] # NoWork
    THEN work
    ELSE [work EXCEPT ![m][r] = Manifest(j)]

\* What Maestro has from then on, and the record of it.
Write(m, r, j) ==
    /\ work' = Written(m, r, j)
    /\ highest' = [highest EXCEPT ![m][r] = IF @ < work'[m][r].gen THEN work'[m][r].gen ELSE @]

AfterWrite(m, r, j) ==
    IF j.at = "create" /\ work[m][r] # NoWork
    THEN IdleApply
    ELSE [j EXCEPT !.at = "feedback"]

\* Mutant of Observed: available until the status feedback says otherwise.
ObservedOptimistic(m, r) == IF feedback[m][r] = "none" THEN "True" ELSE feedback[m][r]

\* GetStatus and buildStatusPayload: the status feedback of the resource, or
\* Unknown while there is none. Nothing says which generation it is about.
Observed(m, r) == IF feedback[m][r] = "none" THEN "Unknown" ELSE feedback[m][r]

-----------------------------------------------------------------------------
(* hc: Reconcile                                                            *)

HCIs(p, c, j) == hcJob' = [hcJob EXCEPT ![p][c] = j]

\* Mutant of HCGet: the cluster comes from a cache that may be behind.
HCGetCached(p, c) ==
    /\ hcJob[p][c].at = "idle"
    /\ Exists(c)
    /\ c \notin reconciled
    /\ \E g \in 1..spec[c].gen :
          HCIs(p, c, [IdleApply EXCEPT !.at = "statuses", !.gen = g,
                                       !.version = versionAt[c][g]])
    /\ UNCHANGED <<envVars, statusVars, maestroVars, vrJob, placeJob, npJob, faultVars>>

HCGet(p, c) ==
    /\ hcJob[p][c].at = "idle"
    /\ Exists(c)
    /\ c \notin reconciled
    /\ HCIs(p, c, [IdleApply EXCEPT !.at = "statuses", !.gen = spec[c].gen,
                                    !.version = spec[c].version])
    /\ UNCHANGED <<envVars, statusVars, maestroVars, vrJob, placeJob, npJob, faultVars>>

\* Mutant of HCGate: with the nodepool gate's condition, hc waits for its own report.
HCGateWhenAvailable(c, version) ==
    placement[c] # NoMC /\ status[c].available = "True" /\ vr[c] # NoVersion /\ vr[c] = version

\* Mutant of HCGate: resolved, for whatever version.
HCGateAnyVersion(c, version) == placement[c] # NoMC /\ vr[c] # NoVersion

\* The gate: placed, resolved, and resolved for the version that was read.
HCGate(c, version) ==
    /\ placement[c] # NoMC
    /\ vr[c] # NoVersion
    /\ vr[c] = version

\* manifest.Build: the ManifestWork, for the cluster's management cluster, with
\* the generation that was read and the image of the resolved version.
HCBuilt(c, j) == [j EXCEPT !.at = "apply", !.mc = placement[c], !.version = vr[c]]

\* Mutant of HCCheck: a cluster without a placement goes to a default one.
HCCheckDefaultMC(p, c) ==
    LET j == hcJob[p][c] IN
    /\ j.at = "statuses"
    /\ HCIs(p, c, IF vr[c] # NoVersion /\ vr[c] = j.version
                  THEN [j EXCEPT !.at = "apply", !.mc = CHOOSE m \in MC : TRUE]
                  ELSE IdleApply)
    /\ UNCHANGED <<envVars, statusVars, maestroVars, vrJob, placeJob, npJob, faultVars>>

\* GET the statuses: waits for Sentinel unless the gate is passed.
HCCheck(p, c) ==
    LET j == hcJob[p][c] IN
    /\ j.at = "statuses"
    /\ HCIs(p, c, IF HCGate(c, j.version) THEN HCBuilt(c, j) ELSE IdleApply)
    /\ UNCHANGED <<envVars, statusVars, maestroVars, vrJob, placeJob, npJob, faultVars>>

HCDecide(p, c) ==
    LET j == hcJob[p][c] IN
    /\ j.at = "apply"
    /\ HCIs(p, c, [j EXCEPT !.at = Decision(j.mc, c, j)])
    /\ UNCHANGED <<envVars, statusVars, maestroVars, vrJob, placeJob, npJob, faultVars>>

HCWrite(p, c) ==
    LET j == hcJob[p][c] IN
    /\ j.at \in {"create", "patch"}
    /\ Write(j.mc, c, j)
    /\ HCIs(p, c, AfterWrite(j.mc, c, j))
    /\ UNCHANGED <<envVars, statusVars, feedback, vrJob, placeJob, npJob, faultVars>>

HCFeedback(p, c) ==
    LET j == hcJob[p][c] IN
    /\ j.at = "feedback"
    /\ HCIs(p, c, [j EXCEPT !.at = "put", !.available = Observed(j.mc, c)])
    /\ UNCHANGED <<envVars, statusVars, maestroVars, vrJob, placeJob, npJob, faultVars>>

\* Mutant of HCPut: the generation reported is read again.
HCPutFreshGeneration(p, c) ==
    LET j == hcJob[p][c] IN
    /\ j.at = "put"
    /\ Put([adapter |-> "hc", of |-> c,
            value |-> [gen |-> spec[c].gen, available |-> j.available]])
    /\ HCIs(p, c, IdleApply)
    /\ UNCHANGED <<envVars, maestroVars, vrJob, placeJob, npJob, lateWork, failures>>

HCPut(p, c) ==
    LET j == hcJob[p][c] IN
    /\ j.at = "put"
    /\ Put([adapter |-> "hc", of |-> c, value |-> [gen |-> j.gen, available |-> j.available]])
    /\ HCIs(p, c, IdleApply)
    /\ UNCHANGED <<envVars, maestroVars, vrJob, placeJob, npJob, lateWork, failures>>

HCStep(p, c) ==
    \/ HCGet(p, c) \/ HCCheck(p, c) \/ HCDecide(p, c)
    \/ HCWrite(p, c) \/ HCFeedback(p, c) \/ HCPut(p, c)

-----------------------------------------------------------------------------
(* nodepool: Reconcile. It does not look at Reconciled.                     *)

NPIs(p, n, j) == npJob' = [npJob EXCEPT ![p][n] = j]

\* Mutant of NPGet: it does look at Reconciled, as the other adapters do.
NPGetUnlessReconciled(p, n) ==
    /\ npJob[p][n].at = "idle"
    /\ Exists(n)
    /\ Owner[n] \notin reconciled
    /\ NPIs(p, n, [IdleApply EXCEPT !.at = "cluster", !.gen = spec[n].gen,
                                    !.version = spec[n].version])
    /\ UNCHANGED <<envVars, statusVars, maestroVars, vrJob, placeJob, hcJob, faultVars>>

NPGet(p, n) ==
    /\ npJob[p][n].at = "idle"
    /\ Exists(n)
    /\ NPIs(p, n, [IdleApply EXCEPT !.at = "cluster", !.gen = spec[n].gen,
                                    !.version = spec[n].version])
    /\ UNCHANGED <<envVars, statusVars, maestroVars, vrJob, placeJob, hcJob, faultVars>>

\* GET the cluster and its statuses: where it is placed, whether it is available.
NPCluster(p, n) ==
    LET j == npJob[p][n] IN
    /\ j.at = "cluster"
    /\ NPIs(p, n, [j EXCEPT !.at = "statuses", !.mc = placement[Owner[n]],
                            !.available = status[Owner[n]].available])
    /\ UNCHANGED <<envVars, statusVars, maestroVars, vrJob, placeJob, hcJob, faultVars>>

\* Mutant of NPGate: the hosted cluster need not be available.
NPGateAnyCluster(n, j) == j.mc # NoMC /\ vr[n] # NoVersion /\ vr[n] = j.version

\* The gate: the cluster placed and available when it was read, and the node
\* pool resolved for the version that was read.
NPGate(n, j) ==
    /\ j.mc # NoMC
    /\ j.available = "True"
    /\ vr[n] # NoVersion
    /\ vr[n] = j.version

\* manifest.Build, as for hc; the placement was read with the cluster.
NPBuilt(n, j) == [j EXCEPT !.at = "apply", !.version = vr[n]]

\* GET the node pool's statuses: waits for Sentinel unless the gate is passed.
NPCheck(p, n) ==
    LET j == npJob[p][n] IN
    /\ j.at = "statuses"
    /\ NPIs(p, n, IF NPGate(n, j) THEN NPBuilt(n, j) ELSE IdleApply)
    /\ UNCHANGED <<envVars, statusVars, maestroVars, vrJob, placeJob, hcJob, faultVars>>

NPDecide(p, n) ==
    LET j == npJob[p][n] IN
    /\ j.at = "apply"
    /\ NPIs(p, n, [j EXCEPT !.at = Decision(j.mc, n, j)])
    /\ UNCHANGED <<envVars, statusVars, maestroVars, vrJob, placeJob, hcJob, faultVars>>

NPWrite(p, n) ==
    LET j == npJob[p][n] IN
    /\ j.at \in {"create", "patch"}
    /\ Write(j.mc, n, j)
    /\ NPIs(p, n, AfterWrite(j.mc, n, j))
    /\ UNCHANGED <<envVars, statusVars, feedback, vrJob, placeJob, hcJob, faultVars>>

NPFeedback(p, n) ==
    LET j == npJob[p][n] IN
    /\ j.at = "feedback"
    /\ NPIs(p, n, [j EXCEPT !.at = "put", !.available = Observed(j.mc, n)])
    /\ UNCHANGED <<envVars, statusVars, maestroVars, vrJob, placeJob, hcJob, faultVars>>

\* Mutant of NPPut: the generation reported is read again.
NPPutFreshGeneration(p, n) ==
    LET j == npJob[p][n] IN
    /\ j.at = "put"
    /\ Put([adapter |-> "nodepool", of |-> n,
            value |-> [gen |-> spec[n].gen, available |-> j.available]])
    /\ NPIs(p, n, IdleApply)
    /\ UNCHANGED <<envVars, maestroVars, vrJob, placeJob, hcJob, lateWork, failures>>

NPPut(p, n) ==
    LET j == npJob[p][n] IN
    /\ j.at = "put"
    /\ Put([adapter |-> "nodepool", of |-> n,
            value |-> [gen |-> j.gen, available |-> j.available]])
    /\ NPIs(p, n, IdleApply)
    /\ UNCHANGED <<envVars, maestroVars, vrJob, placeJob, hcJob, lateWork, failures>>

NPStep(p, n) ==
    \/ NPGet(p, n) \/ NPCluster(p, n) \/ NPCheck(p, n)
    \/ NPDecide(p, n) \/ NPWrite(p, n) \/ NPFeedback(p, n) \/ NPPut(p, n)

-----------------------------------------------------------------------------
(* Failures: a call returns an error, the context is cancelled, or the      *)
(* process dies. The reconcile ends where it is; what it had written stays, *)
(* and what it was writing may still land. A reconcile that waits for       *)
(* Sentinel leaves the same way.                                            *)

VRFail(p, r) ==
    /\ vrJob[p][r] # IdleVR
    /\ VRIs(p, r, IdleVR)
    /\ UNCHANGED <<placeJob, hcJob, npJob, lateWork>>

PlaceFail(p, c) ==
    /\ placeJob[p][c] # IdlePlace
    /\ PlaceIs(p, c, IdlePlace)
    /\ UNCHANGED <<vrJob, hcJob, npJob, lateWork>>

\* The write to Maestro that a job was about to do, if it was about to do one.
NextWrite(r, j) ==
    {[mc |-> j.mc, of |-> r, at |-> a, gen |-> j.gen, version |-> j.version] :
        a \in {"create", "patch"} \cap {j.at}}

HCFail(p, c) ==
    LET j == hcJob[p][c] IN
    /\ j # IdleApply
    /\ HCIs(p, c, IdleApply)
    /\ lateWork' \in {lateWork, lateWork \cup NextWrite(c, j)}
    /\ UNCHANGED <<vrJob, placeJob, npJob>>

NPFail(p, n) ==
    LET j == npJob[p][n] IN
    /\ j # IdleApply
    /\ NPIs(p, n, IdleApply)
    /\ lateWork' \in {lateWork, lateWork \cup NextWrite(n, j)}
    /\ UNCHANGED <<vrJob, placeJob, hcJob>>

Fail ==
    /\ failures < MaxFailures
    /\ failures' = failures + 1
    /\ \E p \in Process :
          \/ \E r \in Resource : VRFail(p, r)
          \/ \E c \in Cluster : PlaceFail(p, c) \/ HCFail(p, c)
          \/ \E n \in NodePool : NPFail(p, n)
    /\ UNCHANGED <<envVars, statusVars, maestroVars, late, delays>>

\* A create or patch that its caller has given up lands after all, over whatever
\* Maestro has by then; a create finds that nothing is to be created any more.
LandWork ==
    /\ \E x \in lateWork : Write(x.mc, x.of, x) /\ lateWork' = lateWork \ {x}
    /\ UNCHANGED <<envVars, statusVars, feedback, jobVars, late, delays, failures>>

Next ==
    \/ \E r \in Resource : EditSpec(r)
    \/ \E c \in Cluster : MarkReconciled(c)
    \/ \E m \in MC, r \in Resource : AgentReports(m, r)
    \/ \E p \in Process, r \in Resource : VRStep(p, r)
    \/ \E p \in Process, c \in Cluster : PlaceStep(p, c) \/ HCStep(p, c)
    \/ \E p \in Process, n \in NodePool : NPStep(p, n)
    \/ LandLate
    \/ LandWork
    \/ Fail

\* Sentinel republishes an unreconciled resource every few seconds (README.md),
\* so a reconcile of it starts again and again, and goes on until it returns.
\* Nothing forces an edit, an answer of a management cluster, a failure or a late
\* write to Maestro.
Fairness ==
    /\ \A p \in Process, r \in Resource : WF_vars(VRStep(p, r))
    /\ \A p \in Process, c \in Cluster : WF_vars(PlaceStep(p, c)) /\ WF_vars(HCStep(p, c))
    /\ \A p \in Process, n \in NodePool : WF_vars(NPStep(p, n))
    /\ WF_vars(LandLate)

SafeSpec == Init /\ [][Next]_vars

Spec == SafeSpec /\ Fairness

-----------------------------------------------------------------------------
(* Properties                                                               *)

\* Whatever the interleaving of edits, resolutions and applies, a ManifestWork
\* carries the image of the version its generation asks for: hc and nodepool
\* read the spec and the resolved version in two calls.
WorkMatchesGeneration ==
    \A m \in MC, r \in Resource :
        work[m][r] # NoWork =>
            /\ work[m][r].version = versionAt[r][work[m][r].gen]
            /\ work[m][r].version # NoVersion

\* A ManifestWork only goes to a management cluster that was recorded as the
\* placement of the cluster, or of the node pool's cluster.
WorkWherePlaced ==
    \A m \in MC, r \in Resource : work[m][r] # NoWork => m \in everPlaced[Home(r)]

\* What a reconcile of r carries from one call to the next stays true of the
\* resource while others go on: a generation with the version it asked for, the
\* resolved version once the gate has been passed, a recorded placement.
JobSound(r, j) ==
    /\ j.at # "idle" =>
          /\ j.gen \in 1..spec[r].gen
          /\ j.version = versionAt[r][j.gen]
    /\ j.at \in {"apply", "create", "patch", "feedback", "put"} => j.version # NoVersion
    /\ j.mc # NoMC => j.mc \in everPlaced[Home(r)]
    /\ j.at \in {"apply", "create", "patch", "feedback", "put"} => j.mc # NoMC

SpecOnRecord ==
    \A r \in Resource :
        /\ spec[r].gen = Len(versionAt[r])
        /\ Exists(r) => spec[r].version = versionAt[r][spec[r].gen]

PlacementOnRecord == \A c \in Cluster : placement[c] # NoMC => placement[c] \in everPlaced[c]

VRJobsSound ==
    \A p \in Process, r \in Resource : vrJob[p][r].at # "idle" => vrJob[p][r].version # NoVersion

PlaceJobsSound ==
    \A p \in Process, c \in Cluster : placeJob[p][c].at = "put" => placeJob[p][c].mc # NoMC

HCJobsSound == \A p \in Process, c \in Cluster : JobSound(c, hcJob[p][c])

NPJobsSound == \A p \in Process, n \in NodePool : JobSound(n, npJob[p][n])

JobsSound == VRJobsSound /\ PlaceJobsSound /\ HCJobsSound /\ NPJobsSound

WorkOfAGeneration ==
    \A m \in MC, r \in Resource :
        /\ work[m][r] # NoWork => work[m][r].gen \in 1..spec[r].gen
        /\ work[m][r].gen <= highest[m][r] /\ highest[m][r] <= spec[r].gen
        /\ work[m][r] = NoWork => highest[m][r] = 0

\* Nor does a write that may still land bring anything that is not on record.
LateWorkSound ==
    \A x \in lateWork :
        /\ x.gen \in 1..spec[x.of].gen
        /\ x.version = versionAt[x.of][x.gen] /\ x.version # NoVersion
        /\ x.mc \in everPlaced[Home(x.of)]

\* The inductive invariant of the pipeline: with any number of replicas, lost answers,
\* late PUTs and late writes, every generation has its version on record, every job is
\* sound, and so are every ManifestWork and every write that may still land.
PipelineInv ==
    /\ TypeOK
    /\ SpecOnRecord
    /\ PlacementOnRecord
    /\ JobsSound
    /\ WorkOfAGeneration
    /\ WorkMatchesGeneration
    /\ WorkWherePlaced
    /\ LateWorkSound

\* Deciding on a placement and recording it are two calls, and yet a cluster is
\* placed once: no crash, failed call or later reconcile moves it. Only another
\* replica that had decided as well can, once, and a PUT that lands after its
\* caller gave it up.
PlacementsBounded ==
    \A c \in Cluster : Cardinality(everPlaced[c]) <= Cardinality(Process) + delays

\* The management clusters c was placed on or may still be by a PUT in flight.
GivenTo(c) ==
    everPlaced[c] \cup {x.value : x \in {y \in late : y.adapter = "placement" /\ y.of = c}}

AboutToPlace(c) == {p \in Process : placeJob[p][c].at = "put"}

\* The inductive invariant behind it: as long as c is not placed, all it may be
\* given comes from delayed PUTs. Once it is, no reconcile decides anew, and each of
\* those that had decided adds one placement as it leaves.
PlacementsCounted ==
    \A c \in Cluster :
        /\ IsFiniteSet(GivenTo(c))
        /\ placement[c] = NoMC => Cardinality(GivenTo(c)) <= delays
        /\ placement[c] # NoMC =>
              Cardinality(GivenTo(c)) + Cardinality(AboutToPlace(c))
                 <= Cardinality(Process) + delays

Reached(m, c) == work[m][c] # NoWork /\ feedback[m][c] # "none"

\* A node pool's ManifestWork goes where its cluster's is, and only after the
\* hosted cluster was reported there.
NodePoolFollowsCluster ==
    \A m \in MC, n \in NodePool :
        work[m][n] # NoWork => Reached(m, Owner[n])

\* The entry's generation has been applied, and what it says of the resource has
\* been reported, by one management cluster.
Applied(r, entry) ==
    \E m \in MC :
        /\ highest[m][r] >= entry.gen
        /\ entry.available \in {"True", "False"} => feedback[m][r] # "none"

\* The generation an adapter reports has been applied, and where it was, what it
\* reports as available was reported by the management cluster. (Not of which
\* generation: the status feedback does not say.)
ReportedIsApplied == \A r \in Resource : status[r].gen > 0 => Applied(r, status[r])

\* A reconcile never takes a ManifestWork back to an older generation, and never changes
\* it within one: only a write that was given up does, when it lands late.
WorkMovesForward ==
    [][LandWork \/ \A m \in MC, r \in Resource :
          work'[m][r] # work[m][r] => work'[m][r].gen > work[m][r].gen]_vars

\* A ManifestWork of r is older than the latest that was applied there.
SetBack(m, r) == work[m][r].gen < highest[m][r]

\* Reconciled is only believed once there is nothing left to apply: the last generation
\* is where the cluster was placed, unless it was and a late write has set it back.
ReconciledIsCurrent ==
    \A c \in reconciled :
        \E m \in MC :
            /\ highest[m][c] = spec[c].gen
            /\ work[m][c] = [gen |-> spec[c].gen, version |-> spec[c].version] \/ SetBack(m, c)

OneReplica == \A p, q \in Process : p = q

\* A reconcile that nobody overlaps is ahead of every ManifestWork that was ever applied
\* for its resource and of every late write; what it applied has been applied, even if a
\* late write has replaced it meanwhile, and what it observed was reported.
JobLeads(r, j) ==
    /\ j.at # "idle" =>
          /\ \A m \in MC : highest[m][r] <= j.gen
          /\ \A x \in lateWork : x.of = r => x.gen <= j.gen
    /\ j.at \in {"feedback", "put"} => highest[j.mc][r] = j.gen
    /\ j.at = "put" /\ j.available \in {"True", "False"} => feedback[j.mc][r] # "none"

HCJobsLead == \A p \in Process, c \in Cluster : JobLeads(c, hcJob[p][c])

NPJobsLead == \A p \in Process, n \in NodePool : JobLeads(n, npJob[p][n])

Reported(r, entry) == entry.gen > 0 /\ Applied(r, entry)

EntriesReported ==
    \A r \in Resource :
        status[r] # [gen |-> 0, available |-> "none"] => Reported(r, status[r])

LateReported == \A x \in late : x.adapter \in {"hc", "nodepool"} => Reported(x.of, x.value)

ReconciledIsDone == \A c \in reconciled : Exists(c) /\ HCDone(status, c)

\* While no PUT was delayed, the placement that stands is the only one there
\* ever was, and nobody is about to record another.
PlacementStands ==
    delays = 0 =>
        /\ late = {}
        /\ \A c \in Cluster : everPlaced[c] \subseteq {placement[c]}
        /\ \A p \in Process, c \in Cluster :
              placeJob[p][c].at = "put" => placement[c] = NoMC

\* The nodepool job has passed the gate, or lacks no more than its version.
Follows(j) ==
    \/ j.at = "statuses" /\ j.available = "True"
    \/ j.at \in {"apply", "create", "patch", "feedback", "put"}

\* Nor does such a job lose the hosted cluster it goes to.
NPJobsFollow ==
    delays = 0 =>
        \A p \in Process, n \in NodePool :
            Follows(npJob[p][n]) =>
                npJob[p][n].mc # NoMC /\ Reached(npJob[p][n].mc, Owner[n])

\* Nor does a late write of a node pool.
LateWorkFollows ==
    delays = 0 =>
        \A x \in lateWork : x.of \in NodePool => Reached(x.mc, Owner[x.of])

\* The inductive invariant of the pipeline while each adapter has one replica.
OneReplicaInv ==
    /\ OneReplica
    /\ PipelineInv
    /\ HCJobsLead /\ NPJobsLead
    /\ EntriesReported /\ LateReported /\ ReconciledIsDone
    /\ PlacementStands
    /\ NPJobsFollow /\ LateWorkFollows
    /\ delays = 0 => NodePoolFollowsCluster

\* A management cluster has reported on a ManifestWork of r.
Hosted(r) == \E m \in MC : Reached(m, r)

\* What can be said of an entry while replicas overlap: it is not ahead of the
\* spec, and neither about a ManifestWork nor about a report that never was.
Backed(r, entry) ==
    /\ entry.gen <= spec[r].gen
    /\ entry.available # "none" => \E m \in MC : work[m][r] # NoWork
    /\ entry.available \in {"True", "False"} => Hosted(r)

\* Overlapping replicas, crashes, PUTs and writes that land late may move a cluster, or
\* put an older ManifestWork or entry back. They never make an adapter report what
\* was not there at all,
EntriesBacked == \A r \in Resource : Backed(r, status[r])

\* nor a node pool come before its hosted cluster was reported on,
NodePoolComesAfter ==
    \A m \in MC, n \in NodePool : work[m][n] # NoWork => Hosted(Owner[n])

\* nor a cluster count as Reconciled that no management cluster has reported on.
ReconciledIsHosted == \A c \in reconciled : Hosted(c)

LateBacked == \A x \in late : x.adapter \in {"hc", "nodepool"} => Backed(x.of, x.value)

JobBacked(r, j) ==
    /\ j.at \in {"patch", "feedback", "put"} => work[j.mc][r] # NoWork
    /\ j.at = "put" /\ j.available \in {"True", "False"} => feedback[j.mc][r] # "none"

HCJobsBacked == \A p \in Process, c \in Cluster : JobBacked(c, hcJob[p][c])

NPJobsBacked ==
    \A p \in Process, n \in NodePool :
        JobBacked(n, npJob[p][n]) /\ (Follows(npJob[p][n]) => Hosted(Owner[n]))

\* A node pool's write that may still land comes after its hosted cluster as well.
LateWorkBacked == \A x \in lateWork : x.of \in NodePool => Hosted(Owner[x.of])

\* The inductive invariant of any number of replicas.
OverlapInv ==
    /\ PipelineInv
    /\ HCJobsBacked /\ NPJobsBacked
    /\ EntriesBacked /\ LateBacked /\ LateWorkBacked
    /\ NodePoolComesAfter
    /\ ReconciledIsHosted

Current(r) ==
    spec[r].version # NoVersion =>
        \E m \in MC : work[m][r] = [gen |-> spec[r].gen, version |-> spec[r].version]

\* Once edits stop, the hosted cluster's ManifestWork is that of the last generation, if
\* it asks for a version. A write that lands late, or a slower replica, may take it back to
\* an older one. That is repaired by the next reconcile, unless the cluster counts as
\* Reconciled by then: hc skips it, and Sentinel is silent.
ClusterConverges ==
    \A c \in Cluster :
        <>[](Exists(c) => Current(c) \/ (c \in reconciled /\ \E m \in MC : SetBack(m, c)))

\* So is the node pool's, always: nodepool does not look at Reconciled. It needs a hosted
\* cluster that stays available.
NodePoolConverges ==
    \A n \in NodePool :
        <>[](Exists(n) /\ status[Owner[n]].available = "True") => <>[]Current(n)
=============================================================================
