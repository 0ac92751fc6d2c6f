--------------------------- MODULE PipelineProofs ---------------------------
(***************************************************************************)
(* Proofs about Pipeline, for any clusters, node pools, management         *)
(* clusters, versions and replicas, and any number of failures, late PUTs  *)
(* and late writes to Maestro: the inductive invariant and what follows    *)
(* from it. Then the stronger one while each adapter has one replica, what *)
(* is left of that when replicas overlap, and how often a cluster can be   *)
(* placed.                                                                 *)
(***************************************************************************)
EXTENDS Pipeline, FiniteSetTheorems, TLAPS

\* What every step keeps: generations, their versions and recorded placements
\* are only ever added.
Extends ==
    /\ \A r \in Resource :
          /\ spec'[r].gen >= spec[r].gen
          /\ \A g \in 1..spec[r].gen : versionAt'[r][g] = versionAt[r][g]
    /\ \A c \in Cluster : everPlaced[c] \subseteq everPlaced'[c]

(* The placement of every resource is that of a cluster.                    *)
LEMMA HomeIsCluster == \A r \in Resource : Home(r) \in Cluster
BY ConstantAssumption DEF Home, Resource

(* Nothing added to the record of versions is an extension of it.           *)
LEMMA SameExtends ==
  ASSUME TypeOK, UNCHANGED envVars, UNCHANGED everPlaced
  PROVE  Extends
BY DEF TypeOK, Extends, envVars

(* A job that is sound stays sound.                                         *)
LEMMA JobSoundGrows ==
  ASSUME TypeOK, TypeOK', Extends, NEW r \in Resource, NEW j \in ApplyJob, JobSound(r, j)
  PROVE  JobSound(r, j)'
<1>1. spec[r].gen \in Nat /\ spec'[r].gen \in Nat /\ j.gen \in Nat
  BY DEF TypeOK, ApplyJob
<1>2. Home(r) \in Cluster
  BY HomeIsCluster
<1>3. j.at # "idle" => j.gen \in 1..spec'[r].gen /\ j.version = versionAt'[r][j.gen]
  BY <1>1 DEF Extends, JobSound
<1>4. j.mc # NoMC => j.mc \in everPlaced'[Home(r)]
  BY <1>2 DEF Extends, JobSound
<1> QED
  BY <1>3, <1>4 DEF JobSound, Home

(* The hc jobs stay sound in a step that leaves them alone.                  *)
LEMMA HCJobsKept ==
  ASSUME TypeOK, TypeOK', Extends, HCJobsSound, UNCHANGED hcJob
  PROVE  HCJobsSound'
<1> SUFFICES ASSUME NEW p \in Process, NEW c \in Cluster
             PROVE  JobSound(c, hcJob[p][c])'
  BY DEF HCJobsSound
<1>1. hcJob[p][c] \in ApplyJob /\ c \in Resource
  BY DEF TypeOK, Resource
<1>2. JobSound(c, hcJob[p][c])
  BY DEF HCJobsSound
<1> QED
  BY <1>1, <1>2, JobSoundGrows DEF JobSound, Home

(* So do the nodepool jobs.                                                  *)
LEMMA NPJobsKept ==
  ASSUME TypeOK, TypeOK', Extends, NPJobsSound, UNCHANGED npJob
  PROVE  NPJobsSound'
<1> SUFFICES ASSUME NEW p \in Process, NEW n \in NodePool
             PROVE  JobSound(n, npJob[p][n])'
  BY DEF NPJobsSound
<1>1. npJob[p][n] \in ApplyJob /\ n \in Resource
  BY DEF TypeOK, Resource
<1>2. JobSound(n, npJob[p][n])
  BY DEF NPJobsSound
<1> QED
  BY <1>1, <1>2, JobSoundGrows DEF JobSound, Home

(* One job moves on, to a sound one.                                        *)
LEMMA HCJobMoves ==
  ASSUME TypeOK, TypeOK', Extends, HCJobsSound,
         NEW p \in Process, NEW c \in Cluster, NEW j \in ApplyJob,
         HCIs(p, c, j), JobSound(c, j)
  PROVE  HCJobsSound'
<1> SUFFICES ASSUME NEW q \in Process, NEW d \in Cluster
             PROVE  JobSound(d, hcJob[q][d])'
  BY DEF HCJobsSound
<1>1. hcJob'[q][d] = IF q = p /\ d = c THEN j ELSE hcJob[q][d]
  BY DEF HCIs, TypeOK
<1>2. hcJob'[q][d] \in ApplyJob /\ d \in Resource
  BY DEF TypeOK, Resource
<1>3. JobSound(d, hcJob[q][d])
  BY DEF HCJobsSound
<1> DEFINE k == IF q = p /\ d = c THEN j ELSE hcJob[q][d]
<1>4. JobSound(d, k) /\ k \in ApplyJob
  BY <1>1, <1>2, <1>3
<1> HIDE DEF k
<1>5. hcJob'[q][d] = k
  BY <1>1 DEF k
<1> QED
  BY <1>2, <1>4, <1>5, JobSoundGrows DEF JobSound, Home

(* One nodepool job moves: the same for the nodepool adapter.                *)
LEMMA NPJobMoves ==
  ASSUME TypeOK, TypeOK', Extends, NPJobsSound,
         NEW p \in Process, NEW n \in NodePool, NEW j \in ApplyJob,
         NPIs(p, n, j), JobSound(n, j)
  PROVE  NPJobsSound'
<1> SUFFICES ASSUME NEW q \in Process, NEW d \in NodePool
             PROVE  JobSound(d, npJob[q][d])'
  BY DEF NPJobsSound
<1>1. npJob'[q][d] = IF q = p /\ d = n THEN j ELSE npJob[q][d]
  BY DEF NPIs, TypeOK
<1>2. npJob'[q][d] \in ApplyJob /\ d \in Resource
  BY DEF TypeOK, Resource
<1>3. JobSound(d, npJob[q][d])
  BY DEF NPJobsSound
<1> DEFINE k == IF q = p /\ d = n THEN j ELSE npJob[q][d]
<1>4. JobSound(d, k) /\ k \in ApplyJob
  BY <1>1, <1>2, <1>3
<1> HIDE DEF k
<1>5. npJob'[q][d] = k
  BY <1>1 DEF k
<1> QED
  BY <1>2, <1>4, <1>5, JobSoundGrows DEF JobSound, Home

(* ManifestWorks that nobody writes stay sound.                             *)
LEMMA WorkKept ==
  ASSUME PipelineInv, TypeOK', Extends, UNCHANGED <<work, highest>>
  PROVE  WorkOfAGeneration' /\ WorkMatchesGeneration' /\ WorkWherePlaced'
<1>1. \A r \in Resource : spec[r].gen \in Nat /\ spec'[r].gen \in Nat
  BY DEF PipelineInv, TypeOK
<1>2. WorkOfAGeneration'
  <2>1. /\ \A m \in MC, r \in Resource : highest[m][r] \in Nat
        /\ \A r \in Resource : spec'[r].gen >= spec[r].gen
    BY DEF PipelineInv, TypeOK, Extends
  <2> QED
    BY <1>1, <2>1 DEF PipelineInv, WorkOfAGeneration
<1>3. WorkMatchesGeneration'
  BY <1>1 DEF PipelineInv, Extends, WorkOfAGeneration, WorkMatchesGeneration
<1>4. WorkWherePlaced'
  BY HomeIsCluster DEF PipelineInv, Extends, WorkWherePlaced, Home
<1> QED
  BY <1>2, <1>3, <1>4

(* The writes that may still land stay sound.                               *)
LEMMA LateWorkKept ==
  ASSUME TypeOK, TypeOK', Extends, LateWorkSound, lateWork' \subseteq lateWork
  PROVE  LateWorkSound'
<1> SUFFICES ASSUME NEW x \in lateWork'
             PROVE  /\ x.gen \in 1..spec'[x.of].gen
                    /\ x.version = versionAt'[x.of][x.gen] /\ x.version # NoVersion
                    /\ x.mc \in everPlaced'[Home(x.of)]
  BY DEF LateWorkSound, Home
<1>1. x \in lateWork /\ x.of \in Resource
  BY DEF TypeOK, WorkRequest
<1>2. /\ x.gen \in 1..spec[x.of].gen
      /\ x.version = versionAt[x.of][x.gen] /\ x.version # NoVersion
      /\ x.mc \in everPlaced[Home(x.of)]
  BY <1>1 DEF LateWorkSound
<1>3. spec[x.of].gen \in Nat /\ spec'[x.of].gen \in Nat /\ spec'[x.of].gen >= spec[x.of].gen
  BY <1>1 DEF TypeOK, Extends
<1>4. x.gen \in 1..spec'[x.of].gen
  BY <1>2, <1>3
<1>5. versionAt'[x.of][x.gen] = versionAt[x.of][x.gen]
  BY <1>1, <1>2 DEF Extends
<1>6. everPlaced[Home(x.of)] \subseteq everPlaced'[Home(x.of)]
  BY <1>1, HomeIsCluster DEF Extends
<1> QED
  BY <1>2, <1>4, <1>5, <1>6

-----------------------------------------------------------------------------
(* PUT .../statuses                                                         *)

\* The part of TypeOK that a PUT can change.
StatusTyped ==
    /\ reconciled \subseteq Cluster
    /\ vr \in [Resource -> Version \cup {NoVersion}]
    /\ placement \in [Cluster -> MC \cup {NoMC}]
    /\ status \in [Resource -> [gen : Nat, available : Availability]]
    /\ everPlaced \in [Cluster -> SUBSET MC]

\* What a PUT does to the recorded placements.
PlacementsGrow ==
    /\ PlacementOnRecord'
    /\ \A c \in Cluster : everPlaced[c] \subseteq everPlaced'[c]

(* Storing a status entry keeps the types, and records placements.          *)
LEMMA StoreKeeps ==
  ASSUME TypeOK, PlacementOnRecord, NEW x \in Payload, Store(x)
  PROVE  StatusTyped' /\ PlacementsGrow
<1>1. StatusTyped
  BY DEF TypeOK, StatusTyped
<1>2. reconciled' \subseteq Cluster
  BY <1>1 DEF StatusTyped, Store
<1>3. CASE x.adapter = "vr"
  <2>1. x.of \in Resource /\ x.value \in Version
    BY <1>3 DEF Payload
  <2>2. vr' = [vr EXCEPT ![x.of] = x.value] /\ UNCHANGED <<placement, everPlaced, status>>
    BY <1>3 DEF Store
  <2> QED
    BY <1>1, <1>2, <2>1, <2>2 DEF StatusTyped, PlacementsGrow, PlacementOnRecord
<1>4. CASE x.adapter = "placement"
  <2>1. x.of \in Cluster /\ x.value \in MC
    BY <1>4 DEF Payload
  <2>2. /\ placement' = [placement EXCEPT ![x.of] = x.value]
        /\ everPlaced' = [everPlaced EXCEPT ![x.of] = @ \cup {x.value}]
        /\ UNCHANGED <<vr, status>>
    BY <1>4 DEF Store
  <2>3. StatusTyped'
    BY <1>1, <1>2, <2>1, <2>2 DEF StatusTyped
  <2>4. \A c \in Cluster : everPlaced[c] \subseteq everPlaced'[c]
    BY <1>1, <2>1, <2>2 DEF StatusTyped
  <2>5. PlacementOnRecord'
    BY <1>1, <2>1, <2>2 DEF StatusTyped, PlacementOnRecord
  <2> QED
    BY <2>3, <2>4, <2>5 DEF PlacementsGrow
<1>5. CASE x.adapter \in {"hc", "nodepool"}
  <2>1. x.of \in Resource /\ x.value \in [gen : Nat, available : Availability]
    BY <1>5 DEF Payload, Resource
  <2>2. status' = [status EXCEPT ![x.of] = x.value] /\ UNCHANGED <<vr, placement, everPlaced>>
    BY <1>5 DEF Store
  <2> QED
    BY <1>1, <1>2, <2>1, <2>2 DEF StatusTyped, PlacementsGrow, PlacementOnRecord
<1> QED
  BY <1>3, <1>4, <1>5 DEF Payload

(* So does a PUT, whatever became of its first attempt.                     *)
LEMMA PutKeeps ==
  ASSUME TypeOK, PlacementOnRecord, NEW x \in Payload, Put(x)
  PROVE  /\ StatusTyped' /\ PlacementsGrow
         /\ late' \subseteq Payload
         /\ delays' \in 0..MaxDelays
<1>1. StatusTyped' /\ PlacementsGrow
  <2>1. CASE Store(x)
    BY <2>1, StoreKeeps
  <2>2. CASE UNCHANGED statusVars
    BY <2>2 DEF statusVars, TypeOK, StatusTyped, PlacementsGrow, PlacementOnRecord
  <2> QED
    BY <2>1, <2>2 DEF Put
<1>2. late' \subseteq Payload /\ delays' \in 0..MaxDelays
  BY ConstantAssumption DEF Put, TypeOK
<1> QED
  BY <1>1, <1>2

(* The steps that write no ManifestWork and edit no spec.                   *)
LEMMA QuietInv ==
  ASSUME PipelineInv, TypeOK', PlacementsGrow, JobsSound',
         UNCHANGED <<envVars, work, highest>>, lateWork' \subseteq lateWork
  PROVE  PipelineInv'
<1>1. Extends
  BY DEF PipelineInv, TypeOK, Extends, PlacementsGrow, envVars
<1>2. SpecOnRecord'
  BY DEF PipelineInv, SpecOnRecord, Exists, envVars
<1>3. LateWorkSound'
  BY <1>1, LateWorkKept DEF PipelineInv
<1> QED
  BY <1>1, <1>2, <1>3, WorkKept DEF PipelineInv, PlacementsGrow

-----------------------------------------------------------------------------
(* The jobs of hc and nodepool, and the ManifestWorks they write.           *)

(* An idle job promises nothing.                                            *)
LEMMA IdleSound ==
  /\ IdleApply \in ApplyJob
  /\ IdleApply.at = "idle" /\ IdleApply.mc = NoMC
  /\ \A r : JobSound(r, IdleApply)
BY DEF IdleApply, ApplyJob, Availability, JobSound

(* A job that has passed the gate goes on with the same facts.              *)
LEMMA JobGoesOn ==
  ASSUME NEW r \in Resource, NEW j \in ApplyJob, JobSound(r, j),
         j.at \in {"apply", "create", "patch", "feedback", "put"},
         NEW a \in {"create", "patch", "feedback"}
  PROVE  [j EXCEPT !.at = a] \in ApplyJob /\ JobSound(r, [j EXCEPT !.at = a])
<1> DEFINE k == [j EXCEPT !.at = a]
<1>1. k \in ApplyJob
  BY DEF ApplyJob
<1>2. k.at = a /\ k.gen = j.gen /\ k.version = j.version /\ k.mc = j.mc
  BY DEF ApplyJob
<1> HIDE DEF k
<1>3. JobSound(r, k)
  BY <1>2 DEF JobSound
<1> QED
  BY <1>1, <1>3 DEF k

(* What a sound job writes, or had asked Maestro to write, is a sound       *)
(* ManifestWork, where the resource was placed; the others stay what they   *)
(* are, and the highest generation applied is on record.                    *)
LEMMA WriteKeeps ==
  ASSUME PipelineInv, NEW r \in Resource, NEW m \in MC, NEW j,
         j.gen \in 1..spec[r].gen, j.version = versionAt[r][j.gen], j.version # NoVersion,
         j.version \in Version \cup {NoVersion}, m \in everPlaced[Home(r)],
         Write(m, r, j), UNCHANGED <<envVars, everPlaced>>
  PROVE  /\ work' \in [MC -> [Resource -> [gen : Nat, version : Version \cup {NoVersion}]]]
         /\ highest' \in [MC -> [Resource -> Nat]]
         /\ WorkOfAGeneration' /\ WorkMatchesGeneration' /\ WorkWherePlaced'
<1>1. /\ work \in [MC -> [Resource -> [gen : Nat, version : Version \cup {NoVersion}]]]
      /\ highest \in [MC -> [Resource -> Nat]]
      /\ spec[r].gen \in Nat
      /\ UNCHANGED <<spec, versionAt, everPlaced>>
  BY DEF PipelineInv, TypeOK, envVars
<1>2. \A n \in MC, q \in Resource :
         /\ work[n][q] # NoWork => work[n][q].gen \in 1..spec[q].gen
         /\ work[n][q].gen <= highest[n][q] /\ highest[n][q] <= spec[q].gen
         /\ work[n][q] = NoWork => highest[n][q] = 0
  BY DEF PipelineInv, WorkOfAGeneration
<1> DEFINE new == [gen |-> j.gen, version |-> j.version]
           top == IF highest[m][r] < work'[m][r].gen THEN work'[m][r].gen ELSE highest[m][r]
<1>3. /\ work' = work \/ work' = [work EXCEPT ![m][r] = new]
      /\ highest' = [highest EXCEPT ![m][r] = top]
  BY <1>1 DEF Write, Written, Manifest
<1>4. new \in [gen : Nat, version : Version \cup {NoVersion}] /\ new.gen \in 1..spec[r].gen
  BY <1>1
<1>5. work' \in [MC -> [Resource -> [gen : Nat, version : Version \cup {NoVersion}]]]
  <2>1. CASE work' = work
    BY <1>1, <2>1
  <2>2. CASE work' = [work EXCEPT ![m][r] = new]
    <3> HIDE DEF new
    <3> QED
      BY <1>1, <1>4, <2>2
  <2> QED
    BY <1>3, <2>1, <2>2
<1>6. /\ \A n \in MC, q \in Resource : ~(n = m /\ q = r) => work'[n][q] = work[n][q]
      /\ work'[m][r] \in {work[m][r], new}
  BY <1>1, <1>3
<1>7. /\ \A n \in MC, q \in Resource : ~(n = m /\ q = r) => highest'[n][q] = highest[n][q]
      /\ highest'[m][r] = top
  BY <1>1, <1>3
<1>8. /\ work'[m][r].gen \in Nat /\ work'[m][r].gen <= spec[r].gen
      /\ highest[m][r] \in Nat /\ highest[m][r] <= spec[r].gen
      /\ work[m][r] # NoWork => work[m][r].gen \in 1..spec[r].gen
  BY <1>1, <1>2, <1>4, <1>5, <1>6
<1>9. top \in Nat /\ work'[m][r].gen <= top /\ top <= spec[r].gen
  BY <1>1, <1>8
<1>10. highest' \in [MC -> [Resource -> Nat]]
  BY <1>1, <1>3, <1>9
<1>11. /\ work'[m][r] # NoWork => work'[m][r].gen \in 1..spec[r].gen
       /\ work'[m][r] = NoWork => top = 0
  <2>1. CASE work'[m][r] = work[m][r]
    BY <1>2, <1>8, <2>1 DEF NoWork
  <2>2. CASE work'[m][r] = new
    BY <1>1, <1>4, <2>2 DEF NoWork
  <2> QED
    BY <1>6, <2>1, <2>2
<1> HIDE DEF new, top
<1>12. WorkOfAGeneration'
  <2> SUFFICES ASSUME NEW n \in MC, NEW q \in Resource
               PROVE  /\ work'[n][q] # NoWork => work'[n][q].gen \in 1..spec[q].gen
                      /\ work'[n][q].gen <= highest'[n][q] /\ highest'[n][q] <= spec[q].gen
                      /\ work'[n][q] = NoWork => highest'[n][q] = 0
    BY <1>1 DEF WorkOfAGeneration, NoWork
  <2>1. CASE n = m /\ q = r
    BY <1>7, <1>9, <1>11, <2>1
  <2>2. CASE ~(n = m /\ q = r)
    BY <1>2, <1>6, <1>7, <2>2
  <2> QED
    BY <2>1, <2>2
<1>13. WorkMatchesGeneration'
  <2> SUFFICES ASSUME NEW n \in MC, NEW q \in Resource, work'[n][q] # NoWork
               PROVE  /\ work'[n][q].version = versionAt[q][work'[n][q].gen]
                      /\ work'[n][q].version # NoVersion
    BY <1>1 DEF WorkMatchesGeneration
  <2>1. CASE n = m /\ q = r /\ work'[m][r] = new
    BY <2>1 DEF new
  <2>2. CASE work'[n][q] = work[n][q]
    BY <2>2 DEF PipelineInv, WorkMatchesGeneration
  <2> QED
    BY <1>6, <2>1, <2>2
<1>14. WorkWherePlaced'
  <2> SUFFICES ASSUME NEW n \in MC, NEW q \in Resource, work'[n][q] # NoWork
               PROVE  n \in everPlaced[Home(q)]
    BY <1>1 DEF WorkWherePlaced, Home
  <2>1. CASE n = m /\ q = r
    BY <2>1
  <2>2. CASE work'[n][q] = work[n][q]
    BY <2>2 DEF PipelineInv, WorkWherePlaced
  <2> QED
    BY <1>6, <2>1, <2>2
<1> QED
  BY <1>5, <1>10, <1>12, <1>13, <1>14

(* What a sound job writes is sound, wherever it is in its write.           *)
LEMMA JobWrites ==
  ASSUME PipelineInv, NEW r \in Resource, NEW j \in ApplyJob, JobSound(r, j),
         j.at \in {"create", "patch"}
  PROVE  /\ j.mc \in MC /\ j.mc \in everPlaced[Home(r)]
         /\ j.gen \in 1..spec[r].gen
         /\ j.version = versionAt[r][j.gen] /\ j.version # NoVersion
         /\ j.version \in Version \cup {NoVersion}
BY DEF JobSound, ApplyJob

(* What a sound job leaves in flight when it ends is sound.                 *)
LEMMA NextWriteSound ==
  ASSUME PipelineInv, NEW r \in Resource, NEW j \in ApplyJob, JobSound(r, j),
         NEW x \in NextWrite(r, j)
  PROVE  /\ x \in WorkRequest
         /\ j.at \in {"create", "patch"} /\ x.at = j.at
         /\ x.of = r /\ x.mc = j.mc /\ x.gen = j.gen /\ x.version = j.version
         /\ x.gen \in 1..spec[x.of].gen
         /\ x.version = versionAt[x.of][x.gen] /\ x.version # NoVersion
         /\ x.mc \in everPlaced[Home(x.of)]
<1>1. PICK a \in {"create", "patch"} \cap {j.at} :
         x = [mc |-> j.mc, of |-> r, at |-> a, gen |-> j.gen, version |-> j.version]
  BY DEF NextWrite
<1>2. j.at \in {"create", "patch"} /\ a = j.at
  BY <1>1
<1>3. /\ j.mc \in MC /\ j.mc \in everPlaced[Home(r)]
      /\ j.gen \in 1..spec[r].gen
      /\ j.version = versionAt[r][j.gen] /\ j.version # NoVersion
      /\ j.version \in Version \cup {NoVersion}
  BY <1>2, JobWrites
<1>4. spec[r].gen \in Nat
  BY DEF PipelineInv, TypeOK
<1>5. x \in WorkRequest
  BY <1>1, <1>2, <1>3, <1>4 DEF WorkRequest
<1> QED
  BY <1>1, <1>2, <1>3, <1>5

-----------------------------------------------------------------------------
(* One lemma per adapter.                                                   *)

(* A step that replaces one vr-adapter job and changes nothing else.        *)
LEMMA VRStepInv ==
  ASSUME PipelineInv, NEW p \in Process, NEW r \in Resource, VRStep(p, r)
  PROVE  PipelineInv'
<1>1. /\ UNCHANGED <<envVars, maestroVars, placeJob, hcJob, npJob, lateWork, failures>>
      /\ vrJob[p][r] \in VRJob
      /\ TypeOK /\ PlacementOnRecord /\ JobsSound
  BY DEF PipelineInv, TypeOK, VRStep, VRGet, VRCheck, VRPut, faultVars
<1>2. /\ StatusTyped' /\ PlacementsGrow
      /\ late' \subseteq Payload /\ delays' \in 0..MaxDelays
  <2>1. CASE VRGet(p, r) \/ VRCheck(p, r)
    BY <1>1, <2>1 DEF VRGet, VRCheck, statusVars, faultVars, TypeOK, StatusTyped,
                      PlacementsGrow, PlacementOnRecord
  <2>2. CASE VRPut(p, r)
    <3>1. vrJob[p][r].version \in Version
      BY <1>1, <2>2 DEF VRPut, VRJob, JobsSound, VRJobsSound
    <3> DEFINE x == [adapter |-> "vr", of |-> r, value |-> vrJob[p][r].version]
    <3>2. x \in Payload
      BY <3>1 DEF Payload
    <3> QED
      BY <1>1, <2>2, <3>2, PutKeeps DEF VRPut
  <2> QED
    BY <2>1, <2>2 DEF VRStep
<1>3. PICK j \in VRJob : VRIs(p, r, j) /\ (j.at # "idle" => j.version # NoVersion)
  <2>1. CASE VRGet(p, r)
    BY <1>1, <2>1 DEF VRGet, VRJob, TypeOK
  <2>2. CASE VRCheck(p, r)
    BY <1>1, <2>2 DEF VRCheck, VRJob, IdleVR, JobsSound, VRJobsSound
  <2>3. CASE VRPut(p, r)
    BY <2>3 DEF VRPut, VRJob, IdleVR
  <2> QED
    BY <2>1, <2>2, <2>3 DEF VRStep
<1>4. vrJob' \in [Process -> [Resource -> VRJob]] /\ VRJobsSound'
  BY <1>1, <1>3 DEF VRIs, TypeOK, JobsSound, VRJobsSound
<1>5. TypeOK'
  BY <1>1, <1>2, <1>4 DEF TypeOK, StatusTyped, envVars, maestroVars
<1>6. Extends
  BY <1>1, <1>2 DEF TypeOK, Extends, PlacementsGrow, envVars
<1>7. JobsSound'
  BY <1>1, <1>4, <1>5, <1>6, HCJobsKept, NPJobsKept DEF JobsSound, PlaceJobsSound
<1> QED
  BY <1>1, <1>2, <1>5, <1>7, QuietInv DEF maestroVars

(* placement: only PlacePut writes, and what it records is a candidate.      *)
LEMMA PlaceStepInv ==
  ASSUME PipelineInv, NEW p \in Process, NEW c \in Cluster, PlaceStep(p, c)
  PROVE  PipelineInv'
<1>1. /\ UNCHANGED <<envVars, maestroVars, vrJob, hcJob, npJob, lateWork, failures>>
      /\ placeJob[p][c] \in PlaceJob
      /\ TypeOK /\ PlacementOnRecord /\ JobsSound
  BY DEF PipelineInv, TypeOK, PlaceStep, PlaceGet, PlaceCheck, PlacePut, faultVars
<1>2. /\ StatusTyped' /\ PlacementsGrow
      /\ late' \subseteq Payload /\ delays' \in 0..MaxDelays
  <2>1. CASE PlaceGet(p, c) \/ PlaceCheck(p, c)
    BY <1>1, <2>1 DEF PlaceGet, PlaceCheck, statusVars, faultVars, TypeOK, StatusTyped,
                      PlacementsGrow, PlacementOnRecord
  <2>2. CASE PlacePut(p, c)
    <3>1. placeJob[p][c].mc \in MC
      BY <1>1, <2>2 DEF PlacePut, PlaceJob, JobsSound, PlaceJobsSound
    <3> DEFINE x == [adapter |-> "placement", of |-> c, value |-> placeJob[p][c].mc]
    <3>2. x \in Payload
      BY <3>1 DEF Payload
    <3> QED
      BY <1>1, <2>2, <3>2, PutKeeps DEF PlacePut
  <2> QED
    BY <2>1, <2>2 DEF PlaceStep
<1>3. PICK j \in PlaceJob : PlaceIs(p, c, j) /\ (j.at = "put" => j.mc # NoMC)
  <2>1. CASE PlaceGet(p, c)
    BY <2>1 DEF PlaceGet, PlaceJob, IdlePlace
  <2>2. CASE PlaceCheck(p, c)
    <3>1. CASE placement[c] # NoMC
      BY <2>2, <3>1 DEF PlaceCheck, PlaceJob, IdlePlace
    <3>2. CASE placement[c] = NoMC
      <4>1. PICK m \in MC : PlaceIs(p, c, [at |-> "put", mc |-> m])
        BY <2>2, <3>2 DEF PlaceCheck
      <4> QED
        BY <4>1, ConstantAssumption DEF PlaceJob
    <3> QED
      BY <3>1, <3>2
  <2>3. CASE PlacePut(p, c)
    BY <2>3 DEF PlacePut, PlaceJob, IdlePlace
  <2> QED
    BY <2>1, <2>2, <2>3 DEF PlaceStep
<1>4. placeJob' \in [Process -> [Cluster -> PlaceJob]] /\ PlaceJobsSound'
  BY <1>1, <1>3 DEF PlaceIs, TypeOK, JobsSound, PlaceJobsSound
<1>5. TypeOK'
  BY <1>1, <1>2, <1>4 DEF TypeOK, StatusTyped, envVars, maestroVars
<1>6. Extends
  BY <1>1, <1>2 DEF TypeOK, Extends, PlacementsGrow, envVars
<1>7. JobsSound'
  BY <1>1, <1>4, <1>5, <1>6, HCJobsKept, NPJobsKept DEF JobsSound, VRJobsSound
<1> QED
  BY <1>1, <1>2, <1>5, <1>7, QuietInv DEF maestroVars


(* hc: the gate makes the job's image that of its generation, HCWrite stores *)
(* it.                                                                       *)
LEMMA HCStepInv ==
  ASSUME PipelineInv, NEW p \in Process, NEW c \in Cluster, HCStep(p, c)
  PROVE  PipelineInv'
<1> DEFINE j == hcJob[p][c]
<1>1. /\ UNCHANGED <<envVars, feedback, vrJob, placeJob, npJob, lateWork, failures>>
      /\ c \in Resource /\ j \in ApplyJob /\ JobSound(c, j)
      /\ TypeOK /\ PlacementOnRecord /\ JobsSound
  <2>1. UNCHANGED <<envVars, feedback, vrJob, placeJob, npJob, lateWork, failures>>
    BY DEF HCStep, HCGet, HCCheck, HCBuilt, HCDecide, HCWrite, HCFeedback, HCPut,
           faultVars, maestroVars
  <2>2. TypeOK /\ PlacementOnRecord /\ JobsSound
    BY DEF PipelineInv
  <2>3. c \in Resource /\ j \in ApplyJob /\ JobSound(c, j)
    BY <2>2 DEF TypeOK, JobsSound, HCJobsSound, Resource
  <2> QED
    BY <2>1, <2>2, <2>3
<1>2. /\ StatusTyped' /\ PlacementsGrow
      /\ late' \subseteq Payload /\ delays' \in 0..MaxDelays
  <2>1. CASE ~HCPut(p, c)
    <3>1. UNCHANGED statusVars /\ UNCHANGED faultVars
      BY <2>1 DEF HCStep, HCGet, HCCheck, HCBuilt, HCDecide, HCWrite, HCFeedback
    <3> QED
      BY <1>1, <3>1 DEF statusVars, faultVars, TypeOK, StatusTyped, PlacementsGrow,
                        PlacementOnRecord
  <2>2. CASE HCPut(p, c)
    <3> DEFINE x == [adapter |-> "hc", of |-> c,
                     value |-> [gen |-> j.gen, available |-> j.available]]
    <3>1. j.gen \in Nat /\ j.available \in Availability
      BY <1>1 DEF ApplyJob
    <3>2. x \in Payload
      BY <3>1 DEF Payload
    <3> QED
      BY <1>1, <2>2, <3>2, PutKeeps DEF HCPut
  <2> QED
    BY <2>1, <2>2
<1>3. PICK k \in ApplyJob : HCIs(p, c, k) /\ JobSound(c, k)
  <2>1. CASE HCGet(p, c)
    <3> DEFINE k == [IdleApply EXCEPT !.at = "statuses", !.gen = spec[c].gen,
                                      !.version = spec[c].version]
    <3>1. spec[c].gen \in Nat \ {0} /\ spec[c].version \in Version \cup {NoVersion}
      BY <1>1, <2>1 DEF TypeOK, HCGet, Exists
    <3>2. /\ k \in ApplyJob
          /\ k.at = "statuses" /\ k.gen = spec[c].gen /\ k.version = spec[c].version
          /\ k.mc = NoMC
      BY <3>1, IdleSound DEF ApplyJob
    <3> HIDE DEF k
    <3>3. JobSound(c, k)
      BY <1>1, <2>1, <3>1, <3>2 DEF JobSound, PipelineInv, SpecOnRecord, HCGet
    <3>4. HCIs(p, c, k)
      BY <2>1 DEF HCGet, k
    <3> QED
      BY <3>2, <3>3, <3>4
  <2>2. CASE HCCheck(p, c)
    <3> DEFINE k == [j EXCEPT !.at = "apply", !.mc = placement[c], !.version = vr[c]]
    <3>1. CASE HCGate(c, j.version)
      <4>1. /\ j.at = "statuses" /\ vr[c] = j.version /\ vr[c] # NoVersion
            /\ placement[c] \in MC /\ placement[c] # NoMC
            /\ placement[c] \in everPlaced[c] /\ Home(c) = c
        BY <1>1, <2>2, <3>1 DEF HCGate, HCCheck, HCBuilt, TypeOK, PlacementOnRecord, Home
      <4>2. /\ k \in ApplyJob
            /\ k.at = "apply" /\ k.gen = j.gen /\ k.version = j.version /\ k.mc = placement[c]
        BY <1>1, <4>1 DEF ApplyJob
      <4>3. HCIs(p, c, k)
        BY <2>2, <3>1 DEF HCCheck, HCBuilt
      <4> HIDE DEF k
      <4>4. JobSound(c, k)
        BY <1>1, <4>1, <4>2 DEF JobSound
      <4> QED
        BY <4>2, <4>3, <4>4
    <3>2. CASE ~HCGate(c, j.version)
      BY <2>2, <3>2, IdleSound DEF HCCheck, HCBuilt
    <3> QED
      BY <3>1, <3>2
  <2>3. CASE HCDecide(p, c)
    <3>1. Decision(j.mc, c, j) \in {"create", "patch", "feedback"}
      BY DEF Decision
    <3> QED
      BY <1>1, <2>3, <3>1, JobGoesOn DEF HCDecide
  <2>4. CASE HCWrite(p, c)
    BY <1>1, <2>4, JobGoesOn, IdleSound DEF HCWrite, AfterWrite
  <2>5. CASE HCFeedback(p, c)
    <3> DEFINE k == [j EXCEPT !.at = "put", !.available = Observed(j.mc, c)]
    <3>1. j.mc \in MC /\ j.at = "feedback"
      BY <1>1, <2>5 DEF HCFeedback, JobSound, ApplyJob
    <3>2. Observed(j.mc, c) \in Availability
      BY <1>1, <3>1 DEF Observed, Availability, TypeOK
    <3>3. /\ k \in ApplyJob
          /\ k.at = "put" /\ k.gen = j.gen /\ k.version = j.version /\ k.mc = j.mc
      BY <1>1, <3>2 DEF ApplyJob
    <3>4. HCIs(p, c, k)
      BY <2>5 DEF HCFeedback
    <3> HIDE DEF k
    <3>5. JobSound(c, k)
      BY <1>1, <3>1, <3>3 DEF JobSound
    <3> QED
      BY <3>3, <3>4, <3>5
  <2>6. CASE HCPut(p, c)
    BY <2>6, IdleSound DEF HCPut
  <2> QED
    BY <2>1, <2>2, <2>3, <2>4, <2>5, <2>6 DEF HCStep
<1>4. hcJob' \in [Process -> [Cluster -> ApplyJob]]
  BY <1>1, <1>3 DEF HCIs, TypeOK
<1>5. CASE HCWrite(p, c)
  <2>1. /\ Write(j.mc, c, j) /\ j.at \in {"create", "patch"}
        /\ UNCHANGED <<everPlaced, lateWork>>
    BY <1>5 DEF HCWrite, statusVars, faultVars
  <2>2. /\ work' \in [MC -> [Resource -> [gen : Nat, version : Version \cup {NoVersion}]]]
        /\ highest' \in [MC -> [Resource -> Nat]]
        /\ WorkOfAGeneration' /\ WorkMatchesGeneration' /\ WorkWherePlaced'
    BY <1>1, <2>1, JobWrites, WriteKeeps
  <2>3. TypeOK'
    BY <1>1, <1>2, <1>4, <2>2 DEF TypeOK, StatusTyped, envVars
  <2>4. Extends
    BY <1>1, <2>1, SameExtends
  <2>5. JobsSound'
    BY <1>1, <1>3, <2>3, <2>4, HCJobMoves, NPJobsKept
       DEF JobsSound, VRJobsSound, PlaceJobsSound
  <2>6. SpecOnRecord'
    BY <1>1 DEF PipelineInv, SpecOnRecord, Exists, envVars
  <2>7. LateWorkSound'
    BY <2>1, <2>3, <2>4, LateWorkKept DEF PipelineInv
  <2> QED
    BY <1>2, <2>2, <2>3, <2>5, <2>6, <2>7 DEF PipelineInv, PlacementsGrow
<1>6. CASE ~HCWrite(p, c)
  <2>1. UNCHANGED <<work, highest>>
    BY <1>6 DEF HCStep, HCGet, HCCheck, HCBuilt, HCDecide, HCFeedback, HCPut, maestroVars
  <2>2. TypeOK'
    BY <1>1, <1>2, <1>4, <2>1 DEF TypeOK, StatusTyped, envVars
  <2>3. Extends
    BY <1>1, <1>2 DEF TypeOK, Extends, PlacementsGrow, envVars
  <2>4. JobsSound'
    BY <1>1, <1>3, <2>2, <2>3, HCJobMoves, NPJobsKept
       DEF JobsSound, VRJobsSound, PlaceJobsSound
  <2> QED
    BY <1>1, <1>2, <2>1, <2>2, <2>4, QuietInv
<1> QED
  BY <1>5, <1>6

(* nodepool: as hc, with the placement read together with the cluster.      *)
LEMMA NPStepInv ==
  ASSUME PipelineInv, NEW p \in Process, NEW n \in NodePool, NPStep(p, n)
  PROVE  PipelineInv'
<1> DEFINE j == npJob[p][n]
<1>1. /\ UNCHANGED <<envVars, feedback, vrJob, placeJob, hcJob, lateWork, failures>>
      /\ n \in Resource /\ j \in ApplyJob /\ JobSound(n, j)
      /\ TypeOK /\ PlacementOnRecord /\ JobsSound
  <2>1. UNCHANGED <<envVars, feedback, vrJob, placeJob, hcJob, lateWork, failures>>
    BY DEF NPStep, NPGet, NPCluster, NPCheck, NPBuilt, NPDecide, NPWrite,
           NPFeedback, NPPut, faultVars, maestroVars
  <2>2. TypeOK /\ PlacementOnRecord /\ JobsSound
    BY DEF PipelineInv
  <2>3. n \in Resource /\ j \in ApplyJob /\ JobSound(n, j)
    BY <2>2 DEF TypeOK, JobsSound, NPJobsSound, Resource
  <2> QED
    BY <2>1, <2>2, <2>3
<1>2. /\ StatusTyped' /\ PlacementsGrow
      /\ late' \subseteq Payload /\ delays' \in 0..MaxDelays
  <2>1. CASE ~NPPut(p, n)
    <3>1. UNCHANGED statusVars /\ UNCHANGED faultVars
      BY <2>1 DEF NPStep, NPGet, NPCluster, NPCheck, NPBuilt, NPDecide, NPWrite, NPFeedback
    <3> QED
      BY <1>1, <3>1 DEF statusVars, faultVars, TypeOK, StatusTyped, PlacementsGrow,
                        PlacementOnRecord
  <2>2. CASE NPPut(p, n)
    <3> DEFINE x == [adapter |-> "nodepool", of |-> n,
                     value |-> [gen |-> j.gen, available |-> j.available]]
    <3>1. j.gen \in Nat /\ j.available \in Availability
      BY <1>1 DEF ApplyJob
    <3>2. x \in Payload
      BY <3>1 DEF Payload
    <3> QED
      BY <1>1, <2>2, <3>2, PutKeeps DEF NPPut
  <2> QED
    BY <2>1, <2>2
<1>3. PICK k \in ApplyJob : NPIs(p, n, k) /\ JobSound(n, k)
  <2>1. CASE NPGet(p, n)
    <3> DEFINE k == [IdleApply EXCEPT !.at = "cluster", !.gen = spec[n].gen,
                                      !.version = spec[n].version]
    <3>1. spec[n].gen \in Nat \ {0} /\ spec[n].version \in Version \cup {NoVersion}
      BY <1>1, <2>1 DEF TypeOK, NPGet, Exists
    <3>2. /\ k \in ApplyJob
          /\ k.at = "cluster" /\ k.gen = spec[n].gen /\ k.version = spec[n].version
          /\ k.mc = NoMC
      BY <3>1, IdleSound DEF ApplyJob
    <3> HIDE DEF k
    <3>3. JobSound(n, k)
      BY <1>1, <2>1, <3>1, <3>2 DEF JobSound, PipelineInv, SpecOnRecord, NPGet
    <3>4. NPIs(p, n, k)
      BY <2>1 DEF NPGet, k
    <3> QED
      BY <3>2, <3>3, <3>4
  <2>2. CASE NPCluster(p, n)
    <3> DEFINE o == Owner[n]
               k == [j EXCEPT !.at = "statuses", !.mc = placement[o],
                              !.available = status[o].available]
    <3>1. /\ o \in Cluster /\ Home(n) = o /\ j.at = "cluster"
          /\ placement[o] \in MC \cup {NoMC} /\ status[o].available \in Availability
          /\ placement[o] # NoMC => placement[o] \in everPlaced[o]
      BY <1>1, <2>2, ConstantAssumption
         DEF NPCluster, Home, TypeOK, PlacementOnRecord, Resource
    <3>2. /\ k \in ApplyJob
          /\ k.at = "statuses" /\ k.gen = j.gen /\ k.version = j.version /\ k.mc = placement[o]
      BY <1>1, <3>1 DEF ApplyJob
    <3>3. NPIs(p, n, k)
      BY <2>2 DEF NPCluster
    <3> HIDE DEF k
    <3>4. JobSound(n, k)
      BY <1>1, <3>1, <3>2 DEF JobSound
    <3> QED
      BY <3>2, <3>3, <3>4
  <2>3. CASE NPCheck(p, n)
    <3> DEFINE k == [j EXCEPT !.at = "apply", !.version = vr[n]]
    <3>1. CASE NPGate(n, j)
      <4>1. /\ j.at = "statuses" /\ vr[n] = j.version /\ vr[n] # NoVersion
            /\ j.mc # NoMC
        BY <1>1, <2>3, <3>1 DEF NPGate, NPCheck, NPBuilt
      <4>2. /\ k \in ApplyJob
            /\ k.at = "apply" /\ k.gen = j.gen /\ k.version = j.version /\ k.mc = j.mc
        BY <1>1, <4>1 DEF ApplyJob
      <4>3. NPIs(p, n, k)
        BY <2>3, <3>1 DEF NPCheck, NPBuilt
      <4> HIDE DEF k
      <4>4. JobSound(n, k)
        BY <1>1, <4>1, <4>2 DEF JobSound
      <4> QED
        BY <4>2, <4>3, <4>4
    <3>2. CASE ~NPGate(n, j)
      BY <2>3, <3>2, IdleSound DEF NPCheck, NPBuilt
    <3> QED
      BY <3>1, <3>2
  <2>4. CASE NPDecide(p, n)
    <3>1. Decision(j.mc, n, j) \in {"create", "patch", "feedback"}
      BY DEF Decision
    <3> QED
      BY <1>1, <2>4, <3>1, JobGoesOn DEF NPDecide
  <2>5. CASE NPWrite(p, n)
    BY <1>1, <2>5, JobGoesOn, IdleSound DEF NPWrite, AfterWrite
  <2>6. CASE NPFeedback(p, n)
    <3> DEFINE k == [j EXCEPT !.at = "put", !.available = Observed(j.mc, n)]
    <3>1. j.mc \in MC /\ j.at = "feedback"
      BY <1>1, <2>6 DEF NPFeedback, JobSound, ApplyJob
    <3>2. Observed(j.mc, n) \in Availability
      BY <1>1, <3>1 DEF Observed, Availability, TypeOK
    <3>3. /\ k \in ApplyJob
          /\ k.at = "put" /\ k.gen = j.gen /\ k.version = j.version /\ k.mc = j.mc
      BY <1>1, <3>2 DEF ApplyJob
    <3>4. NPIs(p, n, k)
      BY <2>6 DEF NPFeedback
    <3> HIDE DEF k
    <3>5. JobSound(n, k)
      BY <1>1, <3>1, <3>3 DEF JobSound
    <3> QED
      BY <3>3, <3>4, <3>5
  <2>7. CASE NPPut(p, n)
    BY <2>7, IdleSound DEF NPPut
  <2> QED
    BY <2>1, <2>2, <2>3, <2>4, <2>5, <2>6, <2>7 DEF NPStep
<1>4. npJob' \in [Process -> [NodePool -> ApplyJob]]
  BY <1>1, <1>3 DEF NPIs, TypeOK
<1>5. CASE NPWrite(p, n)
  <2>1. /\ Write(j.mc, n, j) /\ j.at \in {"create", "patch"}
        /\ UNCHANGED <<everPlaced, lateWork>>
    BY <1>5 DEF NPWrite, statusVars, faultVars
  <2>2. /\ work' \in [MC -> [Resource -> [gen : Nat, version : Version \cup {NoVersion}]]]
        /\ highest' \in [MC -> [Resource -> Nat]]
        /\ WorkOfAGeneration' /\ WorkMatchesGeneration' /\ WorkWherePlaced'
    BY <1>1, <2>1, JobWrites, WriteKeeps
  <2>3. TypeOK'
    BY <1>1, <1>2, <1>4, <2>2 DEF TypeOK, StatusTyped, envVars
  <2>4. Extends
    BY <1>1, <2>1, SameExtends
  <2>5. JobsSound'
    BY <1>1, <1>3, <2>3, <2>4, NPJobMoves, HCJobsKept
       DEF JobsSound, VRJobsSound, PlaceJobsSound
  <2>6. SpecOnRecord'
    BY <1>1 DEF PipelineInv, SpecOnRecord, Exists, envVars
  <2>7. LateWorkSound'
    BY <2>1, <2>3, <2>4, LateWorkKept DEF PipelineInv
  <2> QED
    BY <1>2, <2>2, <2>3, <2>5, <2>6, <2>7 DEF PipelineInv, PlacementsGrow
<1>6. CASE ~NPWrite(p, n)
  <2>1. UNCHANGED <<work, highest>>
    BY <1>6 DEF NPStep, NPGet, NPCluster, NPCheck, NPBuilt, NPDecide, NPFeedback, NPPut, maestroVars
  <2>2. TypeOK'
    BY <1>1, <1>2, <1>4, <2>1 DEF TypeOK, StatusTyped, envVars
  <2>3. Extends
    BY <1>1, <1>2 DEF TypeOK, Extends, PlacementsGrow, envVars
  <2>4. JobsSound'
    BY <1>1, <1>3, <2>2, <2>3, NPJobMoves, HCJobsKept
       DEF JobsSound, VRJobsSound, PlaceJobsSound
  <2> QED
    BY <1>1, <1>2, <2>1, <2>2, <2>4, QuietInv
<1> QED
  BY <1>5, <1>6

-----------------------------------------------------------------------------
(* The environment, late PUTs and failures.                                 *)

(* An edit adds a generation, with its version, at the end of the record.   *)
LEMMA EditSpecInv ==
  ASSUME PipelineInv, NEW r \in Resource, EditSpec(r)
  PROVE  PipelineInv'
<1>1. PICK v \in Version \cup {NoVersion} :
         /\ spec' = [spec EXCEPT ![r] = [gen |-> @.gen + 1, version |-> v]]
         /\ versionAt' = [versionAt EXCEPT ![r] = Append(@, v)]
  BY ConstantAssumption DEF EditSpec
<1>2. /\ UNCHANGED <<vr, placement, status, everPlaced, maestroVars, jobVars, faultVars>>
      /\ reconciled' = reconciled \ {r}
      /\ TypeOK /\ SpecOnRecord
  BY DEF EditSpec, PipelineInv
<1>3. /\ spec \in [Resource -> [gen : Nat, version : Version \cup {NoVersion}]]
      /\ versionAt \in [Resource -> Seq(Version \cup {NoVersion})]
      /\ \A q \in Resource : spec[q].gen = Len(versionAt[q])
  BY <1>2 DEF TypeOK, SpecOnRecord
<1>4. \A q \in Resource \ {r} : spec'[q] = spec[q] /\ versionAt'[q] = versionAt[q]
  BY <1>1, <1>3
<1>5. spec'[r] = [gen |-> spec[r].gen + 1, version |-> v] /\ versionAt'[r] = Append(versionAt[r], v)
  BY <1>1, <1>3
<1>6. /\ Len(versionAt'[r]) = spec[r].gen + 1
      /\ versionAt'[r][spec[r].gen + 1] = v
      /\ \A g \in 1..spec[r].gen : versionAt'[r][g] = versionAt[r][g]
  BY <1>3, <1>5
<1>7. /\ spec' \in [Resource -> [gen : Nat, version : Version \cup {NoVersion}]]
      /\ versionAt' \in [Resource -> Seq(Version \cup {NoVersion})]
  BY <1>1, <1>3
<1>8. TypeOK'
  BY <1>2, <1>7 DEF TypeOK, maestroVars, jobVars, faultVars
<1>9. Extends
  <2>1. \A q \in Resource :
           /\ spec'[q].gen >= spec[q].gen
           /\ \A g \in 1..spec[q].gen : versionAt'[q][g] = versionAt[q][g]
    <3> SUFFICES ASSUME NEW q \in Resource
                 PROVE  /\ spec'[q].gen >= spec[q].gen
                        /\ \A g \in 1..spec[q].gen : versionAt'[q][g] = versionAt[q][g]
      OBVIOUS
    <3>1. CASE q = r
      <4>1. spec'[r].gen = spec[r].gen + 1 /\ spec[r].gen \in Nat
        BY <1>3, <1>5
      <4> QED
        BY <1>6, <3>1, <4>1
    <3>2. CASE q # r
      BY <1>3, <1>4, <3>2
    <3> QED
      BY <3>1, <3>2
  <2> QED
    BY <1>2, <2>1 DEF Extends
<1>10. SpecOnRecord'
  BY <1>2, <1>4, <1>5, <1>6 DEF SpecOnRecord, Exists
<1>11. JobsSound'
  BY <1>2, <1>8, <1>9, HCJobsKept, NPJobsKept
     DEF PipelineInv, JobsSound, VRJobsSound, PlaceJobsSound, jobVars
<1>12. PlacementOnRecord'
  BY <1>2 DEF PipelineInv, PlacementOnRecord
<1>13. WorkOfAGeneration' /\ WorkMatchesGeneration' /\ WorkWherePlaced'
  BY <1>2, <1>8, <1>9, WorkKept DEF maestroVars
<1>14. LateWorkSound'
  BY <1>2, <1>8, <1>9, LateWorkKept DEF PipelineInv, faultVars
<1> QED
  BY <1>8, <1>10, <1>11, <1>12, <1>13, <1>14 DEF PipelineInv

(* A step that leaves the specs, the jobs and the ManifestWorks alone.      *)
LEMMA JobsAloneInv ==
  ASSUME PipelineInv, TypeOK', PlacementsGrow,
         UNCHANGED <<envVars, work, highest, jobVars, lateWork>>
  PROVE  PipelineInv'
<1>1. Extends
  BY DEF PipelineInv, TypeOK, Extends, PlacementsGrow, envVars
<1>2. JobsSound'
  BY <1>1, HCJobsKept, NPJobsKept
     DEF PipelineInv, JobsSound, VRJobsSound, PlaceJobsSound, jobVars
<1> QED
  BY <1>2, QuietInv

(* The Reconciled condition is in no part of the invariant but its type.     *)
LEMMA MarkReconciledInv ==
  ASSUME PipelineInv, NEW c \in Cluster, MarkReconciled(c)
  PROVE  PipelineInv'
<1>1. TypeOK'
  BY DEF PipelineInv, MarkReconciled, TypeOK, envVars, maestroVars, jobVars, faultVars
<1>2. PlacementsGrow
  BY DEF PipelineInv, MarkReconciled, PlacementsGrow, PlacementOnRecord
<1> QED
  BY <1>1, <1>2, JobsAloneInv DEF MarkReconciled, maestroVars, faultVars

(* Nor is the feedback of the management clusters.                           *)
LEMMA AgentReportsInv ==
  ASSUME PipelineInv, NEW m \in MC, NEW r \in Resource, AgentReports(m, r)
  PROVE  PipelineInv'
<1>1. PICK a \in {"True", "False"} : feedback' = [feedback EXCEPT ![m][r] = a]
  BY DEF AgentReports
<1>2. feedback' \in [MC -> [Resource -> {"none", "True", "False"}]]
  BY <1>1 DEF PipelineInv, TypeOK
<1>3. TypeOK'
  BY <1>2 DEF PipelineInv, AgentReports, TypeOK, envVars, statusVars, jobVars, faultVars
<1>4. PlacementsGrow
  BY DEF PipelineInv, AgentReports, PlacementsGrow, PlacementOnRecord, statusVars
<1> QED
  BY <1>3, <1>4, JobsAloneInv DEF AgentReports, faultVars

(* A PUT that lands late stores a payload that was sound when it was sent.   *)
LEMMA LandLateInv == ASSUME PipelineInv, LandLate PROVE PipelineInv'
<1>1. PICK x \in late : Store(x) /\ late' = late \ {x}
  BY DEF LandLate
<1>2. x \in Payload /\ late' \subseteq Payload
  BY <1>1 DEF PipelineInv, TypeOK
<1>3. StatusTyped' /\ PlacementsGrow
  BY <1>1, <1>2, StoreKeeps DEF PipelineInv
<1>4. TypeOK'
  BY <1>2, <1>3 DEF PipelineInv, LandLate, TypeOK, StatusTyped, envVars, maestroVars, jobVars
<1> QED
  BY <1>3, <1>4, JobsAloneInv DEF LandLate, maestroVars

\* A write that a sound job of x.of was about to do.
LeftBy(x) ==
    /\ x \in WorkRequest
    /\ x.gen \in 1..spec[x.of].gen
    /\ x.version = versionAt[x.of][x.gen] /\ x.version # NoVersion
    /\ x.mc \in everPlaced[Home(x.of)]
    /\ \/ \E p \in Process, c \in Cluster : x \in NextWrite(c, hcJob[p][c])
       \/ \E p \in Process, n \in NodePool : x \in NextWrite(n, npJob[p][n])

(* What a failure leaves in flight is such a write.                         *)
LEMMA FailLeaves ==
  ASSUME PipelineInv, Fail, NEW x \in lateWork'
  PROVE  x \in lateWork \/ LeftBy(x)
<1> SUFFICES ASSUME x \notin lateWork PROVE LeftBy(x)
  OBVIOUS
<1>1. /\ \A p \in Process, c \in Cluster :
            c \in Resource /\ hcJob[p][c] \in ApplyJob /\ JobSound(c, hcJob[p][c])
      /\ \A p \in Process, n \in NodePool :
            n \in Resource /\ npJob[p][n] \in ApplyJob /\ JobSound(n, npJob[p][n])
  BY DEF PipelineInv, TypeOK, JobsSound, HCJobsSound, NPJobsSound, Resource
<1>2. PICK p \in Process :
         \/ \E r \in Resource : VRFail(p, r)
         \/ \E c \in Cluster : PlaceFail(p, c) \/ HCFail(p, c)
         \/ \E n \in NodePool : NPFail(p, n)
  BY DEF Fail
<1>3. CASE \E c \in Cluster : HCFail(p, c)
  <2>1. PICK c \in Cluster : x \in NextWrite(c, hcJob[p][c])
    BY <1>3 DEF HCFail
  <2> QED
    BY <1>1, <2>1, NextWriteSound DEF LeftBy
<1>4. CASE \E n \in NodePool : NPFail(p, n)
  <2>1. PICK n \in NodePool : x \in NextWrite(n, npJob[p][n])
    BY <1>4 DEF NPFail
  <2> QED
    BY <1>1, <2>1, NextWriteSound DEF LeftBy
<1> QED
  BY <1>2, <1>3, <1>4 DEF VRFail, PlaceFail

(* A failure only makes one job idle, and may leave its write in flight.     *)
LEMMA FailInv == ASSUME PipelineInv, Fail PROVE PipelineInv'
<1>1. /\ UNCHANGED <<envVars, statusVars, maestroVars, late, delays>>
      /\ failures' \in 0..MaxFailures
      /\ TypeOK /\ JobsSound
  BY ConstantAssumption DEF PipelineInv, TypeOK, Fail
<1>2. Extends /\ PlacementsGrow
  BY <1>1 DEF PipelineInv, TypeOK, Extends, PlacementsGrow, PlacementOnRecord, envVars, statusVars
<1>3. PICK p \in Process :
         \/ /\ \E r \in Resource : VRIs(p, r, IdleVR)
            /\ UNCHANGED <<placeJob, hcJob, npJob>>
         \/ /\ \E c \in Cluster : PlaceIs(p, c, IdlePlace)
            /\ UNCHANGED <<vrJob, hcJob, npJob>>
         \/ /\ \E c \in Cluster : HCIs(p, c, IdleApply)
            /\ UNCHANGED <<vrJob, placeJob, npJob>>
         \/ /\ \E n \in NodePool : NPIs(p, n, IdleApply)
            /\ UNCHANGED <<vrJob, placeJob, hcJob>>
  BY DEF Fail, VRFail, PlaceFail, HCFail, NPFail
<1>4. IdleVR \in VRJob /\ IdlePlace \in PlaceJob
  BY DEF IdleVR, VRJob, IdlePlace, PlaceJob
<1>5. /\ vrJob' \in [Process -> [Resource -> VRJob]] /\ VRJobsSound'
      /\ placeJob' \in [Process -> [Cluster -> PlaceJob]] /\ PlaceJobsSound'
  <2>1. CASE \E r \in Resource : VRIs(p, r, IdleVR) /\ UNCHANGED <<placeJob, hcJob, npJob>>
    BY <1>1, <1>4, <2>1 DEF TypeOK, VRIs, IdleVR, JobsSound, VRJobsSound, PlaceJobsSound
  <2>2. CASE \E c \in Cluster : PlaceIs(p, c, IdlePlace) /\ UNCHANGED <<vrJob, hcJob, npJob>>
    BY <1>1, <1>4, <2>2 DEF TypeOK, PlaceIs, IdlePlace, JobsSound, VRJobsSound, PlaceJobsSound
  <2>3. CASE UNCHANGED <<vrJob, placeJob>>
    BY <1>1, <2>3 DEF TypeOK, JobsSound, VRJobsSound, PlaceJobsSound
  <2> QED
    BY <1>3, <2>1, <2>2, <2>3
<1>6. /\ hcJob' \in [Process -> [Cluster -> ApplyJob]]
      /\ npJob' \in [Process -> [NodePool -> ApplyJob]]
  <2>1. IdleApply \in ApplyJob
    BY IdleSound
  <2>2. CASE \E c \in Cluster : HCIs(p, c, IdleApply) /\ UNCHANGED npJob
    BY <1>1, <2>1, <2>2 DEF TypeOK, HCIs
  <2>3. CASE \E n \in NodePool : NPIs(p, n, IdleApply) /\ UNCHANGED hcJob
    BY <1>1, <2>1, <2>3 DEF TypeOK, NPIs
  <2>4. CASE UNCHANGED <<hcJob, npJob>>
    BY <1>1, <2>4 DEF TypeOK
  <2> QED
    BY <1>3, <2>2, <2>3, <2>4
<1>7. \A x \in lateWork' : x \in lateWork \/ LeftBy(x)
  BY FailLeaves
<1>8. lateWork' \subseteq WorkRequest
  BY <1>1, <1>7 DEF TypeOK, LeftBy
<1>9. TypeOK'
  BY <1>1, <1>5, <1>6, <1>8 DEF TypeOK, envVars, statusVars, maestroVars
<1>10. HCJobsSound'
  <2>1. CASE UNCHANGED hcJob
    BY <1>1, <1>2, <1>9, <2>1, HCJobsKept DEF JobsSound
  <2>2. CASE \E c \in Cluster : HCIs(p, c, IdleApply)
    BY <1>1, <1>2, <1>9, <2>2, HCJobMoves, IdleSound DEF JobsSound
  <2> QED
    BY <1>3, <2>1, <2>2
<1>11. NPJobsSound'
  <2>1. CASE UNCHANGED npJob
    BY <1>1, <1>2, <1>9, <2>1, NPJobsKept DEF JobsSound
  <2>2. CASE \E n \in NodePool : NPIs(p, n, IdleApply)
    BY <1>1, <1>2, <1>9, <2>2, NPJobMoves, IdleSound DEF JobsSound
  <2> QED
    BY <1>3, <2>1, <2>2
<1>12. LateWorkSound'
  BY <1>1, <1>7 DEF PipelineInv, LateWorkSound, LeftBy, envVars, statusVars, Home
<1>13. SpecOnRecord' /\ WorkOfAGeneration' /\ WorkMatchesGeneration' /\ WorkWherePlaced'
  BY <1>1, <1>2, <1>9, WorkKept DEF PipelineInv, SpecOnRecord, Exists, envVars, maestroVars
<1> QED
  BY <1>2, <1>5, <1>9, <1>10, <1>11, <1>12, <1>13 DEF PipelineInv, JobsSound, PlacementsGrow

(* A write that lands late was sound when it was given up, and still is.     *)
LEMMA LandWorkInv == ASSUME PipelineInv, LandWork PROVE PipelineInv'
<1>1. PICK x \in lateWork : Write(x.mc, x.of, x) /\ lateWork' = lateWork \ {x}
  BY DEF LandWork
<1>2. /\ UNCHANGED <<envVars, statusVars, feedback, jobVars, late, delays, failures>>
      /\ TypeOK /\ lateWork' \subseteq lateWork
  BY <1>1 DEF PipelineInv, LandWork
<1>3. /\ x.of \in Resource /\ x.mc \in MC /\ x.version \in Version \cup {NoVersion}
      /\ x.gen \in 1..spec[x.of].gen
      /\ x.version = versionAt[x.of][x.gen] /\ x.version # NoVersion
      /\ x.mc \in everPlaced[Home(x.of)]
  BY DEF PipelineInv, TypeOK, WorkRequest, LateWorkSound
<1>4. /\ work' \in [MC -> [Resource -> [gen : Nat, version : Version \cup {NoVersion}]]]
      /\ highest' \in [MC -> [Resource -> Nat]]
      /\ WorkOfAGeneration' /\ WorkMatchesGeneration' /\ WorkWherePlaced'
  BY <1>1, <1>2, <1>3, WriteKeeps DEF statusVars
<1>5. TypeOK'
  BY <1>2, <1>4 DEF TypeOK, envVars, statusVars, jobVars
<1>6. Extends
  BY <1>2, SameExtends DEF statusVars
<1>7. JobsSound'
  BY <1>2, <1>5, <1>6, HCJobsKept, NPJobsKept
     DEF PipelineInv, JobsSound, VRJobsSound, PlaceJobsSound, jobVars
<1>8. LateWorkSound'
  BY <1>2, <1>5, <1>6, LateWorkKept DEF PipelineInv
<1>9. SpecOnRecord' /\ PlacementOnRecord'
  BY <1>2 DEF PipelineInv, SpecOnRecord, PlacementOnRecord, Exists, envVars, statusVars
<1> QED
  BY <1>4, <1>5, <1>7, <1>8, <1>9 DEF PipelineInv

-----------------------------------------------------------------------------
(* The invariant                                                            *)

(* The invariant holds initially.                                            *)
LEMMA InitInv == Init => PipelineInv
<1> SUFFICES ASSUME Init PROVE PipelineInv
  OBVIOUS
<1>1. TypeOK
  BY ConstantAssumption, IdleSound
     DEF Init, TypeOK, IdleVR, VRJob, IdlePlace, PlaceJob, NoWork, Availability
<1>2. SpecOnRecord /\ PlacementOnRecord
  BY DEF Init, SpecOnRecord, PlacementOnRecord, Exists
<1>3. JobsSound
  BY IdleSound DEF Init, JobsSound, VRJobsSound, PlaceJobsSound, HCJobsSound, NPJobsSound,
                   IdleVR, IdlePlace
<1>4. WorkOfAGeneration /\ WorkMatchesGeneration /\ WorkWherePlaced /\ LateWorkSound
  BY DEF Init, NoWork, WorkOfAGeneration, WorkMatchesGeneration, WorkWherePlaced, LateWorkSound
<1> QED
  BY <1>1, <1>2, <1>3, <1>4 DEF PipelineInv

(* Every step of the pipeline keeps it.                                      *)
LEMMA NextInv == PipelineInv /\ [Next]_vars => PipelineInv'
<1> SUFFICES ASSUME PipelineInv, [Next]_vars PROVE PipelineInv'
  OBVIOUS
<1>1. CASE \E r \in Resource : EditSpec(r)
  BY <1>1, EditSpecInv
<1>2. CASE \E c \in Cluster : MarkReconciled(c)
  BY <1>2, MarkReconciledInv
<1>3. CASE \E m \in MC, r \in Resource : AgentReports(m, r)
  BY <1>3, AgentReportsInv
<1>4. CASE \E p \in Process, r \in Resource : VRStep(p, r)
  BY <1>4, VRStepInv
<1>5. CASE \E p \in Process, c \in Cluster : PlaceStep(p, c) \/ HCStep(p, c)
  BY <1>5, PlaceStepInv, HCStepInv
<1>6. CASE \E p \in Process, n \in NodePool : NPStep(p, n)
  BY <1>6, NPStepInv
<1>7. CASE LandLate
  BY <1>7, LandLateInv
<1>8. CASE Fail
  BY <1>8, FailInv
<1>10. CASE LandWork
  BY <1>10, LandWorkInv
<1>9. CASE UNCHANGED vars
  <2>1. TypeOK' /\ PlacementsGrow
    BY <1>9 DEF vars, envVars, statusVars, maestroVars, jobVars, faultVars, PipelineInv, TypeOK,
                PlacementsGrow, PlacementOnRecord
  <2> QED
    BY <1>9, <2>1, JobsAloneInv DEF vars, maestroVars, faultVars, faultVars, jobVars
<1> QED
  BY <1>1, <1>2, <1>3, <1>4, <1>5, <1>6, <1>7, <1>8, <1>9, <1>10 DEF Next

(* The inductive invariant holds in every reachable state, with any number  *)
(* of replicas of each adapter, failures, late PUTs and late writes.        *)
THEOREM InvariantHolds == SafeSpec => []PipelineInv
<1>1. Init => PipelineInv
  BY InitInv
<1>2. PipelineInv /\ [Next]_vars => PipelineInv'
  BY NextInv
<1> QED
  BY <1>1, <1>2, PTL DEF SafeSpec

(* hc and nodepool never write a ManifestWork that mixes a generation with  *)
(* another generation's version, although they read the spec and the        *)
(* resolved version in two calls.                                           *)
THEOREM VersionsMatch == SafeSpec => []WorkMatchesGeneration
<1>1. PipelineInv => WorkMatchesGeneration
  BY DEF PipelineInv
<1> QED
  BY <1>1, InvariantHolds, PTL

(* ManifestWorks only go where the placement adapter recorded it.           *)
THEOREM OnlyWherePlaced == SafeSpec => []WorkWherePlaced
<1>1. PipelineInv => WorkWherePlaced
  BY DEF PipelineInv
<1> QED
  BY <1>1, InvariantHolds, PTL

-----------------------------------------------------------------------------
(***************************************************************************)
(* One replica of each adapter: what it applies only moves forward, what   *)
(* is reported was applied, and, until a PUT is delayed, a cluster is      *)
(* placed once and its node pools follow it. For any clusters, node pools, *)
(* management clusters and versions, any number of failures, and writes    *)
(* that land after their callers gave them up.                             *)
(***************************************************************************)

\* What no step takes back: the highest generation applied, a ManifestWork and
\* the feedback on it.
Forward ==
    \A m \in MC, r \in Resource :
        /\ highest'[m][r] >= highest[m][r]
        /\ work[m][r] # NoWork => work'[m][r] # NoWork
        /\ feedback[m][r] # "none" => feedback'[m][r] # "none"

\* What a job of r does not bring to Maestro, a late write brings; and there is no
\* new one.
Settles(r) ==
    /\ \A m \in MC :
          \/ highest'[m][r] = highest[m][r]
          \/ \E x \in lateWork : x.of = r /\ highest'[m][r] = x.gen
    /\ \A x \in lateWork' : x.of = r => x \in lateWork

\* A ManifestWork that changes gets a newer generation.
Upward ==
    \A m \in MC, r \in Resource :
        work'[m][r] # work[m][r] => work'[m][r].gen > work[m][r].gen

\* The first ManifestWork of a node pool comes after the hosted cluster's.
NoneEarly ==
    \A m \in MC, n \in NodePool :
        work'[m][n] # NoWork /\ work[m][n] = NoWork /\ delays = 0 => Reached(m, Owner[n])

\* So does a late write.
NoneLeftEarly ==
    \A x \in lateWork' :
        \/ x \in lateWork
        \/ x.of \in NodePool /\ delays = 0 => Reached(x.mc, Owner[x.of])

(* The invariant spares us the types of its parts.                          *)
LEMMA OneTyped ==
  ASSUME OneReplicaInv
  PROVE  /\ TypeOK /\ PipelineInv /\ PlacementOnRecord /\ WorkOfAGeneration /\ WorkWherePlaced
         /\ JobsSound /\ HCJobsSound /\ NPJobsSound
         /\ \A m \in MC, r \in Resource :
               /\ work[m][r].gen \in Nat /\ highest[m][r] \in Nat /\ spec[r].gen \in Nat
               /\ work[m][r] # NoWork <=> work[m][r].gen > 0
               /\ work[m][r].gen <= highest[m][r] /\ highest[m][r] <= spec[r].gen
               /\ highest[m][r] > 0 => work[m][r] # NoWork
<1>1. /\ TypeOK /\ PipelineInv /\ PlacementOnRecord /\ WorkOfAGeneration /\ WorkWherePlaced
      /\ JobsSound /\ HCJobsSound /\ NPJobsSound
  BY DEF OneReplicaInv, PipelineInv, JobsSound
<1>2. ASSUME NEW m \in MC, NEW r \in Resource
      PROVE  /\ work[m][r].gen \in Nat /\ highest[m][r] \in Nat /\ spec[r].gen \in Nat
             /\ work[m][r] # NoWork <=> work[m][r].gen > 0
             /\ work[m][r].gen <= highest[m][r] /\ highest[m][r] <= spec[r].gen
             /\ highest[m][r] > 0 => work[m][r] # NoWork
  <2>1. work[m][r].gen \in Nat /\ highest[m][r] \in Nat /\ spec[r].gen \in Nat
    BY <1>1 DEF TypeOK
  <2>2. /\ work[m][r] # NoWork => work[m][r].gen \in 1..spec[r].gen
        /\ work[m][r].gen <= highest[m][r] /\ highest[m][r] <= spec[r].gen
        /\ work[m][r] = NoWork => highest[m][r] = 0
    BY <1>1 DEF WorkOfAGeneration
  <2>3. work[m][r] # NoWork <=> work[m][r].gen > 0
    BY <2>1, <2>2 DEF NoWork
  <2>4. highest[m][r] > 0 => work[m][r] # NoWork
    BY <2>1, <2>2
  <2> QED
    BY <2>1, <2>2, <2>3, <2>4
<1> QED
  BY <1>1, <1>2

(* A step that leaves Maestro alone.                                        *)
LEMMA MaestroStays ==
  ASSUME TypeOK, UNCHANGED maestroVars
  PROVE  /\ Forward /\ Upward /\ NoneEarly
         /\ UNCHANGED lateWork => NoneLeftEarly /\ \A r \in Resource : Settles(r)
BY DEF TypeOK, maestroVars, Forward, Upward, NoneEarly, NoneLeftEarly, Settles

(* A job stays ahead while only late writes of its resource land.           *)
LEMMA JobLeadsKept ==
  ASSUME OneReplicaInv, TypeOK', Forward, NEW r \in Resource, Settles(r),
         NEW j \in ApplyJob, JobSound(r, j), JobLeads(r, j)
  PROVE  JobLeads(r, j)'
<1>1. j.at \in {"create", "patch", "feedback", "put"} => j.mc \in MC
  BY DEF JobSound, ApplyJob
<1>2. \A m \in MC : highest[m][r] \in Nat /\ highest'[m][r] \in Nat /\ j.gen \in Nat
  BY OneTyped DEF TypeOK, ApplyJob
<1>3. \A x \in lateWork : x.of = r /\ j.at # "idle" => x.gen <= j.gen
  BY DEF JobLeads
<1>4. j.at # "idle" => \A m \in MC : highest'[m][r] <= j.gen
  BY <1>3 DEF JobLeads, Settles
<1>5. j.at # "idle" => \A x \in lateWork' : x.of = r => x.gen <= j.gen
  BY <1>3 DEF Settles
<1>6. j.at \in {"feedback", "put"} => highest'[j.mc][r] = j.gen
  <2> SUFFICES ASSUME j.at \in {"feedback", "put"} PROVE highest'[j.mc][r] = j.gen
    OBVIOUS
  <2>1. highest[j.mc][r] = j.gen /\ j.mc \in MC /\ highest'[j.mc][r] <= j.gen
    BY <1>1, <1>4 DEF JobLeads
  <2>2. highest'[j.mc][r] >= highest[j.mc][r]
    BY <2>1 DEF Forward
  <2> QED
    BY <1>2, <2>1, <2>2
<1> QED
  BY <1>1, <1>4, <1>5, <1>6 DEF Forward, JobLeads

LEMMA HCJobsLeadKept ==
  ASSUME OneReplicaInv, TypeOK', Forward, \A c \in Cluster : Settles(c), UNCHANGED hcJob
  PROVE  HCJobsLead'
<1> SUFFICES ASSUME NEW p \in Process, NEW c \in Cluster
             PROVE  JobLeads(c, hcJob[p][c])'
  BY DEF HCJobsLead
<1> DEFINE j == hcJob[p][c]
<1>1. j \in ApplyJob /\ c \in Resource /\ JobSound(c, j) /\ JobLeads(c, j) /\ j' = j
  BY OneTyped DEF TypeOK, Resource, HCJobsSound, OneReplicaInv, HCJobsLead
<1> HIDE DEF j
<1>2. \A k \in ApplyJob : JobSound(c, k) /\ JobLeads(c, k) => JobLeads(c, k)'
  BY <1>1, JobLeadsKept
<1>3. PICK k \in ApplyJob : k = j
  BY <1>1
<1>4. JobLeads(c, k)'
  BY <1>1, <1>2, <1>3
<1>5. JobLeads(c, j)'
  BY <1>1, <1>3, <1>4 DEF JobLeads
<1> QED
  BY <1>5 DEF j

LEMMA NPJobsLeadKept ==
  ASSUME OneReplicaInv, TypeOK', Forward, \A n \in NodePool : Settles(n), UNCHANGED npJob
  PROVE  NPJobsLead'
<1> SUFFICES ASSUME NEW p \in Process, NEW n \in NodePool
             PROVE  JobLeads(n, npJob[p][n])'
  BY DEF NPJobsLead
<1> DEFINE j == npJob[p][n]
<1>1. j \in ApplyJob /\ n \in Resource /\ JobSound(n, j) /\ JobLeads(n, j) /\ j' = j
  BY OneTyped DEF TypeOK, Resource, NPJobsSound, OneReplicaInv, NPJobsLead
<1> HIDE DEF j
<1>2. PICK k \in ApplyJob : k = j
  BY <1>1
<1>3. JobLeads(n, k)'
  BY <1>1, <1>2, JobLeadsKept
<1>4. JobLeads(n, j)'
  BY <1>1, <1>2, <1>3 DEF JobLeads
<1> QED
  BY <1>4 DEF j

(* One hc job moves on; no other job is about its cluster.                  *)
LEMMA HCJobMovesAhead ==
  ASSUME OneReplicaInv, TypeOK', Forward, NEW p \in Process, NEW c \in Cluster,
         \A d \in Cluster \ {c} : Settles(d),
         NEW k \in ApplyJob, HCIs(p, c, k), JobLeads(c, k)'
  PROVE  HCJobsLead'
<1> SUFFICES ASSUME NEW q \in Process, NEW d \in Cluster
             PROVE  JobLeads(d, hcJob[q][d])'
  BY DEF HCJobsLead
<1>1. q = p
  BY DEF OneReplicaInv, OneReplica
<1>2. hcJob'[q][d] = IF d = c THEN k ELSE hcJob[q][d]
  BY <1>1, OneTyped DEF HCIs, TypeOK
<1>3. CASE d = c
  BY <1>2, <1>3 DEF JobLeads
<1>4. CASE d # c
  <2>1. /\ hcJob[q][d] \in ApplyJob /\ d \in Resource
        /\ JobSound(d, hcJob[q][d]) /\ JobLeads(d, hcJob[q][d])
    BY OneTyped DEF TypeOK, Resource, HCJobsSound, OneReplicaInv, HCJobsLead
  <2>2. PICK j \in ApplyJob : j = hcJob[q][d]
    BY <2>1
  <2>3. JobLeads(d, j)'
    BY <1>4, <2>1, <2>2, JobLeadsKept
  <2> QED
    BY <1>2, <1>4, <2>2, <2>3 DEF JobLeads
<1> QED
  BY <1>3, <1>4

(* So does one nodepool job.                                                *)
LEMMA NPJobMovesAhead ==
  ASSUME OneReplicaInv, TypeOK', Forward, NEW p \in Process, NEW n \in NodePool,
         \A d \in NodePool \ {n} : Settles(d),
         NEW k \in ApplyJob, NPIs(p, n, k), JobLeads(n, k)'
  PROVE  NPJobsLead'
<1> SUFFICES ASSUME NEW q \in Process, NEW d \in NodePool
             PROVE  JobLeads(d, npJob[q][d])'
  BY DEF NPJobsLead
<1>1. q = p
  BY DEF OneReplicaInv, OneReplica
<1>2. npJob'[q][d] = IF d = n THEN k ELSE npJob[q][d]
  BY <1>1, OneTyped DEF NPIs, TypeOK
<1>3. CASE d = n
  BY <1>2, <1>3 DEF JobLeads
<1>4. CASE d # n
  <2>1. /\ npJob[q][d] \in ApplyJob /\ d \in Resource
        /\ JobSound(d, npJob[q][d]) /\ JobLeads(d, npJob[q][d])
    BY OneTyped DEF TypeOK, Resource, NPJobsSound, OneReplicaInv, NPJobsLead
  <2>2. PICK j \in ApplyJob : j = npJob[q][d]
    BY <2>1
  <2>3. JobLeads(d, j)'
    BY <1>4, <2>1, <2>2, JobLeadsKept
  <2> QED
    BY <1>2, <1>4, <2>2, <2>3 DEF JobLeads
<1> QED
  BY <1>3, <1>4

-----------------------------------------------------------------------------
(* A reconcile decides and writes                                           *)

(* What is skipped has been applied.                                        *)
LEMMA DecisionLeads ==
  ASSUME OneReplicaInv, NEW r \in Resource, NEW j \in ApplyJob,
         JobSound(r, j), JobLeads(r, j), j.at = "apply", UNCHANGED <<maestroVars, lateWork>>,
         NEW k \in ApplyJob, k = [j EXCEPT !.at = Decision(j.mc, r, j)]
  PROVE  JobLeads(r, k)'
<1>1. /\ k.at = Decision(j.mc, r, j) /\ k.gen = j.gen /\ k.mc = j.mc
      /\ UNCHANGED <<work, feedback, highest, lateWork>> /\ j.mc \in MC
  BY DEF ApplyJob, maestroVars, JobSound
<1>2. /\ k.at \in {"create", "patch", "feedback"}
      /\ k.at = "feedback" => work[j.mc][r].gen = j.gen
  BY <1>1 DEF Decision
<1>3. \A m \in MC : highest[m][r] <= j.gen
  BY DEF JobLeads
<1>4. k.at = "feedback" => highest[j.mc][r] = j.gen
  <2>1. /\ work[j.mc][r].gen <= highest[j.mc][r]
        /\ work[j.mc][r].gen \in Nat /\ highest[j.mc][r] \in Nat
    BY <1>1, OneTyped
  <2> QED
    BY <1>1, <1>2, <1>3, <2>1
<1> QED
  BY <1>1, <1>2, <1>3, <1>4 DEF JobLeads

(* A write to Maestro, by a job or late: one ManifestWork may be replaced,  *)
(* and the highest generation applied goes up to what it brings.            *)
LEMMA WriteRaises ==
  ASSUME OneReplicaInv, NEW r \in Resource, NEW m \in MC, NEW j, j.gen \in Nat, j.gen > 0,
         Write(m, r, j), UNCHANGED feedback
  PROVE  /\ Forward
         /\ \A n \in MC, q \in Resource :
               ~(n = m /\ q = r) =>
                   work'[n][q] = work[n][q] /\ highest'[n][q] = highest[n][q]
         /\ \/ /\ j.at = "create" /\ work[m][r] # NoWork
               /\ work'[m][r] = work[m][r] /\ highest'[m][r] = highest[m][r]
            \/ /\ ~(j.at = "create" /\ work[m][r] # NoWork)
               /\ work'[m][r] = Manifest(j)
               /\ highest'[m][r] = IF highest[m][r] < j.gen THEN j.gen ELSE highest[m][r]
<1>1. /\ work \in [MC -> [Resource -> [gen : Nat, version : Version \cup {NoVersion}]]]
      /\ highest \in [MC -> [Resource -> Nat]]
      /\ highest[m][r] \in Nat /\ work[m][r].gen \in Nat /\ work[m][r].gen <= highest[m][r]
  BY OneTyped DEF TypeOK
<1> DEFINE top == IF highest[m][r] < work'[m][r].gen THEN work'[m][r].gen ELSE highest[m][r]
<1>2. highest' = [highest EXCEPT ![m][r] = top]
  BY <1>1 DEF Write
<1>3. work' = Written(m, r, j)
  BY DEF Write
<1> HIDE DEF top
<1>4. highest'[m][r] = top /\ \A n \in MC, q \in Resource :
                                 ~(n = m /\ q = r) => highest'[n][q] = highest[n][q]
  BY <1>1, <1>2
<1>5. Manifest(j).gen = j.gen /\ Manifest(j) # NoWork
  BY DEF Manifest, NoWork
<1>6. CASE j.at = "create" /\ work[m][r] # NoWork
  <2>1. work' = work
    BY <1>3, <1>6 DEF Written
  <2>2. top = highest[m][r]
    BY <1>1, <2>1 DEF top
  <2>3. \A n \in MC, q \in Resource : highest'[n][q] = highest[n][q]
    BY <1>4, <2>2
  <2>4. Forward
    BY <1>1, <2>1, <2>3 DEF Forward
  <2> QED
    BY <1>6, <2>1, <2>3, <2>4
<1>7. CASE ~(j.at = "create" /\ work[m][r] # NoWork)
  <2>1. work' = [work EXCEPT ![m][r] = Manifest(j)]
    BY <1>3, <1>7 DEF Written
  <2>2. work'[m][r] = Manifest(j) /\ \A n \in MC, q \in Resource :
                                        ~(n = m /\ q = r) => work'[n][q] = work[n][q]
    BY <1>1, <2>1
  <2>3. top = IF highest[m][r] < j.gen THEN j.gen ELSE highest[m][r]
    BY <1>5, <2>2 DEF top
  <2>4. Forward
    <3> SUFFICES ASSUME NEW n \in MC, NEW q \in Resource
                 PROVE  /\ highest'[n][q] >= highest[n][q]
                        /\ work[n][q] # NoWork => work'[n][q] # NoWork
      BY DEF Forward
    <3>1. CASE n = m /\ q = r
      BY <1>1, <1>4, <1>5, <2>2, <2>3, <3>1
    <3>2. CASE ~(n = m /\ q = r)
      <4>1. highest[n][q] \in Nat
        BY <1>1
      <4> QED
        BY <1>4, <2>2, <3>2, <4>1
    <3> QED
      BY <3>1, <3>2
  <2> QED
    BY <1>4, <1>7, <2>2, <2>3, <2>4
<1> QED
  BY <1>6, <1>7

(* The write of a job puts its generation where there was an older one, or  *)
(* none: nothing newer has ever been applied. A late create may have come   *)
(* before; then the job ends.                                               *)
LEMMA WriteLeads ==
  ASSUME OneReplicaInv, NEW r \in Resource, NEW j \in ApplyJob,
         JobSound(r, j), JobLeads(r, j), j.at \in {"create", "patch"},
         Write(j.mc, r, j), UNCHANGED <<feedback, lateWork>>,
         NEW k \in ApplyJob, k = AfterWrite(j.mc, r, j)
  PROVE  /\ Forward /\ Upward
         /\ \A q \in Resource \ {r} : Settles(q)
         /\ \A m \in MC, q \in Resource : ~(m = j.mc /\ q = r) => work'[m][q] = work[m][q]
         /\ JobLeads(r, k)'
         /\ k = IdleApply \/ k = [j EXCEPT !.at = "feedback"]
<1>1. /\ j.mc \in MC /\ j.gen \in Nat /\ j.gen > 0
      /\ spec[r].gen \in Nat /\ highest[j.mc][r] \in Nat
      /\ j.version = versionAt[r][j.gen]
      /\ work[j.mc][r] \in [gen : Nat, version : Version \cup {NoVersion}]
  <2>1. TypeOK
    BY OneTyped
  <2>2. j.mc \in MC /\ j.gen \in Nat /\ j.gen > 0 /\ j.version = versionAt[r][j.gen]
    BY <2>1 DEF JobSound, ApplyJob, TypeOK
  <2> QED
    BY <2>1, <2>2 DEF TypeOK
<1>2. /\ Forward
      /\ \A n \in MC, q \in Resource :
            ~(n = j.mc /\ q = r) =>
                work'[n][q] = work[n][q] /\ highest'[n][q] = highest[n][q]
      /\ \/ /\ j.at = "create" /\ work[j.mc][r] # NoWork
            /\ work'[j.mc][r] = work[j.mc][r] /\ highest'[j.mc][r] = highest[j.mc][r]
         \/ /\ ~(j.at = "create" /\ work[j.mc][r] # NoWork)
            /\ work'[j.mc][r] = Manifest(j)
            /\ highest'[j.mc][r] = IF highest[j.mc][r] < j.gen THEN j.gen ELSE highest[j.mc][r]
  BY <1>1, WriteRaises
<1>3. \A q \in Resource \ {r} : Settles(q)
  BY <1>2 DEF Settles
<1>4. /\ \A m \in MC : highest[m][r] <= j.gen
      /\ \A x \in lateWork : x.of = r => x.gen <= j.gen
  BY DEF JobLeads
<1>5. CASE j.at = "create" /\ work[j.mc][r] # NoWork
  <2>1. k = IdleApply
    BY <1>5 DEF AfterWrite
  <2>2. JobLeads(r, k)'
    BY <2>1, IdleSound DEF JobLeads
  <2>3. Upward
    BY <1>2, <1>5 DEF Upward
  <2> QED
    BY <1>2, <1>3, <2>1, <2>2, <2>3
<1>6. CASE ~(j.at = "create" /\ work[j.mc][r] # NoWork)
  <2>1. k = [j EXCEPT !.at = "feedback"]
    BY <1>6 DEF AfterWrite
  <2>2. k.at = "feedback" /\ k.gen = j.gen /\ k.mc = j.mc
    BY <2>1 DEF ApplyJob
  <2>3. highest'[j.mc][r] = j.gen
    BY <1>1, <1>2, <1>4, <1>6
  <2>4. \A m \in MC : highest'[m][r] <= j.gen
    <3> SUFFICES ASSUME NEW m \in MC PROVE highest'[m][r] <= j.gen
      OBVIOUS
    <3>1. CASE m = j.mc
      BY <1>1, <2>3, <3>1
    <3>2. CASE m # j.mc
      BY <1>2, <1>4, <3>2
    <3> QED
      BY <3>1, <3>2
  <2>5. JobLeads(r, k)'
    BY <1>4, <2>2, <2>3, <2>4 DEF JobLeads
  <2>6. work'[j.mc][r] = Manifest(j)
    BY <1>2, <1>6
  <2>7. work'[j.mc][r] # work[j.mc][r] => work'[j.mc][r].gen > work[j.mc][r].gen
    <3> SUFFICES ASSUME Manifest(j) # work[j.mc][r] PROVE Manifest(j).gen > work[j.mc][r].gen
      BY <2>6
    <3>1. Manifest(j).gen = j.gen /\ work[j.mc][r].gen \in Nat
      BY <1>1 DEF Manifest
    <3>2. work[j.mc][r].gen <= j.gen
      <4>1. /\ work[j.mc][r].gen <= highest[j.mc][r] /\ highest[j.mc][r] <= j.gen
        BY <1>1, <1>4, OneTyped
      <4> QED
        BY <1>1, <3>1, <4>1
    <3>3. work[j.mc][r].gen # j.gen
      <4> SUFFICES ASSUME work[j.mc][r].gen = j.gen PROVE FALSE
        OBVIOUS
      <4>1. work[j.mc][r] # NoWork
        BY <1>1 DEF NoWork
      <4>2. work[j.mc][r].version = j.version
        BY <1>1, <4>1, OneTyped DEF PipelineInv, WorkMatchesGeneration
      <4>3. work[j.mc][r] = [gen |-> work[j.mc][r].gen, version |-> work[j.mc][r].version]
        BY <1>1
      <4> QED
        BY <4>2, <4>3 DEF Manifest
    <3> QED
      BY <1>1, <3>1, <3>2, <3>3
  <2>8. Upward
    BY <1>2, <2>7 DEF Upward
  <2> QED
    BY <1>2, <1>3, <2>1, <2>5, <2>8
<1> QED
  BY <1>5, <1>6

(* The feedback that was read is there.                                     *)
LEMMA FeedbackLeads ==
  ASSUME OneReplicaInv, NEW r \in Resource, NEW j \in ApplyJob,
         JobSound(r, j), JobLeads(r, j), j.at = "feedback", UNCHANGED <<maestroVars, lateWork>>,
         NEW k \in ApplyJob, k = [j EXCEPT !.at = "put", !.available = Observed(j.mc, r)]
  PROVE  JobLeads(r, k)'
<1>1. /\ k.at = "put" /\ k.gen = j.gen /\ k.mc = j.mc /\ k.available = Observed(j.mc, r)
      /\ UNCHANGED <<highest, feedback, lateWork>>
  BY DEF ApplyJob, maestroVars
<1>2. k.available \in {"True", "False"} => feedback[j.mc][r] # "none"
  BY <1>1 DEF Observed
<1> QED
  BY <1>1, <1>2 DEF JobLeads

(* What a reconcile puts was applied, and reported by the management        *)
(* cluster.                                                                 *)
LEMMA PutIsReported ==
  ASSUME OneReplicaInv, NEW r \in Resource, NEW j \in ApplyJob,
         JobSound(r, j), JobLeads(r, j), j.at = "put"
  PROVE  Reported(r, [gen |-> j.gen, available |-> j.available])
<1>1. j.mc \in MC /\ j.gen \in Nat /\ j.gen > 0 /\ spec[r].gen \in Nat
  BY OneTyped DEF JobSound, ApplyJob, TypeOK
<1>2. /\ highest[j.mc][r] = j.gen
      /\ j.available \in {"True", "False"} => feedback[j.mc][r] # "none"
  BY DEF JobLeads
<1> QED
  BY <1>1, <1>2 DEF Reported, Applied

-----------------------------------------------------------------------------
(* The status entries                                                       *)

(* What was applied and reported on stays so.                               *)
LEMMA ReportedGrows ==
  ASSUME OneReplicaInv, TypeOK', Forward, NEW r \in Resource,
         NEW e \in [gen : Nat, available : Availability], Reported(r, e)
  PROVE  Reported(r, e)'
<1>1. PICK m \in MC :
        /\ highest[m][r] >= e.gen
        /\ e.available \in {"True", "False"} => feedback[m][r] # "none"
  BY DEF Reported, Applied
<1>2. highest[m][r] \in Nat /\ highest'[m][r] \in Nat /\ e.gen \in Nat /\ e.gen > 0
  BY OneTyped DEF TypeOK, Reported
<1>3. highest'[m][r] >= highest[m][r]
  BY <1>2 DEF Forward
<1>4. highest'[m][r] >= e.gen
  BY <1>1, <1>2, <1>3
<1>5. e.available \in {"True", "False"} => feedback'[m][r] # "none"
  BY <1>1 DEF Forward
<1> QED
  BY <1>2, <1>4, <1>5 DEF Reported, Applied

(* The payloads of hc and nodepool are entries.                             *)
LEMMA PayloadIsEntry ==
  \A x \in Payload :
      x.adapter \in {"hc", "nodepool"} =>
          x.of \in Resource /\ x.value \in [gen : Nat, available : Availability]
BY DEF Payload, Resource

\* The entries that are stored, and those in flight.
StatusInv == EntriesReported /\ LateReported /\ ReconciledIsDone

(* A step that stores nothing keeps the entries and what is derived.        *)
LEMMA StatusStays ==
  ASSUME OneReplicaInv, TypeOK', Forward, UNCHANGED <<envVars, statusVars, late>>
  PROVE  StatusInv'
<1>1. EntriesReported'
  <2> SUFFICES ASSUME NEW r \in Resource, status'[r] # [gen |-> 0, available |-> "none"]
               PROVE  Reported(r, status[r])'
    BY DEF EntriesReported
  <2>1. /\ status'[r] = status[r] /\ Reported(r, status[r])
        /\ status[r] \in [gen : Nat, available : Availability]
    BY OneTyped DEF statusVars, OneReplicaInv, EntriesReported, TypeOK
  <2>2. PICK e \in [gen : Nat, available : Availability] : e = status[r]
    BY <2>1
  <2>3. Reported(r, e)'
    BY <2>1, <2>2, ReportedGrows
  <2> QED
    BY <2>1, <2>2, <2>3 DEF Reported, Applied
<1>2. LateReported'
  <2> SUFFICES ASSUME NEW x \in late, x.adapter \in {"hc", "nodepool"}
               PROVE  Reported(x.of, x.value)'
    BY DEF LateReported
  <2>1. Reported(x.of, x.value) /\ x \in Payload
    BY OneTyped DEF OneReplicaInv, LateReported, TypeOK
  <2> QED
    BY <2>1, PayloadIsEntry, ReportedGrows
<1>3. ReconciledIsDone'
  BY DEF OneReplicaInv, ReconciledIsDone, Exists, HCDone, envVars, statusVars
<1> QED
  BY <1>1, <1>2, <1>3 DEF StatusInv

(* Storing a true report keeps them.                                        *)
LEMMA StoreReported ==
  ASSUME OneReplicaInv, TypeOK', UNCHANGED <<envVars, maestroVars>>, NEW x \in Payload, Store(x),
         x.adapter \in {"hc", "nodepool"} => Reported(x.of, x.value)
  PROVE  EntriesReported' /\ ReconciledIsDone'
<1>1. Forward /\ TypeOK /\ status \in [Resource -> [gen : Nat, available : Availability]]
  BY OneTyped, MaestroStays DEF TypeOK
<1>2. EntriesReported'
  <2> SUFFICES ASSUME NEW r \in Resource, status'[r] # [gen |-> 0, available |-> "none"]
               PROVE  Reported(r, status[r])'
    BY DEF EntriesReported
  <2>1. PICK e \in [gen : Nat, available : Availability] : e = status'[r]
    BY DEF TypeOK
  <2>2. Reported(r, e)
    <3>1. CASE status'[r] = status[r]
      BY <2>1, <3>1 DEF OneReplicaInv, EntriesReported
    <3>2. CASE status'[r] # status[r]
      <4>1. x.adapter \in {"hc", "nodepool"} /\ status' = [status EXCEPT ![x.of] = x.value]
        BY <3>2 DEF Store
      <4>2. r = x.of /\ e = x.value
        BY <1>1, <2>1, <3>2, <4>1
      <4> QED
        BY <4>1, <4>2
    <3> QED
      BY <3>1, <3>2
  <2>3. Reported(r, e)'
    BY <1>1, <2>2, ReportedGrows
  <2> QED
    BY <2>1, <2>3 DEF Reported, Applied
<1>3. ReconciledIsDone'
  <2>1. \A c \in reconciled' : c \in reconciled /\ HCDone(status', c)
    BY DEF Store
  <2> QED
    BY <2>1 DEF OneReplicaInv, ReconciledIsDone, Exists, HCDone, envVars
<1> QED
  BY <1>2, <1>3

(* So does a PUT of a true report, whatever becomes of it.                  *)
LEMMA PutReported ==
  ASSUME OneReplicaInv, TypeOK', UNCHANGED <<envVars, maestroVars>>, NEW x \in Payload, Put(x),
         x.adapter \in {"hc", "nodepool"} => Reported(x.of, x.value)
  PROVE  StatusInv'
<1>1. Forward /\ TypeOK
  BY OneTyped, MaestroStays
<1>2. EntriesReported' /\ ReconciledIsDone'
  <2>1. CASE Store(x)
    BY <2>1, StoreReported
  <2>2. CASE UNCHANGED statusVars
    <3>1. EntriesReported /\ ReconciledIsDone
      BY DEF OneReplicaInv
    <3> QED
      BY <2>2, <3>1 DEF EntriesReported, ReconciledIsDone, Reported, Applied, Exists, HCDone,
                        statusVars, maestroVars, envVars
  <2> QED
    BY <2>1, <2>2 DEF Put
<1>3. LateReported'
  <2> SUFFICES ASSUME NEW y \in late', y.adapter \in {"hc", "nodepool"}
               PROVE  Reported(y.of, y.value)'
    BY DEF LateReported
  <2>1. y \in late \/ y = x
    BY DEF Put
  <2>2. Reported(y.of, y.value) /\ y \in Payload
    BY <1>1, <2>1 DEF OneReplicaInv, LateReported, TypeOK
  <2> QED
    BY <1>1, <2>2, PayloadIsEntry, ReportedGrows
<1> QED
  BY <1>2, <1>3 DEF StatusInv

-----------------------------------------------------------------------------
(* While no PUT was delayed                                                 *)

\* A step after which no PUT was delayed is one before which none was.
NoDelayBefore == delays' = 0 => delays = 0

\* The placements, and who is about to record one, stay what they are if no
\* PUT was delayed.
PlacementStays == delays' = 0 => UNCHANGED <<placement, everPlaced, placeJob, late>>

LEMMA PlacementStandsKept ==
  ASSUME OneReplicaInv, NoDelayBefore, PlacementStays
  PROVE  PlacementStands'
BY DEF OneReplicaInv, PlacementStands, PlacementStays, NoDelayBefore

(* A PUT of another adapter leaves the placements alone; one that is        *)
(* delayed is counted.                                                      *)
LEMMA PutNoPlacement ==
  ASSUME TypeOK, NEW x, Put(x), x.adapter # "placement", UNCHANGED placeJob
  PROVE  NoDelayBefore /\ PlacementStays
<1>1. delays \in Nat
  BY ConstantAssumption DEF TypeOK
<1>2. CASE Store(x) /\ UNCHANGED <<late, delays>>
  BY <1>2 DEF Store, NoDelayBefore, PlacementStays
<1>3. CASE delays' = delays + 1
  BY <1>1, <1>3 DEF NoDelayBefore, PlacementStays
<1> QED
  BY <1>2, <1>3 DEF Put

(* A ManifestWork with its feedback is there to stay.                       *)
LEMMA ReachedStays ==
  ASSUME Forward, NEW m \in MC, NEW c \in Resource, Reached(m, c)
  PROVE  Reached(m, c)'
BY DEF Forward, Reached

(* One nodepool job may move; all of them follow their hosted clusters.     *)
LEMMA NPJobsFollowKept ==
  ASSUME OneReplicaInv, TypeOK', Forward, NoDelayBefore,
         \/ UNCHANGED npJob
         \/ \E p \in Process, n \in NodePool, k \in ApplyJob :
               /\ NPIs(p, n, k)
               /\ delays = 0 /\ Follows(k) => k.mc # NoMC /\ Reached(k.mc, Owner[n])
  PROVE  NPJobsFollow'
<1> SUFFICES ASSUME delays' = 0, NEW q \in Process, NEW d \in NodePool, Follows(npJob[q][d])'
             PROVE  (npJob[q][d].mc # NoMC /\ Reached(npJob[q][d].mc, Owner[d]))'
  BY DEF NPJobsFollow
<1>1. delays = 0 /\ TypeOK /\ Owner[d] \in Resource
  BY OneTyped, ConstantAssumption DEF NoDelayBefore, Resource
<1>2. PICK j \in ApplyJob : j = npJob'[q][d]
  BY DEF TypeOK
<1>3. Follows(j)
  BY <1>2 DEF Follows
<1>4. j.mc # NoMC /\ Reached(j.mc, Owner[d])
  <2>1. CASE j = npJob[q][d]
    BY <1>1, <1>3, <2>1 DEF OneReplicaInv, NPJobsFollow
  <2>2. CASE j # npJob[q][d]
    <3>1. PICK p \in Process, n \in NodePool, k \in ApplyJob :
             /\ NPIs(p, n, k)
             /\ delays = 0 /\ Follows(k) => k.mc # NoMC /\ Reached(k.mc, Owner[n])
      BY <1>2, <2>2
    <3>2. d = n /\ j = k
      BY <1>1, <1>2, <2>2, <3>1 DEF NPIs, TypeOK
    <3> QED
      BY <1>1, <1>3, <3>1, <3>2
  <2> QED
    BY <2>1, <2>2
<1>5. j.mc \in MC
  BY <1>4 DEF ApplyJob
<1>6. Reached(j.mc, Owner[d])'
  BY <1>1, <1>4, <1>5, ReachedStays
<1> QED
  BY <1>2, <1>4, <1>6 DEF Reached

(* So do the ManifestWorks of node pools, if no new one is early,           *)
LEMMA FollowsClusterKept ==
  ASSUME OneReplicaInv, Forward, NoDelayBefore, NoneEarly
  PROVE  delays' = 0 => NodePoolFollowsCluster'
<1> SUFFICES ASSUME delays' = 0, NEW m \in MC, NEW n \in NodePool, work'[m][n] # NoWork
             PROVE  Reached(m, Owner[n])'
  BY DEF NodePoolFollowsCluster, Reached
<1>1. delays = 0 /\ Owner[n] \in Resource
  BY ConstantAssumption DEF NoDelayBefore, Resource
<1>2. Reached(m, Owner[n])
  BY <1>1 DEF NoneEarly, OneReplicaInv, NodePoolFollowsCluster
<1> QED
  BY <1>1, <1>2, ReachedStays

(* and their late writes, if none is left early.                            *)
LEMMA LateWorkFollowsKept ==
  ASSUME OneReplicaInv, TypeOK', Forward, NoDelayBefore, NoneLeftEarly
  PROVE  LateWorkFollows'
<1> SUFFICES ASSUME delays' = 0, NEW x \in lateWork', x.of \in NodePool
             PROVE  Reached(x.mc, Owner[x.of])'
  BY DEF LateWorkFollows, Reached
<1>1. delays = 0 /\ Owner[x.of] \in Resource /\ x.mc \in MC
  BY ConstantAssumption DEF NoDelayBefore, Resource, TypeOK, WorkRequest
<1>2. Reached(x.mc, Owner[x.of])
  BY <1>1 DEF NoneLeftEarly, OneReplicaInv, LateWorkFollows
<1> QED
  BY <1>1, <1>2, ReachedStays

-----------------------------------------------------------------------------
(* One lemma per action                                                     *)

(* A step that leaves Maestro and the jobs of hc and nodepool alone.        *)
LEMMA JobsStayInv ==
  ASSUME OneReplicaInv, PipelineInv', UNCHANGED <<maestroVars, lateWork, hcJob, npJob>>,
         StatusInv', NoDelayBefore, PlacementStands'
  PROVE  OneReplicaInv'
<1>1. /\ Forward /\ NoneEarly /\ NoneLeftEarly
      /\ (\A r \in Resource : Settles(r)) /\ TypeOK'
  BY OneTyped, MaestroStays DEF PipelineInv
<1>2. HCJobsLead' /\ NPJobsLead'
  BY <1>1, HCJobsLeadKept, NPJobsLeadKept DEF Resource
<1>3. NPJobsFollow' /\ LateWorkFollows' /\ (delays' = 0 => NodePoolFollowsCluster')
  BY <1>1, NPJobsFollowKept, LateWorkFollowsKept, FollowsClusterKept
<1>4. OneReplica'
  BY DEF OneReplicaInv, OneReplica
<1> QED
  BY <1>2, <1>3, <1>4 DEF OneReplicaInv, StatusInv

(* An edit takes back what was derived from the older generation.           *)
LEMMA EditSpecOne ==
  ASSUME OneReplicaInv, NEW r \in Resource, EditSpec(r), PipelineInv'
  PROVE  OneReplicaInv'
<1>1. /\ UNCHANGED <<placement, status, everPlaced, maestroVars, jobVars, faultVars>>
      /\ reconciled' = reconciled \ {r}
      /\ \A c \in Resource \ {r} : spec'[c] = spec[c]
      /\ reconciled \subseteq Resource
  BY OneTyped DEF EditSpec, TypeOK, Resource
<1>2. UNCHANGED <<highest, feedback, late, lateWork, delays, placeJob, hcJob, npJob>>
  BY <1>1 DEF maestroVars, jobVars, faultVars
<1>3. EntriesReported' /\ LateReported'
  BY <1>1, <1>2 DEF OneReplicaInv, EntriesReported, LateReported, Reported, Applied
<1>4. ReconciledIsDone'
  BY <1>1 DEF OneReplicaInv, ReconciledIsDone, Exists, HCDone
<1>5. NoDelayBefore /\ PlacementStays
  BY <1>1, <1>2 DEF NoDelayBefore, PlacementStays
<1> QED
  BY <1>1, <1>2, <1>3, <1>4, <1>5, JobsStayInv, PlacementStandsKept DEF StatusInv

(* What the API derives from an entry is what it says.                      *)
LEMMA MarkReconciledOne ==
  ASSUME OneReplicaInv, NEW c \in Cluster, MarkReconciled(c), PipelineInv'
  PROVE  OneReplicaInv'
<1>1. /\ UNCHANGED <<spec, placement, status, everPlaced, maestroVars, highest, feedback, late,
                     lateWork, delays, placeJob, hcJob, npJob>>
      /\ reconciled' = reconciled \cup {c}
      /\ Exists(c) /\ HCDone(status, c)
  BY DEF MarkReconciled, envVars, maestroVars, jobVars, faultVars
<1>2. EntriesReported' /\ LateReported'
  BY <1>1 DEF OneReplicaInv, EntriesReported, LateReported, Reported, Applied
<1>3. ReconciledIsDone'
  BY <1>1 DEF OneReplicaInv, ReconciledIsDone, Exists, HCDone
<1>4. NoDelayBefore /\ PlacementStays
  BY <1>1 DEF NoDelayBefore, PlacementStays
<1> QED
  BY <1>1, <1>2, <1>3, <1>4, JobsStayInv, PlacementStandsKept DEF StatusInv

(* An agent that reports takes no report back.                              *)
LEMMA AgentReportsOne ==
  ASSUME OneReplicaInv, NEW m \in MC, NEW r \in Resource, AgentReports(m, r), PipelineInv'
  PROVE  OneReplicaInv'
<1>1. /\ UNCHANGED <<envVars, statusVars, work, highest, placeJob, hcJob, npJob, late, lateWork,
                     delays>>
      /\ TypeOK'
  BY DEF AgentReports, jobVars, faultVars, PipelineInv
<1>2. PICK a \in {"True", "False"} : feedback' = [feedback EXCEPT ![m][r] = a]
  BY DEF AgentReports
<1>3. \A k \in MC, q \in Resource : feedback[k][q] # "none" => feedback'[k][q] # "none"
  BY <1>2, OneTyped DEF TypeOK
<1>4. Forward /\ NoneEarly /\ NoneLeftEarly /\ \A q \in Resource : Settles(q)
  BY <1>1, <1>3, OneTyped DEF Forward, NoneEarly, NoneLeftEarly, Settles
<1>5. HCJobsLead' /\ NPJobsLead'
  BY <1>1, <1>4, HCJobsLeadKept, NPJobsLeadKept DEF Resource
<1>6. NoDelayBefore /\ PlacementStays
  BY <1>1 DEF NoDelayBefore, PlacementStays, statusVars
<1>7. NPJobsFollow' /\ LateWorkFollows' /\ (delays' = 0 => NodePoolFollowsCluster')
  BY <1>1, <1>4, <1>6, NPJobsFollowKept, LateWorkFollowsKept, FollowsClusterKept
<1>8. StatusInv' /\ PlacementStands'
  BY <1>1, <1>4, <1>6, StatusStays, PlacementStandsKept
<1> QED
  BY <1>5, <1>7, <1>8 DEF OneReplicaInv, StatusInv, OneReplica

(* vr records no placement and no report.                                   *)
LEMMA VRStepOne ==
  ASSUME OneReplicaInv, NEW p \in Process, NEW r \in Resource, VRStep(p, r), PipelineInv'
  PROVE  OneReplicaInv'
<1>1. /\ UNCHANGED <<envVars, maestroVars, lateWork, placeJob, hcJob, npJob>>
      /\ vrJob[p][r] \in VRJob /\ TypeOK /\ TypeOK'
  <2>1. UNCHANGED <<envVars, maestroVars, lateWork, placeJob, hcJob, npJob>>
    BY DEF VRStep, VRGet, VRCheck, VRPut, faultVars
  <2>2. vrJob[p][r] \in VRJob /\ TypeOK
    BY OneTyped DEF TypeOK
  <2> QED
    BY <2>1, <2>2 DEF PipelineInv
<1>2. StatusInv' /\ NoDelayBefore /\ PlacementStays
  <2>1. CASE VRPut(p, r)
    <3> DEFINE x == [adapter |-> "vr", of |-> r, value |-> vrJob[p][r].version]
    <3>1. vrJob[p][r].version \in Version
      BY <1>1, <2>1, OneTyped DEF VRPut, VRJob, JobsSound, VRJobsSound
    <3>2. x \in Payload /\ x.adapter = "vr" /\ Put(x)
      BY <2>1, <3>1 DEF Payload, VRPut
    <3> HIDE DEF x
    <3> QED
      BY <1>1, <3>2, PutReported, PutNoPlacement
  <2>2. CASE ~VRPut(p, r)
    <3>1. UNCHANGED <<statusVars, late, delays>>
      BY <2>2 DEF VRStep, VRGet, VRCheck, faultVars
    <3> QED
      BY <1>1, <3>1, StatusStays, MaestroStays DEF NoDelayBefore, PlacementStays, statusVars
  <2> QED
    BY <2>1, <2>2
<1> QED
  BY <1>1, <1>2, JobsStayInv, PlacementStandsKept

(* placement decides on, and records, a placement only where there is none. *)
LEMMA PlaceStepStands ==
  ASSUME OneReplicaInv, NEW p \in Process, NEW c \in Cluster, PlaceStep(p, c)
  PROVE  NoDelayBefore /\ PlacementStands'
<1>1. /\ delays \in Nat /\ TypeOK
      /\ everPlaced[c] \subseteq MC /\ NoMC \notin MC
      /\ placeJob \in [Process -> [Cluster -> PlaceJob]]
      /\ PlacementStands
  BY OneTyped, ConstantAssumption DEF TypeOK, OneReplicaInv
<1>2. \A q \in Process : q = p
  BY DEF OneReplicaInv, OneReplica
<1>3. CASE PlaceGet(p, c) \/ PlaceCheck(p, c)
  <2>1. UNCHANGED <<placement, everPlaced, late, delays>>
    BY <1>3 DEF PlaceGet, PlaceCheck, statusVars, faultVars
  <2>2. PICK k : PlaceIs(p, c, k) /\ (k.at = "put" => placement[c] = NoMC)
    <3>1. CASE PlaceGet(p, c)
      BY <3>1 DEF PlaceGet, IdlePlace
    <3>2. CASE PlaceCheck(p, c) /\ placement[c] # NoMC
      BY <3>2 DEF PlaceCheck, IdlePlace
    <3>3. CASE PlaceCheck(p, c) /\ placement[c] = NoMC
      <4>1. PICK m \in MC : PlaceIs(p, c, [at |-> "put", mc |-> m])
        BY <3>3 DEF PlaceCheck
      <4> QED
        BY <3>3, <4>1
    <3> QED
      BY <1>3, <3>1, <3>2, <3>3
  <2>3. \A q \in Process, d \in Cluster :
           placeJob'[q][d] = IF d = c THEN k ELSE placeJob[q][d]
    BY <1>1, <1>2, <2>2 DEF PlaceIs
  <2> QED
    BY <1>1, <2>1, <2>2, <2>3 DEF NoDelayBefore, PlacementStands
<1>4. CASE PlacePut(p, c)
  <2> DEFINE m == placeJob[p][c].mc
             x == [adapter |-> "placement", of |-> c, value |-> m]
  <2>1. placeJob[p][c].at = "put" /\ Put(x) /\ PlaceIs(p, c, IdlePlace)
    BY <1>4 DEF PlacePut
  <2>2. x.adapter = "placement" /\ x.of = c /\ x.value = m
    OBVIOUS
  <2> HIDE DEF x, m
  <2>3. NoDelayBefore /\ (delays' = 0 => Store(x) /\ UNCHANGED late)
    BY <1>1, <2>1 DEF Put, NoDelayBefore
  <2>4. SUFFICES ASSUME delays' = 0
                 PROVE  PlacementStands'
    BY <2>3 DEF PlacementStands
  <2>5. /\ delays = 0 /\ late' = late
        /\ placement' = [placement EXCEPT ![c] = m]
        /\ everPlaced' = [everPlaced EXCEPT ![c] = @ \cup {m}]
    BY <2>2, <2>3, <2>4 DEF NoDelayBefore, Store
  <2>6. placement[c] = NoMC
    BY <1>1, <2>1, <2>5 DEF PlacementStands
  <2>7. everPlaced[c] = {}
    BY <1>1, <2>5, <2>6 DEF PlacementStands
  <2>8. \A d \in Cluster : everPlaced'[d] \subseteq {placement'[d]}
    BY <1>1, <2>5, <2>7 DEF PlacementStands, TypeOK
  <2>9. \A q \in Process, d \in Cluster :
           placeJob'[q][d] = IF d = c THEN IdlePlace ELSE placeJob[q][d]
    BY <1>1, <1>2, <2>1 DEF PlaceIs
  <2>10. \A q \in Process, d \in Cluster : placeJob'[q][d].at = "put" => placement'[d] = NoMC
    BY <1>1, <2>5, <2>9 DEF PlacementStands, TypeOK, IdlePlace
  <2> QED
    BY <1>1, <2>5, <2>8, <2>10 DEF PlacementStands
<1> QED
  BY <1>3, <1>4 DEF PlaceStep

LEMMA PlaceStepOne ==
  ASSUME OneReplicaInv, NEW p \in Process, NEW c \in Cluster, PlaceStep(p, c), PipelineInv'
  PROVE  OneReplicaInv'
<1>1. /\ UNCHANGED <<envVars, maestroVars, lateWork, hcJob, npJob>>
      /\ placeJob[p][c] \in PlaceJob /\ TypeOK /\ TypeOK'
  <2>1. UNCHANGED <<envVars, maestroVars, lateWork, hcJob, npJob>>
    BY DEF PlaceStep, PlaceGet, PlaceCheck, PlacePut, faultVars
  <2>2. placeJob[p][c] \in PlaceJob /\ TypeOK
    BY OneTyped DEF TypeOK
  <2> QED
    BY <2>1, <2>2 DEF PipelineInv
<1>2. StatusInv'
  <2>1. CASE PlacePut(p, c)
    <3> DEFINE x == [adapter |-> "placement", of |-> c, value |-> placeJob[p][c].mc]
    <3>1. placeJob[p][c].mc \in MC
      BY <1>1, <2>1, OneTyped DEF PlacePut, PlaceJob, JobsSound, PlaceJobsSound
    <3>2. x \in Payload /\ x.adapter = "placement" /\ Put(x)
      BY <2>1, <3>1 DEF Payload, PlacePut
    <3> HIDE DEF x
    <3> QED
      BY <1>1, <3>2, PutReported
  <2>2. CASE ~PlacePut(p, c)
    <3>1. UNCHANGED <<statusVars, late>>
      BY <2>2 DEF PlaceStep, PlaceGet, PlaceCheck, faultVars
    <3> QED
      BY <1>1, <3>1, StatusStays, MaestroStays
  <2> QED
    BY <2>1, <2>2
<1>3. NoDelayBefore /\ PlacementStands'
  BY PlaceStepStands
<1> QED
  BY <1>1, <1>2, <1>3, JobsStayInv

(* A late PUT stores what was true when it was sent, and still is.          *)
LEMMA LandLateOne == ASSUME OneReplicaInv, LandLate, PipelineInv' PROVE OneReplicaInv'
<1>1. PICK x \in late : Store(x) /\ late' = late \ {x}
  BY DEF LandLate
<1>2. /\ UNCHANGED <<envVars, maestroVars, lateWork, delays, placeJob, hcJob, npJob>>
      /\ TypeOK' /\ x \in Payload
  BY OneTyped DEF LandLate, jobVars, PipelineInv, TypeOK
<1>3. x.adapter \in {"hc", "nodepool"} => Reported(x.of, x.value)
  BY DEF OneReplicaInv, LateReported
<1>4. EntriesReported' /\ ReconciledIsDone'
  BY <1>1, <1>2, <1>3, StoreReported
<1>5. LateReported'
  BY <1>1, <1>2 DEF OneReplicaInv, LateReported, Reported, Applied, maestroVars
<1>6. NoDelayBefore /\ PlacementStands'
  BY <1>1, <1>2 DEF OneReplicaInv, PlacementStands, NoDelayBefore
<1> QED
  BY <1>2, <1>4, <1>5, <1>6, JobsStayInv DEF StatusInv

(* What is known of a job of hc or nodepool.                                *)
LEMMA JobNow ==
  ASSUME OneReplicaInv, NEW p \in Process
  PROVE  /\ \A c \in Cluster : /\ c \in Resource /\ hcJob[p][c] \in ApplyJob
                              /\ JobSound(c, hcJob[p][c]) /\ JobLeads(c, hcJob[p][c])
         /\ \A n \in NodePool : /\ n \in Resource /\ npJob[p][n] \in ApplyJob
                               /\ JobSound(n, npJob[p][n]) /\ JobLeads(n, npJob[p][n])
<1>1. \A c \in Cluster : c \in Resource /\ hcJob[p][c] \in ApplyJob
  BY OneTyped DEF TypeOK, Resource
<1>2. \A n \in NodePool : n \in Resource /\ npJob[p][n] \in ApplyJob
  BY OneTyped DEF TypeOK, Resource
<1>3. \A c \in Cluster : JobSound(c, hcJob[p][c]) /\ JobLeads(c, hcJob[p][c])
  BY OneTyped DEF HCJobsSound, OneReplicaInv, HCJobsLead
<1>4. \A n \in NodePool : JobSound(n, npJob[p][n]) /\ JobLeads(n, npJob[p][n])
  BY OneTyped DEF NPJobsSound, OneReplicaInv, NPJobsLead
<1> QED
  BY <1>1, <1>2, <1>3, <1>4

(* What becomes of the job of an adapter that applies: it moves on, ahead   *)
(* of every ManifestWork of its resource.                                   *)
LEMMA HCStepMoves ==
  ASSUME OneReplicaInv, NEW p \in Process, NEW c \in Cluster, HCStep(p, c), TypeOK'
  PROVE  /\ Forward /\ Upward /\ NoneEarly /\ NoneLeftEarly
         /\ \A q \in Resource \ {c} : Settles(q)
         /\ \E k \in ApplyJob : HCIs(p, c, k) /\ JobLeads(c, k)'
<1> DEFINE j == hcJob[p][c]
<1>1. /\ c \in Resource /\ j \in ApplyJob /\ JobSound(c, j) /\ JobLeads(c, j)
      /\ TypeOK /\ spec[c] \in [gen : Nat, version : Version \cup {NoVersion}]
  <2>1. TypeOK /\ c \in Resource
    BY OneTyped, JobNow
  <2>2. spec[c] \in [gen : Nat, version : Version \cup {NoVersion}]
    BY <2>1 DEF TypeOK
  <2> QED
    BY <2>1, <2>2, JobNow
<1>2. CASE HCWrite(p, c)
  <2>1. /\ j.at \in {"create", "patch"} /\ Write(j.mc, c, j) /\ UNCHANGED <<feedback, lateWork>>
        /\ HCIs(p, c, AfterWrite(j.mc, c, j))
    BY <1>2 DEF HCWrite, faultVars
  <2>2. PICK k \in ApplyJob : k = AfterWrite(j.mc, c, j)
    BY <1>1, IdleSound DEF AfterWrite, ApplyJob
  <2>3. /\ Forward /\ Upward /\ JobLeads(c, k)'
        /\ \A q \in Resource \ {c} : Settles(q)
        /\ \A m \in MC, q \in Resource : ~(m = j.mc /\ q = c) => work'[m][q] = work[m][q]
    BY <1>1, <2>1, <2>2, WriteLeads
  <2>4. NoneEarly /\ NoneLeftEarly
    BY <2>1, <2>3, ConstantAssumption DEF NoneEarly, NoneLeftEarly, Resource
  <2> QED
    BY <2>1, <2>2, <2>3, <2>4
<1>3. CASE ~HCWrite(p, c)
  <2>1. UNCHANGED <<maestroVars, highest, lateWork>>
    BY <1>3 DEF HCStep, HCGet, HCCheck, HCDecide, HCFeedback, HCPut, faultVars, maestroVars
  <2>2. /\ Forward /\ Upward /\ NoneEarly /\ NoneLeftEarly
        /\ \A q \in Resource \ {c} : Settles(q)
    BY <1>1, <2>1, MaestroStays
  <2>3. \E k \in ApplyJob : HCIs(p, c, k) /\ JobLeads(c, k)'
    <3>1. CASE HCGet(p, c)
      <4> DEFINE k == [IdleApply EXCEPT !.at = "statuses", !.gen = spec[c].gen,
                                        !.version = spec[c].version]
      <4>1. k \in ApplyJob /\ k.at = "statuses" /\ k.gen = spec[c].gen
        BY <1>1, IdleSound DEF IdleApply, ApplyJob, Availability
      <4>2. HCIs(p, c, k)
        BY <3>1 DEF HCGet
      <4> HIDE DEF k
      <4>3. /\ \A m \in MC : highest'[m][c] <= k.gen
            /\ \A x \in lateWork' : x.of = c => x.gen <= k.gen
        BY <1>1, <2>1, <4>1, OneTyped DEF PipelineInv, WorkOfAGeneration, LateWorkSound
      <4> QED
        BY <4>1, <4>2, <4>3 DEF JobLeads
    <3>2. CASE HCCheck(p, c) /\ HCGate(c, j.version)
      <4> DEFINE k == HCBuilt(c, j)
      <4>1. k \in ApplyJob /\ k.at = "apply" /\ k.gen = j.gen
        BY <1>1 DEF HCBuilt, ApplyJob, TypeOK
      <4>2. HCIs(p, c, k) /\ j.at = "statuses"
        BY <3>2 DEF HCCheck
      <4> HIDE DEF k
      <4> QED
        BY <1>1, <2>1, <4>1, <4>2 DEF JobLeads, maestroVars
    <3>3. CASE HCCheck(p, c) /\ ~HCGate(c, j.version)
      BY <3>3, IdleSound DEF HCCheck, JobLeads
    <3>4. CASE HCDecide(p, c)
      <4>1. PICK k \in ApplyJob : k = [j EXCEPT !.at = Decision(j.mc, c, j)]
        BY <1>1 DEF Decision, ApplyJob
      <4>2. HCIs(p, c, k) /\ j.at = "apply"
        BY <3>4, <4>1 DEF HCDecide
      <4> QED
        BY <1>1, <2>1, <4>1, <4>2, DecisionLeads
    <3>5. CASE HCFeedback(p, c)
      <4>1. j.at = "feedback" /\ j.mc \in MC
        BY <1>1, <3>5 DEF HCFeedback, JobSound, ApplyJob
      <4>2. Observed(j.mc, c) \in Availability
        BY <1>1, <4>1 DEF Observed, Availability, TypeOK
      <4>3. PICK k \in ApplyJob : k = [j EXCEPT !.at = "put", !.available = Observed(j.mc, c)]
        BY <1>1, <4>2 DEF ApplyJob
      <4>4. HCIs(p, c, k)
        BY <3>5, <4>3 DEF HCFeedback
      <4> QED
        BY <1>1, <2>1, <4>1, <4>3, <4>4, FeedbackLeads
    <3>6. CASE HCPut(p, c)
      BY <3>6, IdleSound DEF HCPut, JobLeads
    <3> QED
      BY <1>3, <3>1, <3>2, <3>3, <3>4, <3>5, <3>6 DEF HCStep, HCCheck
  <2> QED
    BY <2>2, <2>3
<1> QED
  BY <1>2, <1>3

LEMMA HCStepOne ==
  ASSUME OneReplicaInv, NEW p \in Process, NEW c \in Cluster, HCStep(p, c), PipelineInv'
  PROVE  OneReplicaInv'
<1> DEFINE j == hcJob[p][c]
<1>1. UNCHANGED <<envVars, feedback, placeJob, npJob>>
  BY DEF HCStep, HCGet, HCCheck, HCDecide, HCWrite, HCFeedback, HCPut, maestroVars
<1>2. /\ TypeOK /\ TypeOK' /\ c \in Resource
      /\ j \in ApplyJob /\ JobSound(c, j) /\ JobLeads(c, j)
  BY OneTyped, JobNow DEF PipelineInv
<1>3. /\ Forward /\ NoneEarly /\ NoneLeftEarly
      /\ \A q \in Resource \ {c} : Settles(q)
  BY <1>2, HCStepMoves
<1>4. HCJobsLead'
  BY <1>2, <1>3, HCStepMoves, HCJobMovesAhead DEF Resource
<1>5. c \notin NodePool
  BY ConstantAssumption
<1>6. NPJobsLead'
  BY <1>1, <1>2, <1>3, <1>5, NPJobsLeadKept DEF Resource
<1>7. StatusInv' /\ NoDelayBefore /\ PlacementStays
  <2>1. CASE HCPut(p, c)
    <3> DEFINE e == [gen |-> j.gen, available |-> j.available]
               x == [adapter |-> "hc", of |-> c, value |-> e]
    <3>1. j.at = "put" /\ Put(x) /\ UNCHANGED <<envVars, maestroVars, placeJob>>
      BY <1>1, <2>1 DEF HCPut
    <3>2. Reported(c, e)
      BY <1>2, <3>1, PutIsReported
    <3>3. e \in [gen : Nat, available : Availability]
      BY <1>2 DEF ApplyJob
    <3>4. x \in Payload /\ x.adapter # "placement" /\ x.of = c /\ x.value = e
      BY <3>3 DEF Payload
    <3> HIDE DEF x, e
    <3> QED
      BY <1>2, <3>1, <3>2, <3>4, PutReported, PutNoPlacement
  <2>2. CASE ~HCPut(p, c)
    <3>1. UNCHANGED <<statusVars, late, delays>>
      BY <2>2 DEF HCStep, HCGet, HCCheck, HCDecide, HCWrite, HCFeedback, faultVars
    <3> QED
      BY <1>1, <1>2, <1>3, <3>1, StatusStays DEF NoDelayBefore, PlacementStays, statusVars
  <2> QED
    BY <2>1, <2>2
<1>8. PlacementStands'
  BY <1>7, PlacementStandsKept
<1>9. NPJobsFollow' /\ LateWorkFollows' /\ (delays' = 0 => NodePoolFollowsCluster')
  BY <1>1, <1>2, <1>3, <1>7, NPJobsFollowKept, LateWorkFollowsKept, FollowsClusterKept
<1> QED
  BY <1>4, <1>6, <1>7, <1>8, <1>9 DEF OneReplicaInv, StatusInv, OneReplica

(* A hosted cluster that is reported available is where the cluster stands  *)
(* placed.                                                                  *)
LEMMA HostedIsReached ==
  ASSUME OneReplicaInv, delays = 0, NEW c \in Cluster, status[c].available = "True"
  PROVE  placement[c] # NoMC /\ Reached(placement[c], c)
<1>1. c \in Resource /\ Home(c) = c /\ status[c] \in [gen : Nat, available : Availability]
  BY OneTyped DEF Resource, Home, TypeOK
<1>2. Reported(c, status[c])
  BY <1>1 DEF OneReplicaInv, EntriesReported
<1>3. PICK m \in MC : highest[m][c] >= status[c].gen /\ feedback[m][c] # "none"
  BY <1>2 DEF Reported, Applied
<1>4. highest[m][c] > 0
  BY <1>1, <1>2, <1>3, OneTyped DEF Reported
<1>5. work[m][c] # NoWork
  BY <1>1, <1>4, OneTyped
<1>6. m \in everPlaced[c]
  BY <1>1, <1>5, OneTyped DEF WorkWherePlaced
<1>7. m = placement[c]
  BY <1>6 DEF OneReplicaInv, PlacementStands
<1> QED
  BY <1>3, <1>5, <1>7, ConstantAssumption DEF Reached

LEMMA NPStepMoves ==
  ASSUME OneReplicaInv, NEW p \in Process, NEW n \in NodePool, NPStep(p, n), TypeOK'
  PROVE  /\ Forward /\ Upward /\ NoneEarly /\ NoneLeftEarly
         /\ \A q \in Resource \ {n} : Settles(q)
         /\ \E k \in ApplyJob :
               /\ NPIs(p, n, k)
               /\ JobLeads(n, k)'
               /\ delays = 0 /\ Follows(k) => k.mc # NoMC /\ Reached(k.mc, Owner[n])
<1> DEFINE j == npJob[p][n]
           o == Owner[n]
<1>1. /\ n \in Resource /\ j \in ApplyJob /\ JobSound(n, j) /\ JobLeads(n, j)
      /\ TypeOK /\ spec[n] \in [gen : Nat, version : Version \cup {NoVersion}]
      /\ o \in Cluster
  <2>1. TypeOK /\ n \in Resource
    BY OneTyped, JobNow
  <2>2. spec[n] \in [gen : Nat, version : Version \cup {NoVersion}]
    BY <2>1 DEF TypeOK
  <2> QED
    BY <2>1, <2>2, JobNow, ConstantAssumption
<1>2. delays = 0 /\ Follows(j) => j.mc # NoMC /\ Reached(j.mc, o)
  BY DEF OneReplicaInv, NPJobsFollow
<1>3. CASE NPWrite(p, n)
  <2>1. /\ j.at \in {"create", "patch"} /\ Write(j.mc, n, j) /\ UNCHANGED <<feedback, lateWork>>
        /\ NPIs(p, n, AfterWrite(j.mc, n, j))
    BY <1>3 DEF NPWrite, faultVars
  <2>2. PICK k \in ApplyJob : k = AfterWrite(j.mc, n, j)
    BY <1>1, IdleSound DEF AfterWrite, ApplyJob
  <2>3. /\ Forward /\ Upward /\ JobLeads(n, k)'
        /\ \A q \in Resource \ {n} : Settles(q)
        /\ \A m \in MC, q \in Resource : ~(m = j.mc /\ q = n) => work'[m][q] = work[m][q]
        /\ k = IdleApply \/ k = [j EXCEPT !.at = "feedback"]
    BY <1>1, <2>1, <2>2, WriteLeads
  <2>4. Follows(j) /\ (delays = 0 => j.mc # NoMC /\ Reached(j.mc, o))
    BY <1>2, <2>1 DEF Follows
  <2>5. delays = 0 /\ Follows(k) => k.mc # NoMC /\ Reached(k.mc, o)
    <3>1. CASE k = IdleApply
      BY <3>1, IdleSound DEF Follows
    <3>2. CASE k = [j EXCEPT !.at = "feedback"]
      <4>1. k.mc = j.mc
        BY <1>1, <3>2 DEF ApplyJob
      <4> QED
        BY <2>4, <4>1
    <3> QED
      BY <2>3, <3>1, <3>2
  <2>6. NoneEarly
    BY <2>3, <2>4 DEF NoneEarly, Resource
  <2>7. NoneLeftEarly
    BY <2>1 DEF NoneLeftEarly
  <2> QED
    BY <2>1, <2>2, <2>3, <2>5, <2>6, <2>7
<1>4. CASE ~NPWrite(p, n)
  <2>1. UNCHANGED <<maestroVars, highest, lateWork>>
    BY <1>4 DEF NPStep, NPGet, NPCluster, NPCheck, NPDecide, NPFeedback, NPPut, faultVars,
                maestroVars
  <2>2. /\ Forward /\ Upward /\ NoneEarly /\ NoneLeftEarly
        /\ \A q \in Resource \ {n} : Settles(q)
    BY <1>1, <2>1, MaestroStays
  <2>3. \E k \in ApplyJob :
           /\ NPIs(p, n, k)
           /\ JobLeads(n, k)'
           /\ delays = 0 /\ Follows(k) => k.mc # NoMC /\ Reached(k.mc, o)
    <3>1. CASE NPGet(p, n)
      <4> DEFINE k == [IdleApply EXCEPT !.at = "cluster", !.gen = spec[n].gen,
                                        !.version = spec[n].version]
      <4>1. k \in ApplyJob /\ k.at = "cluster" /\ k.gen = spec[n].gen
        BY <1>1, IdleSound DEF IdleApply, ApplyJob, Availability
      <4>2. NPIs(p, n, k)
        BY <3>1 DEF NPGet
      <4> HIDE DEF k
      <4>3. /\ \A m \in MC : highest'[m][n] <= k.gen
            /\ \A x \in lateWork' : x.of = n => x.gen <= k.gen
        BY <1>1, <2>1, <4>1, OneTyped DEF PipelineInv, WorkOfAGeneration, LateWorkSound
      <4> QED
        BY <4>1, <4>2, <4>3 DEF JobLeads, Follows
    <3>2. CASE NPCluster(p, n)
      <4>1. placement[o] \in MC \cup {NoMC} /\ status[o].available \in Availability
        BY <1>1 DEF TypeOK, Resource
      <4>2. PICK k \in ApplyJob :
               k = [j EXCEPT !.at = "statuses", !.mc = placement[o],
                             !.available = status[o].available]
        BY <1>1, <4>1 DEF ApplyJob
      <4>3. /\ NPIs(p, n, k) /\ j.at = "cluster"
            /\ k.at = "statuses" /\ k.gen = j.gen
            /\ k.mc = placement[o] /\ k.available = status[o].available
        BY <1>1, <3>2, <4>2 DEF NPCluster, ApplyJob
      <4>4. JobLeads(n, k)'
        BY <1>1, <2>1, <4>3 DEF JobLeads, maestroVars
      <4>5. delays = 0 /\ Follows(k) => k.mc # NoMC /\ Reached(k.mc, o)
        BY <1>1, <4>3, HostedIsReached DEF Follows
      <4> QED
        BY <4>3, <4>4, <4>5
    <3>3. CASE NPCheck(p, n) /\ NPGate(n, j)
      <4>1. vr[n] \in Version \cup {NoVersion}
        BY <1>1 DEF TypeOK
      <4>2. PICK k \in ApplyJob : k = [j EXCEPT !.at = "apply", !.version = vr[n]]
        BY <1>1, <4>1 DEF ApplyJob
      <4>3. k.at = "apply" /\ k.gen = j.gen /\ k.mc = j.mc
        BY <1>1, <4>2 DEF ApplyJob
      <4>4. NPIs(p, n, k) /\ j.at = "statuses" /\ j.available = "True"
        BY <3>3, <4>2 DEF NPCheck, NPGate, NPBuilt
      <4>5. JobLeads(n, k)'
        BY <1>1, <2>1, <4>3, <4>4 DEF JobLeads, maestroVars
      <4> QED
        BY <1>2, <4>3, <4>4, <4>5 DEF Follows
    <3>4. CASE NPCheck(p, n) /\ ~NPGate(n, j)
      BY <3>4, IdleSound DEF NPCheck, JobLeads, Follows
    <3>5. CASE NPDecide(p, n)
      <4>1. PICK k \in ApplyJob : k = [j EXCEPT !.at = Decision(j.mc, n, j)]
        BY <1>1 DEF Decision, ApplyJob
      <4>2. NPIs(p, n, k) /\ j.at = "apply"
        BY <3>5, <4>1 DEF NPDecide
      <4>3. k.mc = j.mc /\ Follows(j)
        BY <1>1, <4>1, <4>2 DEF ApplyJob, Follows
      <4>4. JobLeads(n, k)'
        BY <1>1, <2>1, <4>1, <4>2, DecisionLeads
      <4> QED
        BY <1>2, <4>2, <4>3, <4>4
    <3>6. CASE NPFeedback(p, n)
      <4>1. j.at = "feedback" /\ j.mc \in MC
        BY <1>1, <3>6 DEF NPFeedback, JobSound, ApplyJob
      <4>2. Observed(j.mc, n) \in Availability
        BY <1>1, <4>1 DEF Observed, Availability, TypeOK
      <4>3. PICK k \in ApplyJob : k = [j EXCEPT !.at = "put", !.available = Observed(j.mc, n)]
        BY <1>1, <4>2 DEF ApplyJob
      <4>4. NPIs(p, n, k)
        BY <3>6, <4>3 DEF NPFeedback
      <4>5. k.mc = j.mc /\ Follows(j)
        BY <1>1, <4>1, <4>3 DEF ApplyJob, Follows
      <4>6. JobLeads(n, k)'
        BY <1>1, <2>1, <4>1, <4>3, FeedbackLeads
      <4> QED
        BY <1>2, <4>4, <4>5, <4>6
    <3>7. CASE NPPut(p, n)
      BY <3>7, IdleSound DEF NPPut, JobLeads, Follows
    <3> QED
      BY <1>4, <3>1, <3>2, <3>3, <3>4, <3>5, <3>6, <3>7 DEF NPStep, NPCheck
  <2> QED
    BY <2>2, <2>3
<1> QED
  BY <1>3, <1>4

(* A nodepool job that writes has a hosted cluster to go to.                *)
LEMMA NPStepOne ==
  ASSUME OneReplicaInv, NEW p \in Process, NEW n \in NodePool, NPStep(p, n), PipelineInv'
  PROVE  OneReplicaInv'
<1> DEFINE j == npJob[p][n]
<1>1. UNCHANGED <<envVars, feedback, placeJob, hcJob>>
  BY DEF NPStep, NPGet, NPCluster, NPCheck, NPDecide, NPWrite, NPFeedback, NPPut, maestroVars
<1>2. /\ TypeOK /\ TypeOK' /\ n \in Resource /\ Owner[n] \in Resource
      /\ j \in ApplyJob /\ JobSound(n, j) /\ JobLeads(n, j)
  BY OneTyped, JobNow, ConstantAssumption DEF PipelineInv, Resource
<1>3. /\ Forward /\ NoneEarly /\ NoneLeftEarly
      /\ \A q \in Resource \ {n} : Settles(q)
  BY <1>2, NPStepMoves
<1>4. n \notin Cluster
  BY ConstantAssumption
<1>5. HCJobsLead'
  BY <1>1, <1>2, <1>3, <1>4, HCJobsLeadKept DEF Resource
<1>6. NPJobsLead'
  BY <1>2, <1>3, NPStepMoves, NPJobMovesAhead DEF Resource
<1>7. StatusInv' /\ NoDelayBefore /\ PlacementStays
  <2>1. CASE NPPut(p, n)
    <3> DEFINE e == [gen |-> j.gen, available |-> j.available]
               x == [adapter |-> "nodepool", of |-> n, value |-> e]
    <3>1. j.at = "put" /\ Put(x) /\ UNCHANGED <<envVars, maestroVars, placeJob>>
      BY <1>1, <2>1 DEF NPPut
    <3>2. Reported(n, e)
      BY <1>2, <3>1, PutIsReported
    <3>3. e \in [gen : Nat, available : Availability]
      BY <1>2 DEF ApplyJob
    <3>4. x \in Payload /\ x.adapter # "placement" /\ x.of = n /\ x.value = e
      BY <3>3 DEF Payload
    <3> HIDE DEF x, e
    <3> QED
      BY <1>2, <3>1, <3>2, <3>4, PutReported, PutNoPlacement
  <2>2. CASE ~NPPut(p, n)
    <3>1. UNCHANGED <<statusVars, late, delays>>
      BY <2>2 DEF NPStep, NPGet, NPCluster, NPCheck, NPDecide, NPWrite, NPFeedback, faultVars
    <3> QED
      BY <1>1, <1>2, <1>3, <3>1, StatusStays DEF NoDelayBefore, PlacementStays, statusVars
  <2> QED
    BY <2>1, <2>2
<1>8. PlacementStands'
  BY <1>7, PlacementStandsKept
<1>9. NPJobsFollow'
  BY <1>2, <1>3, <1>7, NPStepMoves, NPJobsFollowKept
<1>10. LateWorkFollows' /\ (delays' = 0 => NodePoolFollowsCluster')
  BY <1>2, <1>3, <1>7, LateWorkFollowsKept, FollowsClusterKept
<1> QED
  BY <1>5, <1>6, <1>7, <1>8, <1>9, <1>10 DEF OneReplicaInv, StatusInv, OneReplica

(* What a reconcile leaves in flight when it ends is its own; of a node     *)
(* pool, it is not early.                                                   *)
LEMMA FailSettles ==
  ASSUME OneReplicaInv, Fail, NEW p \in Process, NEW r \in Resource,
         IF r \in Cluster THEN HCFail(p, r) ELSE NPFail(p, r)
  PROVE  /\ NoneLeftEarly
         /\ \A q \in Resource \ {r} : Settles(q)
<1> DEFINE j == IF r \in Cluster THEN hcJob[p][r] ELSE npJob[p][r]
<1>1. /\ j \in ApplyJob /\ JobSound(r, j) /\ PipelineInv
      /\ r \notin Cluster => r \in NodePool
      /\ UNCHANGED highest
  BY JobNow, OneTyped DEF Resource, Fail, maestroVars
<1>2. lateWork' \subseteq lateWork \cup NextWrite(r, j)
  BY DEF HCFail, NPFail
<1>3. delays = 0 /\ r \in NodePool /\ Follows(j) => Reached(j.mc, Owner[r])
  BY ConstantAssumption DEF OneReplicaInv, NPJobsFollow
<1> HIDE DEF j
<1>4. \A x \in NextWrite(r, j) :
         x.of = r /\ x.mc = j.mc /\ j.at \in {"create", "patch"}
  BY <1>1, NextWriteSound
<1>5. \A q \in Resource \ {r} : Settles(q)
  BY <1>1, <1>2, <1>4 DEF Settles
<1>6. NoneLeftEarly
  BY <1>2, <1>3, <1>4 DEF NoneLeftEarly, Follows
<1> QED
  BY <1>5, <1>6

(* A reconcile that ends holds nothing up.                                  *)
LEMMA FailOne == ASSUME OneReplicaInv, Fail, PipelineInv' PROVE OneReplicaInv'
<1>1. /\ UNCHANGED <<envVars, statusVars, maestroVars, late, delays>>
      /\ TypeOK /\ TypeOK'
  BY OneTyped DEF Fail, PipelineInv
<1>2. Forward /\ NoneEarly
  BY <1>1, MaestroStays
<1>3. PICK p \in Process :
         \/ \E r \in Resource : VRFail(p, r)
         \/ \E c \in Cluster : PlaceFail(p, c) \/ HCFail(p, c)
         \/ \E n \in NodePool : NPFail(p, n)
  BY DEF Fail
<1>4. IdleApply \in ApplyJob /\ ~Follows(IdleApply) /\ \A r : JobLeads(r, IdleApply)'
  BY IdleSound DEF Follows, JobLeads, IdleApply
<1>5. /\ HCJobsLead' /\ NPJobsLead' /\ NoneLeftEarly
      /\ UNCHANGED npJob \/ \E n \in NodePool : NPIs(p, n, IdleApply)
  <2>1. CASE UNCHANGED <<hcJob, npJob, lateWork>>
    <3>1. NoneLeftEarly /\ \A r \in Resource : Settles(r)
      BY <1>1, <2>1, MaestroStays
    <3>2. HCJobsLead' /\ NPJobsLead'
      BY <1>1, <1>2, <2>1, <3>1, HCJobsLeadKept, NPJobsLeadKept DEF Resource
    <3> QED
      BY <2>1, <3>1, <3>2
  <2>2. CASE \E c \in Cluster : HCFail(p, c)
    <3>1. PICK c \in Cluster : HCFail(p, c)
      BY <2>2
    <3>2. HCIs(p, c, IdleApply) /\ UNCHANGED npJob
      BY <3>1 DEF HCFail
    <3>3. NoneLeftEarly /\ \A q \in Resource \ {c} : Settles(q)
      BY <3>1, FailSettles DEF Resource
    <3>4. (\A d \in Cluster \ {c} : Settles(d)) /\ \A n \in NodePool : Settles(n)
      BY <3>3, ConstantAssumption DEF Resource
    <3>5. HCJobsLead'
      BY <1>1, <1>2, <1>4, <3>2, <3>4, HCJobMovesAhead
    <3>6. NPJobsLead'
      BY <1>1, <1>2, <3>2, <3>4, NPJobsLeadKept
    <3> QED
      BY <3>2, <3>3, <3>5, <3>6
  <2>3. CASE \E n \in NodePool : NPFail(p, n)
    <3>1. PICK n \in NodePool : NPFail(p, n)
      BY <2>3
    <3>2. NPIs(p, n, IdleApply) /\ UNCHANGED hcJob
      BY <3>1 DEF NPFail
    <3>3. NoneLeftEarly /\ \A q \in Resource \ {n} : Settles(q)
      BY <3>1, FailSettles, ConstantAssumption DEF Resource
    <3>4. (\A d \in NodePool \ {n} : Settles(d)) /\ \A c \in Cluster : Settles(c)
      BY <3>3, ConstantAssumption DEF Resource
    <3>5. NPJobsLead'
      BY <1>1, <1>2, <1>4, <3>2, <3>4, NPJobMovesAhead
    <3>6. HCJobsLead'
      BY <1>1, <1>2, <3>2, <3>4, HCJobsLeadKept
    <3> QED
      BY <3>2, <3>3, <3>5, <3>6
  <2> QED
    BY <1>3, <2>1, <2>2, <2>3 DEF VRFail, PlaceFail
<1>6. NoDelayBefore
  BY <1>1 DEF NoDelayBefore
<1>7. StatusInv'
  BY <1>1, <1>2, StatusStays
<1>8. PlacementStands'
  <2>1. PlacementStands /\ UNCHANGED <<placement, everPlaced>>
    BY <1>1 DEF OneReplicaInv, statusVars
  <2>2. \A q \in Process, d \in Cluster :
           placeJob'[q][d].at = "put" => placeJob[q][d].at = "put"
    <3>1. CASE UNCHANGED placeJob
      BY <3>1
    <3>2. CASE \E c \in Cluster : PlaceIs(p, c, IdlePlace)
      BY <1>1, <3>2 DEF PlaceIs, IdlePlace, TypeOK
    <3> QED
      BY <1>3, <3>1, <3>2 DEF VRFail, PlaceFail, HCFail, NPFail
  <2> QED
    BY <1>1, <2>1, <2>2 DEF PlacementStands
<1>9. NPJobsFollow'
  <2>1. \/ UNCHANGED npJob
        \/ \E q \in Process, n \in NodePool, k \in ApplyJob : NPIs(q, n, k) /\ ~Follows(k)
    BY <1>4, <1>5
  <2> QED
    BY <1>1, <1>2, <1>6, <2>1, NPJobsFollowKept
<1>10. LateWorkFollows' /\ (delays' = 0 => NodePoolFollowsCluster')
  BY <1>1, <1>2, <1>5, <1>6, LateWorkFollowsKept, FollowsClusterKept
<1> QED
  BY <1>5, <1>7, <1>8, <1>9, <1>10 DEF OneReplicaInv, StatusInv, OneReplica

(* A late write is behind every job of its resource, and takes nothing away *)
(* but the newer manifests.                                                 *)
LEMMA LandWorkOne == ASSUME OneReplicaInv, LandWork, PipelineInv' PROVE OneReplicaInv'
<1>1. PICK x \in lateWork : Write(x.mc, x.of, x) /\ lateWork' = lateWork \ {x}
  BY DEF LandWork
<1>2. /\ UNCHANGED <<envVars, statusVars, feedback, late, delays, placeJob, hcJob, npJob>>
      /\ TypeOK' /\ x.of \in Resource /\ x.mc \in MC /\ x.gen \in Nat /\ x.gen > 0
  <2>1. TypeOK /\ LateWorkSound /\ TypeOK'
    BY OneTyped DEF PipelineInv
  <2>2. x.of \in Resource /\ x.mc \in MC /\ x.gen \in Nat
    BY <2>1 DEF TypeOK, WorkRequest
  <2>3. x.gen > 0
    BY <2>1, <2>2 DEF LateWorkSound, TypeOK
  <2> QED
    BY <2>1, <2>2, <2>3 DEF LandWork, jobVars
<1>3. /\ Forward
      /\ \A m \in MC, q \in Resource :
            ~(m = x.mc /\ q = x.of) =>
                work'[m][q] = work[m][q] /\ highest'[m][q] = highest[m][q]
      /\ highest'[x.mc][x.of] = highest[x.mc][x.of] \/ highest'[x.mc][x.of] = x.gen
  BY <1>1, <1>2, WriteRaises
<1>4. NoneLeftEarly /\ \A q \in Resource : Settles(q)
  BY <1>1, <1>3 DEF NoneLeftEarly, Settles
<1>5. NoneEarly
  BY <1>3 DEF NoneEarly, Resource, OneReplicaInv, LateWorkFollows
<1>6. HCJobsLead' /\ NPJobsLead'
  BY <1>2, <1>3, <1>4, HCJobsLeadKept, NPJobsLeadKept DEF Resource
<1>7. NoDelayBefore /\ PlacementStays
  BY <1>2 DEF NoDelayBefore, PlacementStays, statusVars
<1>8. StatusInv' /\ PlacementStands'
  BY <1>2, <1>3, <1>7, StatusStays, PlacementStandsKept
<1>9. NPJobsFollow' /\ LateWorkFollows' /\ (delays' = 0 => NodePoolFollowsCluster')
  BY <1>2, <1>3, <1>4, <1>5, <1>7, NPJobsFollowKept, LateWorkFollowsKept, FollowsClusterKept
<1> QED
  BY <1>6, <1>8, <1>9 DEF OneReplicaInv, StatusInv, OneReplica

-----------------------------------------------------------------------------
(* The invariant, and what follows from it                                  *)

LEMMA OneInitInv == OneReplica /\ Init => OneReplicaInv
<1> SUFFICES ASSUME OneReplica, Init PROVE OneReplicaInv
  OBVIOUS
<1>1. PipelineInv
  BY InitInv
<1>2. HCJobsLead /\ NPJobsLead /\ NPJobsFollow /\ LateWorkFollows
  BY IdleSound DEF Init, HCJobsLead, NPJobsLead, NPJobsFollow, LateWorkFollows, JobLeads, Follows
<1>3. EntriesReported /\ LateReported /\ ReconciledIsDone
  BY DEF Init, EntriesReported, LateReported, ReconciledIsDone
<1>4. PlacementStands /\ NodePoolFollowsCluster
  BY DEF Init, PlacementStands, NodePoolFollowsCluster, IdlePlace, Resource
<1> QED
  BY <1>1, <1>2, <1>3, <1>4 DEF OneReplicaInv

LEMMA OneNextInv == OneReplicaInv /\ [Next]_vars => OneReplicaInv'
<1> SUFFICES ASSUME OneReplicaInv, [Next]_vars PROVE OneReplicaInv'
  OBVIOUS
<1>1. PipelineInv' /\ TypeOK'
  BY NextInv DEF OneReplicaInv, PipelineInv
<1>2. CASE \E r \in Resource : EditSpec(r)
  BY <1>1, <1>2, EditSpecOne
<1>3. CASE \E c \in Cluster : MarkReconciled(c)
  BY <1>1, <1>3, MarkReconciledOne
<1>4. CASE \E m \in MC, r \in Resource : AgentReports(m, r)
  BY <1>1, <1>4, AgentReportsOne
<1>5. CASE \E p \in Process, r \in Resource : VRStep(p, r)
  BY <1>1, <1>5, VRStepOne
<1>6. CASE \E p \in Process, c \in Cluster : PlaceStep(p, c) \/ HCStep(p, c)
  BY <1>1, <1>6, PlaceStepOne, HCStepOne
<1>7. CASE \E p \in Process, n \in NodePool : NPStep(p, n)
  BY <1>1, <1>7, NPStepOne
<1>8. CASE LandLate
  BY <1>1, <1>8, LandLateOne
<1>9. CASE Fail
  BY <1>1, <1>9, FailOne
<1>10. CASE LandWork
  BY <1>1, <1>10, LandWorkOne
<1>11. CASE UNCHANGED vars
  <2>1. /\ UNCHANGED <<envVars, statusVars, maestroVars, late, delays, lateWork, placement,
                       everPlaced, placeJob, hcJob, npJob>>
    BY <1>11 DEF vars, statusVars, jobVars, faultVars
  <2>2. StatusInv'
    BY <1>1, <2>1, OneTyped, StatusStays, MaestroStays
  <2>3. NoDelayBefore /\ PlacementStands'
    BY <2>1, PlacementStandsKept DEF NoDelayBefore, PlacementStays
  <2> QED
    BY <1>1, <2>1, <2>2, <2>3, JobsStayInv
<1> QED
  BY <1>2, <1>3, <1>4, <1>5, <1>6, <1>7, <1>8, <1>9, <1>11, <1>10 DEF Next

(* While each adapter has one replica, the stronger invariant holds, with   *)
(* any number of failures, late PUTs and late writes to Maestro.            *)
THEOREM OneReplicaHolds == SafeSpec /\ OneReplica => []OneReplicaInv
<1>1. OneReplica /\ Init => OneReplicaInv
  BY OneInitInv
<1>2. OneReplicaInv /\ [Next]_vars => OneReplicaInv'
  BY OneNextInv
<1> QED
  BY <1>1, <1>2, PTL DEF SafeSpec

(* Deciding on a placement and recording it are two calls; still, until a   *)
(* PUT is delayed, no crash or failed call ever gets a cluster a second one.*)
THEOREM PlacedAtMostOnce ==
  SafeSpec /\ OneReplica =>
      [](delays = 0 => \A c \in Cluster : Cardinality(everPlaced[c]) <= 1)
<1> DEFINE Once == delays = 0 => \A c \in Cluster : Cardinality(everPlaced[c]) <= 1
<1>1. OneReplicaInv => Once
  <2> SUFFICES ASSUME OneReplicaInv, NEW c \in Cluster, delays = 0
               PROVE  Cardinality(everPlaced[c]) <= 1
    OBVIOUS
  <2>1. everPlaced[c] \subseteq {placement[c]}
    BY DEF OneReplicaInv, PlacementStands
  <2>2. IsFiniteSet({placement[c]}) /\ Cardinality({placement[c]}) = 1
    BY FS_Singleton
  <2> QED
    BY <2>1, <2>2, FS_Subset
<1> QED
  BY <1>1, OneReplicaHolds, PTL

(* hc and nodepool report a generation, and what is available of it, only   *)
(* after the one was applied and the other fed back: an older write that    *)
(* lands afterwards cannot make it untrue that it was applied.              *)
THEOREM ReportsAreTrue == SafeSpec /\ OneReplica => []ReportedIsApplied
<1>1. OneReplicaInv => ReportedIsApplied
  BY DEF OneReplicaInv, EntriesReported, ReportedIsApplied, Reported
<1> QED
  BY <1>1, OneReplicaHolds, PTL

(* A Reconciled condition that is True when an adapter reads it means that  *)
(* the last generation of the cluster was applied: it stands on an entry    *)
(* for that generation, the entry on a write of it, and no ManifestWork is  *)
(* ahead of the spec. It still is in Maestro, as it was asked for, unless   *)
(* an older write landed late.                                              *)
THEOREM ReconciledMeansApplied == SafeSpec /\ OneReplica => []ReconciledIsCurrent
<1>1. OneReplicaInv => ReconciledIsCurrent
  <2> SUFFICES ASSUME OneReplicaInv, NEW c \in reconciled
               PROVE  \E m \in MC :
                         /\ highest[m][c] = spec[c].gen
                         /\ \/ work[m][c] = [gen |-> spec[c].gen, version |-> spec[c].version]
                            \/ SetBack(m, c)
    BY DEF ReconciledIsCurrent
  <2>1. c \in Resource
    BY OneTyped DEF TypeOK, Resource
  <2>2. work \in [MC -> [Resource -> [gen : Nat, version : Version \cup {NoVersion}]]]
    BY OneTyped DEF TypeOK
  <2>3. Exists(c) /\ status[c] = [gen |-> spec[c].gen, available |-> "True"]
    BY DEF OneReplicaInv, ReconciledIsDone, HCDone
  <2>4. Reported(c, status[c])
    BY <2>1, <2>3 DEF OneReplicaInv, EntriesReported
  <2>5. PICK m \in MC : highest[m][c] >= spec[c].gen
    BY <2>3, <2>4 DEF Reported, Applied
  <2>6. /\ highest[m][c] \in Nat /\ work[m][c].gen \in Nat
        /\ highest[m][c] <= spec[c].gen /\ work[m][c].gen <= highest[m][c]
        /\ highest[m][c] > 0 => work[m][c] # NoWork
        /\ spec[c].gen \in Nat
    BY <2>1, OneTyped
  <2>7. spec[c].gen > 0
    BY <2>3 DEF Exists
  <2>8. highest[m][c] = spec[c].gen /\ work[m][c] # NoWork
    BY <2>5, <2>6, <2>7
  <2>9. CASE work[m][c].gen < spec[c].gen
    BY <2>8, <2>9 DEF SetBack
  <2>10. CASE work[m][c].gen = spec[c].gen
    <3>1. WorkMatchesGeneration /\ SpecOnRecord
      BY OneTyped DEF PipelineInv
    <3>2. work[m][c].version = versionAt[c][work[m][c].gen]
      BY <2>1, <2>8, <3>1 DEF WorkMatchesGeneration
    <3>3. spec[c].version = versionAt[c][spec[c].gen]
      BY <2>1, <2>3, <3>1 DEF SpecOnRecord
    <3>4. work[m][c].version = spec[c].version
      BY <2>10, <3>2, <3>3
    <3>5. work[m][c] = [gen |-> work[m][c].gen, version |-> work[m][c].version]
      BY <2>1, <2>2
    <3> QED
      BY <2>8, <2>10, <3>4, <3>5
  <2>11. work[m][c].gen < spec[c].gen \/ work[m][c].gen = spec[c].gen
    BY <2>6, <2>8
  <2> QED
    BY <2>9, <2>10, <2>11
<1> QED
  BY <1>1, OneReplicaHolds, PTL

(* Until a PUT is delayed, a node pool's ManifestWork is only ever on the   *)
(* management cluster that reported on the hosted cluster, although where   *)
(* the cluster is and how it does are read some calls before.               *)
THEOREM NodePoolsFollow == SafeSpec /\ OneReplica => [](delays = 0 => NodePoolFollowsCluster)
<1>1. OneReplicaInv => (delays = 0 => NodePoolFollowsCluster)
  BY DEF OneReplicaInv
<1> QED
  BY <1>1, OneReplicaHolds, PTL

(* ApplyManifestWork patches whatever generation it finds, higher or lower; *)
(* still, no reconcile of one replica puts an older generation over a newer *)
(* one, or changes a ManifestWork within its generation: only a write that  *)
(* was given up does, when it lands late.                                   *)
THEOREM WorkNeverGoesBack == SafeSpec /\ OneReplica => WorkMovesForward
<1>1. OneReplicaInv /\ [Next]_vars => [LandWork \/ Upward]_vars
  <2> SUFFICES ASSUME OneReplicaInv, Next, ~LandWork PROVE Upward
    OBVIOUS
  <2>1. TypeOK'
    BY OneNextInv, OneTyped DEF OneReplicaInv, PipelineInv
  <2>2. UNCHANGED work => Upward
    BY DEF Upward
  <2>3. CASE \E p \in Process, c \in Cluster : HCStep(p, c)
    BY <2>1, <2>3, HCStepMoves
  <2>4. CASE \E p \in Process, n \in NodePool : NPStep(p, n)
    BY <2>1, <2>4, NPStepMoves
  <2>5. CASE \E r \in Resource : EditSpec(r)
    BY <2>2, <2>5 DEF EditSpec, maestroVars
  <2>6. CASE \E c \in Cluster : MarkReconciled(c)
    BY <2>2, <2>6 DEF MarkReconciled, maestroVars
  <2>7. CASE \E m \in MC, r \in Resource : AgentReports(m, r)
    BY <2>2, <2>7 DEF AgentReports
  <2>8. CASE \E p \in Process, r \in Resource : VRStep(p, r)
    BY <2>2, <2>8 DEF VRStep, VRGet, VRCheck, VRPut, maestroVars
  <2>9. CASE \E p \in Process, c \in Cluster : PlaceStep(p, c)
    BY <2>2, <2>9 DEF PlaceStep, PlaceGet, PlaceCheck, PlacePut, maestroVars
  <2>10. CASE LandLate \/ Fail
    BY <2>2, <2>10 DEF LandLate, Fail, maestroVars
  <2> QED
    BY <2>3, <2>4, <2>5, <2>6, <2>7, <2>8, <2>9, <2>10 DEF Next
<1>2. OneReplicaInv /\ [Next]_vars =>
        [LandWork \/ \A m \in MC, r \in Resource :
            work'[m][r] # work[m][r] => work'[m][r].gen > work[m][r].gen]_vars
  BY <1>1 DEF Upward
<1> QED
  BY <1>2, OneReplicaHolds, PTL DEF SafeSpec, WorkMovesForward

-----------------------------------------------------------------------------
(***************************************************************************)
(* Any number of replicas: a ManifestWork or an entry may go back, and a   *)
(* cluster may move, but nothing is reported that was not there at all.    *)
(***************************************************************************)

\* What no step of anybody undoes.
Onward ==
    /\ \A r \in Resource : spec[r].gen <= spec'[r].gen
    /\ \A m \in MC, r \in Resource : work[m][r] # NoWork => work'[m][r] # NoWork
    /\ \A m \in MC, r \in Resource : feedback[m][r] # "none" => feedback'[m][r] # "none"

LEMMA StandsStill == ASSUME PipelineInv, UNCHANGED <<spec, work, feedback>> PROVE Onward
<1>1. \A r \in Resource : spec[r].gen \in Nat
  BY DEF PipelineInv, TypeOK
<1> QED
  BY <1>1 DEF Onward

(* What is written, now or late, is a ManifestWork, and all others stay.    *)
LEMMA WriteStands ==
  ASSUME PipelineInv, NEW m \in MC, NEW r \in Resource, NEW j, j.version # NoVersion,
         Write(m, r, j), UNCHANGED <<spec, feedback>>
  PROVE  /\ Onward /\ work'[m][r] # NoWork
         /\ \A l \in MC, q \in Resource :
               work'[l][q] = work[l][q] \/ (l = m /\ q = r)
<1>1. /\ work \in [MC -> [Resource -> [gen : Nat, version : Version \cup {NoVersion}]]]
      /\ \A q \in Resource : spec[q].gen \in Nat
      /\ work' = Written(m, r, j)
  BY DEF PipelineInv, TypeOK, Write
<1>2. Manifest(j) # NoWork
  BY DEF Manifest, NoWork
<1>3. CASE j.at = "create" /\ work[m][r] # NoWork
  BY <1>1, <1>3 DEF Written, Onward
<1>4. CASE work' = [work EXCEPT ![m][r] = Manifest(j)]
  <2>1. \A l \in MC, q \in Resource :
           work'[l][q] = IF l = m /\ q = r THEN Manifest(j) ELSE work[l][q]
    BY <1>1, <1>4
  <2> QED
    BY <1>1, <1>2, <2>1 DEF Onward
<1> QED
  BY <1>1, <1>3, <1>4 DEF Written

LEMMA HostedStays == ASSUME Onward, NEW r \in Resource, Hosted(r) PROVE Hosted(r)'
BY DEF Onward, Hosted, Reached

(* What backs an entry stays.                                               *)
LEMMA BackedStays ==
  ASSUME PipelineInv, TypeOK', Onward, NEW r \in Resource,
         NEW e \in [gen : Nat, available : Availability], Backed(r, e)
  PROVE  Backed(r, e)'
<1>1. e.gen \in Nat /\ spec[r].gen \in Nat /\ spec'[r].gen \in Nat
  BY DEF PipelineInv, TypeOK
<1>2. e.gen <= spec'[r].gen
  BY <1>1 DEF Backed, Onward
<1>3. e.available # "none" => \E m \in MC : work'[m][r] # NoWork
  BY DEF Backed, Onward
<1>4. e.available \in {"True", "False"} => Hosted(r)'
  BY HostedStays DEF Backed
<1> QED
  BY <1>2, <1>3, <1>4 DEF Backed

(* And what backs a job.                                                    *)
LEMMA JobBackedStays ==
  ASSUME Onward, NEW r \in Resource, NEW j \in ApplyJob, JobSound(r, j), JobBacked(r, j)
  PROVE  JobBacked(r, j)'
<1>1. j.at \in {"patch", "feedback", "put"} => j.mc \in MC
  BY DEF JobSound, ApplyJob
<1> QED
  BY <1>1 DEF JobBacked, Onward

(* What is known of the jobs of hc and nodepool.                            *)
LEMMA BackedNow ==
  ASSUME OverlapInv, NEW p \in Process
  PROVE  /\ \A c \in Cluster : /\ c \in Resource /\ hcJob[p][c] \in ApplyJob
                              /\ JobSound(c, hcJob[p][c]) /\ JobBacked(c, hcJob[p][c])
         /\ \A n \in NodePool : /\ n \in Resource /\ npJob[p][n] \in ApplyJob
                               /\ Owner[n] \in Cluster /\ Owner[n] \in Resource
                               /\ JobSound(n, npJob[p][n]) /\ JobBacked(n, npJob[p][n])
                               /\ (Follows(npJob[p][n]) => Hosted(Owner[n]))
<1>1. TypeOK /\ HCJobsSound /\ NPJobsSound /\ HCJobsBacked /\ NPJobsBacked
  BY DEF OverlapInv, PipelineInv, JobsSound
<1>2. ASSUME NEW c \in Cluster
      PROVE  c \in Resource /\ hcJob[p][c] \in ApplyJob
  BY <1>1 DEF TypeOK, Resource
<1>3. ASSUME NEW n \in NodePool
      PROVE  /\ n \in Resource /\ npJob[p][n] \in ApplyJob
             /\ Owner[n] \in Cluster /\ Owner[n] \in Resource
  BY <1>1, ConstantAssumption DEF TypeOK, Resource
<1> QED
  BY <1>1, <1>2, <1>3 DEF HCJobsSound, HCJobsBacked, NPJobsSound, NPJobsBacked

(* The jobs of hc stay backed if they stay,                                 *)
LEMMA HCBackedKept == ASSUME OverlapInv, Onward, UNCHANGED hcJob PROVE HCJobsBacked'
<1> SUFFICES ASSUME NEW p \in Process, NEW c \in Cluster
             PROVE  JobBacked(c, hcJob[p][c])'
  BY DEF HCJobsBacked
<1>1. PICK j \in ApplyJob : j = hcJob[p][c]
  BY BackedNow
<1>2. c \in Resource /\ JobSound(c, j) /\ JobBacked(c, j)
  BY <1>1, BackedNow
<1>3. JobBacked(c, j)'
  BY <1>2, JobBackedStays
<1> QED
  BY <1>1, <1>3 DEF JobBacked

(* and if one moves on to a backed one.                                     *)
LEMMA HCBackedMoves ==
  ASSUME OverlapInv, Onward, NEW p \in Process, NEW c \in Cluster, NEW k \in ApplyJob,
         HCIs(p, c, k), JobBacked(c, k)'
  PROVE  HCJobsBacked'
<1> SUFFICES ASSUME NEW q \in Process, NEW d \in Cluster
             PROVE  JobBacked(d, hcJob[q][d])'
  BY DEF HCJobsBacked
<1>1. hcJob'[q][d] = IF q = p /\ d = c THEN k ELSE hcJob[q][d]
  BY DEF HCIs, OverlapInv, PipelineInv, TypeOK
<1>2. CASE q = p /\ d = c
  BY <1>1, <1>2 DEF JobBacked
<1>3. CASE ~(q = p /\ d = c)
  <2>1. PICK j \in ApplyJob : j = hcJob[q][d]
    BY BackedNow
  <2>2. d \in Resource /\ JobSound(d, j) /\ JobBacked(d, j)
    BY <2>1, BackedNow
  <2>3. JobBacked(d, j)'
    BY <2>2, JobBackedStays
  <2> QED
    BY <1>1, <1>3, <2>1, <2>3 DEF JobBacked
<1> QED
  BY <1>2, <1>3

(* So do those of nodepool.                                                 *)
LEMMA NPBackedKept == ASSUME OverlapInv, Onward, UNCHANGED npJob PROVE NPJobsBacked'
<1> SUFFICES ASSUME NEW p \in Process, NEW n \in NodePool
             PROVE  (JobBacked(n, npJob[p][n]) /\ (Follows(npJob[p][n]) => Hosted(Owner[n])))'
  BY DEF NPJobsBacked
<1>1. PICK j \in ApplyJob : j = npJob[p][n]
  BY BackedNow
<1>2. /\ n \in Resource /\ Owner[n] \in Resource /\ JobSound(n, j) /\ JobBacked(n, j)
      /\ (Follows(j) => Hosted(Owner[n]))
  BY <1>1, BackedNow
<1>3. JobBacked(n, j)' /\ (Follows(j) => Hosted(Owner[n])')
  BY <1>2, JobBackedStays, HostedStays
<1> QED
  BY <1>1, <1>3 DEF JobBacked, Follows

LEMMA NPBackedMoves ==
  ASSUME OverlapInv, Onward, NEW p \in Process, NEW n \in NodePool, NEW k \in ApplyJob,
         NPIs(p, n, k), JobBacked(n, k)', Follows(k) => Hosted(Owner[n])
  PROVE  NPJobsBacked'
<1> SUFFICES ASSUME NEW q \in Process, NEW d \in NodePool
             PROVE  (JobBacked(d, npJob[q][d]) /\ (Follows(npJob[q][d]) => Hosted(Owner[d])))'
  BY DEF NPJobsBacked
<1>1. npJob'[q][d] = IF q = p /\ d = n THEN k ELSE npJob[q][d]
  BY DEF NPIs, OverlapInv, PipelineInv, TypeOK
<1>2. CASE q = p /\ d = n
  <2>1. Owner[n] \in Resource
    BY BackedNow
  <2>2. Follows(k) => Hosted(Owner[n])'
    BY <2>1, HostedStays
  <2> QED
    BY <1>1, <1>2, <2>2 DEF JobBacked, Follows
<1>3. CASE ~(q = p /\ d = n)
  <2>1. PICK j \in ApplyJob : j = npJob[q][d]
    BY BackedNow
  <2>2. /\ d \in Resource /\ Owner[d] \in Resource /\ JobSound(d, j) /\ JobBacked(d, j)
        /\ (Follows(j) => Hosted(Owner[d]))
    BY <2>1, BackedNow
  <2>3. JobBacked(d, j)' /\ (Follows(j) => Hosted(Owner[d])')
    BY <2>2, JobBackedStays, HostedStays
  <2> QED
    BY <1>1, <1>3, <2>1, <2>3 DEF JobBacked, Follows
<1> QED
  BY <1>2, <1>3

\* What the API holds of the reports, and what is in flight.
ReportsInv == EntriesBacked /\ LateBacked /\ ReconciledIsHosted

(* The entries stay backed if those that change are backed when they do;    *)
LEMMA EntriesFollow ==
  ASSUME OverlapInv, TypeOK', Onward, reconciled' \subseteq reconciled,
         \A r \in Resource : status'[r] = status[r] \/ Backed(r, status'[r])
  PROVE  EntriesBacked' /\ ReconciledIsHosted'
<1>1. EntriesBacked'
  <2> SUFFICES ASSUME NEW r \in Resource PROVE Backed(r, status[r])'
    BY DEF EntriesBacked
  <2>1. PICK e \in [gen : Nat, available : Availability] : e = status'[r]
    BY DEF TypeOK
  <2>2. Backed(r, e)
    BY <2>1 DEF OverlapInv, EntriesBacked
  <2>3. Backed(r, e)'
    BY <2>2, BackedStays DEF OverlapInv
  <2> QED
    BY <2>1, <2>3 DEF Backed
<1>2. ReconciledIsHosted'
  <2> SUFFICES ASSUME NEW c \in reconciled' PROVE Hosted(c)'
    BY DEF ReconciledIsHosted
  <2>1. c \in Resource /\ Hosted(c)
    BY DEF OverlapInv, ReconciledIsHosted, PipelineInv, TypeOK, Resource
  <2> QED
    BY <2>1, HostedStays
<1> QED
  BY <1>1, <1>2

(* so do the PUTs in flight.                                                *)
LEMMA LateFollows ==
  ASSUME OverlapInv, TypeOK', Onward,
         \A x \in late' : \/ x \in late
                          \/ x.adapter \in {"hc", "nodepool"} => Backed(x.of, x.value)
  PROVE  LateBacked'
<1> SUFFICES ASSUME NEW x \in late', x.adapter \in {"hc", "nodepool"}
             PROVE  Backed(x.of, x.value)'
  BY DEF LateBacked
<1>1. Backed(x.of, x.value)
  BY DEF OverlapInv, LateBacked
<1>2. x \in Payload
  BY DEF TypeOK
<1>3. /\ x.of \in Resource /\ x.value \in [gen : Nat, available : Availability]
  BY <1>2, PayloadIsEntry
<1> QED
  BY <1>1, <1>3, BackedStays DEF OverlapInv

(* A step that stores nothing keeps the reports.                            *)
LEMMA ReportsStay ==
  ASSUME OverlapInv, TypeOK', Onward, UNCHANGED <<status, late>>, reconciled' \subseteq reconciled
  PROVE  ReportsInv'
BY EntriesFollow, LateFollows DEF ReportsInv

(* Storing a backed report keeps them,                                      *)
LEMMA StoreBacked ==
  ASSUME OverlapInv, TypeOK', Onward, NEW x \in Payload, Store(x),
         x.adapter \in {"hc", "nodepool"} => Backed(x.of, x.value)
  PROVE  EntriesBacked' /\ ReconciledIsHosted'
<1>1. status \in [Resource -> [gen : Nat, available : Availability]]
  BY DEF OverlapInv, PipelineInv, TypeOK
<1>2. reconciled' \subseteq reconciled
  BY DEF Store
<1>3. ASSUME NEW r \in Resource
      PROVE  status'[r] = status[r] \/ Backed(r, status'[r])
  <2>1. CASE x.adapter \in {"hc", "nodepool"} /\ x.of = r
    <3>1. status' = [status EXCEPT ![x.of] = x.value]
      BY <2>1 DEF Store
    <3>2. status'[r] = x.value
      BY <1>1, <2>1, <3>1
    <3> QED
      BY <2>1, <3>2
  <2>2. CASE ~(x.adapter \in {"hc", "nodepool"} /\ x.of = r)
    <3>1. \/ UNCHANGED status
          \/ x.of # r /\ status' = [status EXCEPT ![x.of] = x.value]
      BY <2>2 DEF Store
    <3> QED
      BY <1>1, <3>1
  <2> QED
    BY <2>1, <2>2
<1> QED
  BY <1>2, <1>3, EntriesFollow

(* and so does a PUT of one, whatever becomes of it.                        *)
LEMMA PutBacked ==
  ASSUME OverlapInv, TypeOK', Onward, NEW x \in Payload, Put(x),
         x.adapter \in {"hc", "nodepool"} => Backed(x.of, x.value)
  PROVE  ReportsInv'
<1>1. EntriesBacked' /\ ReconciledIsHosted'
  <2>1. CASE Store(x)
    BY <2>1, StoreBacked
  <2>2. CASE UNCHANGED statusVars
    BY <2>2, EntriesFollow DEF statusVars
  <2> QED
    BY <2>1, <2>2 DEF Put
<1>2. \A y \in late' : y \in late \/ y = x
  BY DEF Put
<1>3. LateBacked'
  BY <1>2, LateFollows
<1> QED
  BY <1>1, <1>3 DEF ReportsInv

(* No node pool comes too early if none is written too early.               *)
LEMMA ComesAfterKept ==
  ASSUME OverlapInv, Onward,
         \A m \in MC, n \in NodePool :
             work'[m][n] # NoWork => work[m][n] # NoWork \/ Hosted(Owner[n])
  PROVE  NodePoolComesAfter'
<1> SUFFICES ASSUME NEW m \in MC, NEW n \in NodePool, work'[m][n] # NoWork
             PROVE  Hosted(Owner[n])'
  BY DEF NodePoolComesAfter
<1>1. Hosted(Owner[n]) /\ Owner[n] \in Resource
  BY ConstantAssumption DEF OverlapInv, NodePoolComesAfter, Resource
<1> QED
  BY <1>1, HostedStays

(* Nor does any write that may still land.                                  *)
LEMMA LateWorkComesAfter ==
  ASSUME OverlapInv, Onward,
         \A x \in lateWork' : \/ x \in lateWork
                              \/ x.of \in NodePool => Hosted(Owner[x.of])
  PROVE  LateWorkBacked'
<1> SUFFICES ASSUME NEW x \in lateWork', x.of \in NodePool
             PROVE  Hosted(Owner[x.of])'
  BY DEF LateWorkBacked
<1>1. Hosted(Owner[x.of]) /\ Owner[x.of] \in Resource
  BY ConstantAssumption DEF OverlapInv, LateWorkBacked, Resource
<1> QED
  BY <1>1, HostedStays

(* A step that moves no job of hc or nodepool, and stores none of their     *)
(* entries.                                                                 *)
LEMMA OthersMove ==
  ASSUME OverlapInv, PipelineInv', Onward, ReportsInv',
         UNCHANGED <<work, lateWork, hcJob, npJob>>
  PROVE  OverlapInv'
<1>1. HCJobsBacked' /\ NPJobsBacked'
  BY HCBackedKept, NPBackedKept
<1>2. NodePoolComesAfter' /\ LateWorkBacked'
  BY ComesAfterKept, LateWorkComesAfter
<1> QED
  BY <1>1, <1>2 DEF OverlapInv, ReportsInv

(* An edit puts the generation further ahead of every entry.                *)
LEMMA EditSpecOverlaps ==
  ASSUME OverlapInv, NEW r \in Resource, EditSpec(r), PipelineInv'
  PROVE  OverlapInv'
<1>1. spec \in [Resource -> [gen : Nat, version : Version \cup {NoVersion}]]
  BY DEF OverlapInv, PipelineInv, TypeOK
<1>2. PICK v \in Version \cup {NoVersion} :
         spec' = [spec EXCEPT ![r] = [gen |-> @.gen + 1, version |-> v]]
  BY ConstantAssumption DEF EditSpec
<1>3. \A q \in Resource : spec[q].gen <= spec'[q].gen
  BY <1>1, <1>2
<1>4. /\ UNCHANGED <<work, feedback, status, late, lateWork, hcJob, npJob>>
      /\ reconciled' \subseteq reconciled
  BY DEF EditSpec, maestroVars, jobVars, faultVars
<1>5. Onward
  BY <1>3, <1>4 DEF Onward
<1> QED
  BY <1>4, <1>5, ReportsStay, OthersMove DEF PipelineInv

(* The API counts a cluster as Reconciled for an entry that is backed.      *)
LEMMA MarkReconciledOverlaps ==
  ASSUME OverlapInv, NEW c \in Cluster, MarkReconciled(c), PipelineInv'
  PROVE  OverlapInv'
<1>1. /\ UNCHANGED <<spec, work, feedback, status, late, lateWork, hcJob, npJob>>
      /\ reconciled' = reconciled \cup {c} /\ status[c].available = "True"
  BY DEF MarkReconciled, HCDone, envVars, maestroVars, jobVars, faultVars
<1>2. Onward
  BY <1>1, StandsStill DEF OverlapInv
<1>3. Hosted(c)
  BY <1>1 DEF OverlapInv, EntriesBacked, Backed, Resource
<1>4. EntriesBacked' /\ LateBacked' /\ ReconciledIsHosted'
  <2>1. EntriesBacked /\ LateBacked /\ ReconciledIsHosted
    BY DEF OverlapInv
  <2>2. EntriesBacked' /\ LateBacked'
    BY <1>1, <2>1 DEF EntriesBacked, LateBacked, Backed, Hosted, Reached
  <2>3. ReconciledIsHosted'
    BY <1>1, <1>3, <2>1 DEF ReconciledIsHosted, Hosted, Reached
  <2> QED
    BY <2>2, <2>3
<1> QED
  BY <1>1, <1>2, <1>4, OthersMove DEF ReportsInv

LEMMA AgentReportsOverlaps ==
  ASSUME OverlapInv, NEW m \in MC, NEW r \in Resource, AgentReports(m, r), PipelineInv'
  PROVE  OverlapInv'
<1>1. /\ feedback \in [MC -> [Resource -> {"none", "True", "False"}]]
      /\ \A q \in Resource : spec[q].gen \in Nat
  BY DEF OverlapInv, PipelineInv, TypeOK
<1>2. /\ UNCHANGED <<spec, work, status, reconciled, late, lateWork, hcJob, npJob>>
      /\ \E a \in {"True", "False"} : feedback' = [feedback EXCEPT ![m][r] = a]
  BY DEF AgentReports, envVars, statusVars, jobVars, faultVars
<1>3. \A l \in MC, q \in Resource : feedback[l][q] # "none" => feedback'[l][q] # "none"
  BY <1>1, <1>2
<1>4. Onward
  BY <1>1, <1>2, <1>3 DEF Onward
<1> QED
  BY <1>2, <1>4, ReportsStay, OthersMove DEF PipelineInv

(* A version that is resolved, a placement that is recorded, and a PUT that *)
(* lands late, disturb no job of hc or nodepool.                            *)
LEMMA VRStepOverlaps ==
  ASSUME OverlapInv, NEW p \in Process, NEW r \in Resource, VRStep(p, r), PipelineInv'
  PROVE  OverlapInv'
<1>1. /\ UNCHANGED <<spec, work, feedback, lateWork, hcJob, npJob>>
      /\ vrJob[p][r] \in VRJob /\ TypeOK'
  <2>1. UNCHANGED <<spec, work, feedback, lateWork, hcJob, npJob>>
    BY DEF VRStep, VRGet, VRCheck, VRPut, envVars, maestroVars, faultVars
  <2>2. TypeOK /\ TypeOK'
    BY DEF OverlapInv, PipelineInv
  <2>3. vrJob[p][r] \in VRJob
    BY <2>2 DEF TypeOK
  <2> QED
    BY <2>1, <2>2, <2>3
<1>2. Onward
  BY <1>1, StandsStill DEF OverlapInv
<1>3. ReportsInv'
  <2>1. CASE VRPut(p, r)
    <3> DEFINE x == [adapter |-> "vr", of |-> r, value |-> vrJob[p][r].version]
    <3>1. vrJob[p][r].version \in Version
      BY <1>1, <2>1 DEF VRPut, VRJob, OverlapInv, PipelineInv, JobsSound, VRJobsSound
    <3>2. x \in Payload /\ x.adapter = "vr" /\ Put(x)
      BY <2>1, <3>1 DEF Payload, VRPut
    <3> HIDE DEF x
    <3> QED
      BY <1>1, <1>2, <3>2, PutBacked
  <2>2. CASE ~VRPut(p, r)
    <3>1. UNCHANGED <<status, reconciled, late>>
      BY <2>2 DEF VRStep, VRGet, VRCheck, faultVars, statusVars
    <3> QED
      BY <1>1, <1>2, <3>1, ReportsStay
  <2> QED
    BY <2>1, <2>2
<1> QED
  BY <1>1, <1>2, <1>3, OthersMove

LEMMA PlaceStepOverlaps ==
  ASSUME OverlapInv, NEW p \in Process, NEW c \in Cluster, PlaceStep(p, c), PipelineInv'
  PROVE  OverlapInv'
<1>1. /\ UNCHANGED <<spec, work, feedback, lateWork, hcJob, npJob>>
      /\ placeJob[p][c] \in PlaceJob /\ TypeOK'
  <2>1. UNCHANGED <<spec, work, feedback, lateWork, hcJob, npJob>>
    BY DEF PlaceStep, PlaceGet, PlaceCheck, PlacePut, envVars, maestroVars, faultVars
  <2>2. TypeOK /\ TypeOK'
    BY DEF OverlapInv, PipelineInv
  <2>3. placeJob[p][c] \in PlaceJob
    BY <2>2 DEF TypeOK
  <2> QED
    BY <2>1, <2>2, <2>3
<1>2. Onward
  BY <1>1, StandsStill DEF OverlapInv
<1>3. ReportsInv'
  <2>1. CASE PlacePut(p, c)
    <3> DEFINE x == [adapter |-> "placement", of |-> c, value |-> placeJob[p][c].mc]
    <3>1. placeJob[p][c].mc \in MC
      BY <1>1, <2>1 DEF PlacePut, PlaceJob, OverlapInv, PipelineInv, JobsSound, PlaceJobsSound
    <3>2. x \in Payload /\ x.adapter = "placement" /\ Put(x)
      BY <2>1, <3>1 DEF Payload, PlacePut
    <3> HIDE DEF x
    <3> QED
      BY <1>1, <1>2, <3>2, PutBacked
  <2>2. CASE ~PlacePut(p, c)
    <3>1. UNCHANGED <<status, reconciled, late>>
      BY <2>2 DEF PlaceStep, PlaceGet, PlaceCheck, faultVars, statusVars
    <3> QED
      BY <1>1, <1>2, <3>1, ReportsStay
  <2> QED
    BY <2>1, <2>2
<1> QED
  BY <1>1, <1>2, <1>3, OthersMove

LEMMA LandLateOverlaps == ASSUME OverlapInv, LandLate, PipelineInv' PROVE OverlapInv'
<1>1. PICK x \in late : Store(x) /\ late' = late \ {x}
  BY DEF LandLate
<1>2. /\ UNCHANGED <<spec, work, feedback, lateWork, hcJob, npJob>>
      /\ TypeOK' /\ x \in Payload
  BY DEF LandLate, envVars, maestroVars, jobVars, OverlapInv, PipelineInv, TypeOK
<1>3. Onward
  BY <1>2, StandsStill DEF OverlapInv
<1>4. x.adapter \in {"hc", "nodepool"} => Backed(x.of, x.value)
  BY DEF OverlapInv, LateBacked
<1>5. EntriesBacked' /\ ReconciledIsHosted'
  BY <1>1, <1>2, <1>3, <1>4, StoreBacked
<1>6. LateBacked'
  BY <1>1, <1>2, <1>3, LateFollows
<1> QED
  BY <1>2, <1>3, <1>5, <1>6, OthersMove DEF ReportsInv

(* What the steps that hc and nodepool share make of a backed job.          *)
LEMMA DecisionIsBacked ==
  ASSUME NEW r \in Resource, NEW j \in ApplyJob, NEW k \in ApplyJob,
         k = [j EXCEPT !.at = Decision(j.mc, r, j)], UNCHANGED work
  PROVE  JobBacked(r, k)'
<1>1. k.at = Decision(j.mc, r, j) /\ k.mc = j.mc
  BY DEF ApplyJob
<1>2. /\ k.at \in {"create", "feedback", "patch"}
      /\ k.at \in {"feedback", "patch"} => work[k.mc][r] # NoWork
  BY <1>1 DEF Decision
<1> QED
  BY <1>2 DEF JobBacked

LEMMA WriteIsBacked ==
  ASSUME NEW r \in Resource, NEW j \in ApplyJob, NEW k \in ApplyJob,
         k = AfterWrite(j.mc, r, j), work'[j.mc][r] # NoWork
  PROVE  JobBacked(r, k)'
<1>1. \/ k.at = "idle"
      \/ k.at = "feedback" /\ k.mc = j.mc
  BY DEF AfterWrite, IdleApply, ApplyJob
<1> QED
  BY <1>1 DEF JobBacked

LEMMA FeedbackIsBacked ==
  ASSUME NEW r \in Resource, NEW j \in ApplyJob, NEW k \in ApplyJob, JobBacked(r, j),
         j.at = "feedback", UNCHANGED <<work, feedback>>,
         k = [j EXCEPT !.at = "put", !.available = Observed(j.mc, r)]
  PROVE  JobBacked(r, k)'
<1>1. k.at = "put" /\ k.mc = j.mc /\ k.available = Observed(j.mc, r)
  BY DEF ApplyJob
<1>2. k.available \in {"True", "False"} => feedback[k.mc][r] # "none"
  BY <1>1 DEF Observed
<1> QED
  BY <1>1, <1>2 DEF JobBacked

LEMMA PutIsBacked ==
  ASSUME OverlapInv, NEW r \in Resource, NEW j \in ApplyJob, JobSound(r, j), JobBacked(r, j),
         j.at = "put"
  PROVE  Backed(r, [gen |-> j.gen, available |-> j.available])
<1>1. j.gen <= spec[r].gen /\ j.mc \in MC
  BY DEF JobSound, ApplyJob, OverlapInv, PipelineInv, TypeOK
<1>2. work[j.mc][r] # NoWork
  BY DEF JobBacked
<1>3. j.available \in {"True", "False"} => Hosted(r)
  BY <1>1, <1>2 DEF JobBacked, Hosted, Reached
<1> QED
  BY <1>1, <1>2, <1>3 DEF Backed

(* A step of hc undoes nothing, and its job is backed as it goes on.        *)
LEMMA HCStepBacked ==
  ASSUME OverlapInv, NEW p \in Process, NEW c \in Cluster, HCStep(p, c), TypeOK'
  PROVE  /\ Onward
         /\ \A m \in MC, n \in NodePool : work'[m][n] = work[m][n]
         /\ \E k \in ApplyJob : HCIs(p, c, k) /\ JobBacked(c, k)'
<1> DEFINE j == hcJob[p][c]
<1>1. /\ c \in Resource /\ j \in ApplyJob /\ JobSound(c, j) /\ JobBacked(c, j)
      /\ PipelineInv /\ TypeOK
      /\ spec[c] \in [gen : Nat, version : Version \cup {NoVersion}]
  <2>1. PipelineInv /\ TypeOK /\ c \in Resource
    BY BackedNow DEF OverlapInv, PipelineInv
  <2>2. spec[c] \in [gen : Nat, version : Version \cup {NoVersion}]
    BY <2>1 DEF TypeOK
  <2> QED
    BY <2>1, <2>2, BackedNow
<1>2. CASE HCWrite(p, c)
  <2>1. /\ j.at \in {"create", "patch"} /\ Write(j.mc, c, j)
        /\ UNCHANGED <<spec, feedback>> /\ HCIs(p, c, AfterWrite(j.mc, c, j))
    BY <1>2 DEF HCWrite, envVars
  <2>2. PICK k \in ApplyJob : k = AfterWrite(j.mc, c, j)
    BY <1>1, IdleSound DEF AfterWrite, ApplyJob
  <2>3. /\ Onward /\ work'[j.mc][c] # NoWork
        /\ \A m \in MC, q \in Resource : work'[m][q] = work[m][q] \/ (m = j.mc /\ q = c)
    BY <1>1, <2>1, JobWrites, WriteStands
  <2>4. JobBacked(c, k)'
    BY <1>1, <2>2, <2>3, WriteIsBacked
  <2>5. \A m \in MC, n \in NodePool : work'[m][n] = work[m][n]
    BY <2>3, ConstantAssumption DEF Resource
  <2> QED
    BY <2>1, <2>2, <2>3, <2>4, <2>5
<1>3. CASE ~HCWrite(p, c)
  <2>1. UNCHANGED <<spec, work, feedback>>
    BY <1>3 DEF HCStep, HCGet, HCCheck, HCDecide, HCFeedback, HCPut, envVars, maestroVars
  <2>2. Onward
    BY <1>1, <2>1, StandsStill
  <2>3. \E k \in ApplyJob : HCIs(p, c, k) /\ JobBacked(c, k)'
    <3>1. CASE HCGet(p, c)
      <4> DEFINE k == [IdleApply EXCEPT !.at = "statuses", !.gen = spec[c].gen,
                                        !.version = spec[c].version]
      <4>1. k \in ApplyJob /\ k.at = "statuses"
        BY <1>1, IdleSound DEF IdleApply, ApplyJob, Availability
      <4>2. HCIs(p, c, k)
        BY <3>1 DEF HCGet
      <4> HIDE DEF k
      <4> QED
        BY <4>1, <4>2 DEF JobBacked
    <3>2. CASE HCCheck(p, c) /\ HCGate(c, j.version)
      <4> DEFINE k == HCBuilt(c, j)
      <4>1. k \in ApplyJob /\ k.at = "apply"
        BY <1>1 DEF HCBuilt, ApplyJob, TypeOK
      <4>2. HCIs(p, c, k)
        BY <3>2 DEF HCCheck
      <4> HIDE DEF k
      <4> QED
        BY <4>1, <4>2 DEF JobBacked
    <3>3. CASE \/ HCCheck(p, c) /\ ~HCGate(c, j.version)
               \/ HCPut(p, c)
      <4>1. HCIs(p, c, IdleApply)
        BY <3>3 DEF HCCheck, HCPut
      <4>2. IdleApply \in ApplyJob /\ JobBacked(c, IdleApply)'
        BY IdleSound DEF JobBacked
      <4> QED
        BY <4>1, <4>2
    <3>4. CASE HCDecide(p, c)
      <4>1. PICK k \in ApplyJob : k = [j EXCEPT !.at = Decision(j.mc, c, j)]
        BY <1>1 DEF Decision, ApplyJob
      <4>2. HCIs(p, c, k)
        BY <3>4, <4>1 DEF HCDecide
      <4> QED
        BY <1>1, <2>1, <4>1, <4>2, DecisionIsBacked
    <3>5. CASE HCFeedback(p, c)
      <4>1. j.at = "feedback" /\ j.mc \in MC
        BY <1>1, <3>5 DEF HCFeedback, JobSound, ApplyJob
      <4>2. Observed(j.mc, c) \in Availability
        BY <1>1, <4>1 DEF Observed, Availability, TypeOK
      <4>3. PICK k \in ApplyJob : k = [j EXCEPT !.at = "put", !.available = Observed(j.mc, c)]
        BY <1>1, <4>2 DEF ApplyJob
      <4>4. HCIs(p, c, k)
        BY <3>5, <4>3 DEF HCFeedback
      <4> QED
        BY <1>1, <2>1, <4>1, <4>3, <4>4, FeedbackIsBacked
    <3> QED
      BY <1>3, <3>1, <3>2, <3>3, <3>4, <3>5 DEF HCStep, HCCheck
  <2> QED
    BY <2>1, <2>2, <2>3
<1> QED
  BY <1>2, <1>3

LEMMA HCStepOverlaps ==
  ASSUME OverlapInv, NEW p \in Process, NEW c \in Cluster, HCStep(p, c), PipelineInv'
  PROVE  OverlapInv'
<1> DEFINE j == hcJob[p][c]
<1>1. /\ TypeOK' /\ c \in Resource
      /\ j \in ApplyJob /\ JobSound(c, j) /\ JobBacked(c, j)
  BY BackedNow DEF PipelineInv
<1>2. /\ Onward /\ \A m \in MC, n \in NodePool : work'[m][n] = work[m][n]
  BY <1>1, HCStepBacked
<1>3. HCJobsBacked'
  BY <1>1, <1>2, HCStepBacked, HCBackedMoves
<1>4. NPJobsBacked'
  <2>1. UNCHANGED npJob
    BY DEF HCStep, HCGet, HCCheck, HCDecide, HCWrite, HCFeedback, HCPut
  <2> QED
    BY <1>2, <2>1, NPBackedKept
<1>5. NodePoolComesAfter' /\ LateWorkBacked'
  <2>1. UNCHANGED lateWork
    BY DEF HCStep, HCGet, HCCheck, HCDecide, HCWrite, HCFeedback, HCPut, faultVars
  <2> QED
    BY <1>2, <2>1, ComesAfterKept, LateWorkComesAfter
<1>6. ReportsInv'
  <2>1. CASE HCPut(p, c)
    <3> DEFINE e == [gen |-> j.gen, available |-> j.available]
               x == [adapter |-> "hc", of |-> c, value |-> e]
    <3>1. j.at = "put" /\ Put(x)
      BY <2>1 DEF HCPut
    <3>2. Backed(c, e)
      BY <1>1, <3>1, PutIsBacked
    <3>3. e \in [gen : Nat, available : Availability]
      BY <1>1 DEF ApplyJob
    <3>4. x \in Payload /\ x.of = c /\ x.value = e
      BY <3>3 DEF Payload
    <3> HIDE DEF x, e
    <3> QED
      BY <1>1, <1>2, <3>1, <3>2, <3>4, PutBacked
  <2>2. CASE ~HCPut(p, c)
    <3>1. UNCHANGED <<status, reconciled, late>>
      BY <2>2 DEF HCStep, HCGet, HCCheck, HCDecide, HCWrite, HCFeedback, faultVars, statusVars
    <3> QED
      BY <1>1, <1>2, <3>1, ReportsStay
  <2> QED
    BY <2>1, <2>2
<1> QED
  BY <1>3, <1>4, <1>5, <1>6 DEF OverlapInv, ReportsInv

(* A step of nodepool does neither; past the gate its hosted cluster has    *)
(* been reported on, and it writes past the gate only.                      *)
LEMMA NPStepBacked ==
  ASSUME OverlapInv, NEW p \in Process, NEW n \in NodePool, NPStep(p, n), TypeOK'
  PROVE  /\ Onward
         /\ \A m \in MC, d \in NodePool :
               work'[m][d] # NoWork => work[m][d] # NoWork \/ Hosted(Owner[d])
         /\ \E k \in ApplyJob :
               NPIs(p, n, k) /\ JobBacked(n, k)' /\ (Follows(k) => Hosted(Owner[n]))
<1> DEFINE j == npJob[p][n]
           o == Owner[n]
<1>1. /\ n \in Resource /\ o \in Resource /\ j \in ApplyJob
      /\ JobSound(n, j) /\ JobBacked(n, j) /\ (Follows(j) => Hosted(o))
      /\ PipelineInv /\ TypeOK
      /\ spec[n] \in [gen : Nat, version : Version \cup {NoVersion}]
  <2>1. PipelineInv /\ TypeOK /\ n \in Resource
    BY BackedNow DEF OverlapInv, PipelineInv
  <2>2. spec[n] \in [gen : Nat, version : Version \cup {NoVersion}]
    BY <2>1 DEF TypeOK
  <2> QED
    BY <2>1, <2>2, BackedNow
<1>2. CASE NPWrite(p, n)
  <2>1. /\ j.at \in {"create", "patch"} /\ Write(j.mc, n, j)
        /\ UNCHANGED <<spec, feedback>> /\ NPIs(p, n, AfterWrite(j.mc, n, j))
    BY <1>2 DEF NPWrite, envVars
  <2>2. PICK k \in ApplyJob : k = AfterWrite(j.mc, n, j)
    BY <1>1, IdleSound DEF AfterWrite, ApplyJob
  <2>3. /\ Onward /\ work'[j.mc][n] # NoWork
        /\ \A m \in MC, q \in Resource : work'[m][q] = work[m][q] \/ (m = j.mc /\ q = n)
    BY <1>1, <2>1, JobWrites, WriteStands
  <2>4. JobBacked(n, k)'
    BY <1>1, <2>2, <2>3, WriteIsBacked
  <2>5. Hosted(o)
    BY <1>1, <2>1 DEF Follows
  <2>6. ASSUME NEW m \in MC, NEW d \in NodePool, work'[m][d] # NoWork
        PROVE  work[m][d] # NoWork \/ Hosted(Owner[d])
    BY <2>3, <2>5, <2>6 DEF Resource
  <2> QED
    BY <2>1, <2>2, <2>3, <2>4, <2>5, <2>6
<1>3. CASE ~NPWrite(p, n)
  <2>1. UNCHANGED <<spec, work, feedback>>
    BY <1>3 DEF NPStep, NPGet, NPCluster, NPCheck, NPDecide, NPFeedback, NPPut, envVars,
                maestroVars
  <2>2. Onward
    BY <1>1, <2>1, StandsStill
  <2>3. \E k \in ApplyJob : NPIs(p, n, k) /\ JobBacked(n, k)' /\ (Follows(k) => Hosted(o))
    <3>1. CASE NPGet(p, n)
      <4> DEFINE k == [IdleApply EXCEPT !.at = "cluster", !.gen = spec[n].gen,
                                        !.version = spec[n].version]
      <4>1. k \in ApplyJob /\ k.at = "cluster"
        BY <1>1, IdleSound DEF IdleApply, ApplyJob, Availability
      <4>2. NPIs(p, n, k)
        BY <3>1 DEF NPGet
      <4> HIDE DEF k
      <4> QED
        BY <4>1, <4>2 DEF JobBacked, Follows
    <3>2. CASE NPCluster(p, n)
      <4>1. placement[o] \in MC \cup {NoMC} /\ status[o].available \in Availability
        BY <1>1, BackedNow DEF TypeOK
      <4>2. PICK k \in ApplyJob :
               k = [j EXCEPT !.at = "statuses", !.mc = placement[o],
                             !.available = status[o].available]
        BY <1>1, <4>1 DEF ApplyJob
      <4>3. /\ NPIs(p, n, k)
            /\ k.at = "statuses" /\ k.available = status[o].available
        BY <1>1, <3>2, <4>2 DEF NPCluster, ApplyJob
      <4>4. Follows(k) => Hosted(o)
        BY <1>1, <4>3 DEF Follows, OverlapInv, EntriesBacked, Backed
      <4> QED
        BY <4>3, <4>4 DEF JobBacked
    <3>3. CASE NPCheck(p, n) /\ NPGate(n, j)
      <4>1. vr[n] \in Version \cup {NoVersion}
        BY <1>1 DEF TypeOK
      <4>2. PICK k \in ApplyJob : k = [j EXCEPT !.at = "apply", !.version = vr[n]]
        BY <1>1, <4>1 DEF ApplyJob
      <4>3. k.at = "apply"
        BY <1>1, <4>2 DEF ApplyJob
      <4>4. NPIs(p, n, k) /\ j.at = "statuses" /\ j.available = "True"
        BY <3>3, <4>2 DEF NPCheck, NPGate, NPBuilt
      <4>5. Hosted(o)
        BY <1>1, <4>4 DEF Follows
      <4> QED
        BY <4>3, <4>4, <4>5 DEF JobBacked
    <3>4. CASE \/ NPCheck(p, n) /\ ~NPGate(n, j)
               \/ NPPut(p, n)
      <4>1. NPIs(p, n, IdleApply)
        BY <3>4 DEF NPCheck, NPPut
      <4>2. IdleApply \in ApplyJob /\ JobBacked(n, IdleApply)' /\ ~Follows(IdleApply)
        BY IdleSound DEF JobBacked, Follows
      <4> QED
        BY <4>1, <4>2
    <3>5. CASE NPDecide(p, n)
      <4>1. PICK k \in ApplyJob : k = [j EXCEPT !.at = Decision(j.mc, n, j)]
        BY <1>1 DEF Decision, ApplyJob
      <4>2. NPIs(p, n, k) /\ j.at = "apply"
        BY <3>5, <4>1 DEF NPDecide
      <4>3. JobBacked(n, k)'
        BY <1>1, <2>1, <4>1, DecisionIsBacked
      <4>4. Hosted(o)
        BY <1>1, <4>2 DEF Follows
      <4> QED
        BY <4>2, <4>3, <4>4
    <3>6. CASE NPFeedback(p, n)
      <4>1. j.at = "feedback" /\ j.mc \in MC
        BY <1>1, <3>6 DEF NPFeedback, JobSound, ApplyJob
      <4>2. Observed(j.mc, n) \in Availability
        BY <1>1, <4>1 DEF Observed, Availability, TypeOK
      <4>3. PICK k \in ApplyJob : k = [j EXCEPT !.at = "put", !.available = Observed(j.mc, n)]
        BY <1>1, <4>2 DEF ApplyJob
      <4>4. NPIs(p, n, k)
        BY <3>6, <4>3 DEF NPFeedback
      <4>5. JobBacked(n, k)'
        BY <1>1, <2>1, <4>1, <4>3, FeedbackIsBacked
      <4>6. Hosted(o)
        BY <1>1, <4>1 DEF Follows
      <4> QED
        BY <4>4, <4>5, <4>6
    <3> QED
      BY <1>3, <3>1, <3>2, <3>3, <3>4, <3>5, <3>6 DEF NPStep, NPCheck
  <2> QED
    BY <2>1, <2>2, <2>3
<1> QED
  BY <1>2, <1>3

LEMMA NPStepOverlaps ==
  ASSUME OverlapInv, NEW p \in Process, NEW n \in NodePool, NPStep(p, n), PipelineInv'
  PROVE  OverlapInv'
<1> DEFINE j == npJob[p][n]
<1>1. /\ TypeOK' /\ n \in Resource
      /\ j \in ApplyJob /\ JobSound(n, j) /\ JobBacked(n, j)
  BY BackedNow DEF PipelineInv
<1>2. Onward /\ NodePoolComesAfter' /\ LateWorkBacked'
  <2>1. /\ Onward
        /\ \A m \in MC, d \in NodePool :
              work'[m][d] # NoWork => work[m][d] # NoWork \/ Hosted(Owner[d])
    BY <1>1, NPStepBacked
  <2>2. UNCHANGED lateWork
    BY DEF NPStep, NPGet, NPCluster, NPCheck, NPDecide, NPWrite, NPFeedback, NPPut, faultVars
  <2> QED
    BY <2>1, <2>2, ComesAfterKept, LateWorkComesAfter
<1>3. HCJobsBacked'
  <2>1. UNCHANGED hcJob
    BY DEF NPStep, NPGet, NPCluster, NPCheck, NPDecide, NPWrite, NPFeedback, NPPut
  <2> QED
    BY <1>2, <2>1, HCBackedKept
<1>4. NPJobsBacked'
  BY <1>1, <1>2, NPStepBacked, NPBackedMoves
<1>5. ReportsInv'
  <2>1. CASE NPPut(p, n)
    <3> DEFINE e == [gen |-> j.gen, available |-> j.available]
               x == [adapter |-> "nodepool", of |-> n, value |-> e]
    <3>1. j.at = "put" /\ Put(x)
      BY <2>1 DEF NPPut
    <3>2. Backed(n, e)
      BY <1>1, <3>1, PutIsBacked
    <3>3. e \in [gen : Nat, available : Availability]
      BY <1>1 DEF ApplyJob
    <3>4. x \in Payload /\ x.of = n /\ x.value = e
      BY <3>3 DEF Payload
    <3> HIDE DEF x, e
    <3> QED
      BY <1>1, <1>2, <3>1, <3>2, <3>4, PutBacked
  <2>2. CASE ~NPPut(p, n)
    <3>1. UNCHANGED <<status, reconciled, late>>
      BY <2>2 DEF NPStep, NPGet, NPCluster, NPCheck, NPDecide, NPWrite, NPFeedback, faultVars,
                  statusVars
    <3> QED
      BY <1>1, <1>2, <3>1, ReportsStay
  <2> QED
    BY <2>1, <2>2
<1> QED
  BY <1>2, <1>3, <1>4, <1>5 DEF OverlapInv, ReportsInv

(* A reconcile that ends takes nothing back; the write it may leave in      *)
(* flight has the hosted cluster that it had.                               *)
LEMMA FailOverlaps == ASSUME OverlapInv, Fail, PipelineInv' PROVE OverlapInv'
<1>1. UNCHANGED <<spec, work, feedback, status, reconciled, late>> /\ TypeOK'
  BY DEF Fail, PipelineInv, envVars, statusVars, maestroVars
<1>2. Onward
  BY <1>1, StandsStill DEF OverlapInv
<1>3. PICK p \in Process :
         \/ UNCHANGED <<hcJob, npJob>>
         \/ (\E c \in Cluster : HCIs(p, c, IdleApply)) /\ UNCHANGED npJob
         \/ (\E n \in NodePool : NPIs(p, n, IdleApply)) /\ UNCHANGED hcJob
  BY DEF Fail, VRFail, PlaceFail, HCFail, NPFail
<1>4. /\ IdleApply \in ApplyJob /\ ~Follows(IdleApply)
      /\ \A r : JobBacked(r, IdleApply)'
  BY IdleSound DEF Follows, JobBacked
<1>5. HCJobsBacked'
  BY <1>2, <1>3, <1>4, HCBackedKept, HCBackedMoves
<1>6. NPJobsBacked'
  BY <1>2, <1>3, <1>4, NPBackedKept, NPBackedMoves
<1>7. ReportsInv' /\ NodePoolComesAfter'
  BY <1>1, <1>2, ReportsStay, ComesAfterKept
<1>8. LateWorkBacked'
  <2> SUFFICES ASSUME NEW x \in lateWork', x \notin lateWork, x.of \in NodePool
               PROVE  Hosted(Owner[x.of])
    BY <1>2, LateWorkComesAfter
  <2>1. LeftBy(x)
    BY FailLeaves DEF OverlapInv
  <2>2. PICK q \in Process, n \in NodePool : x \in NextWrite(n, npJob[q][n])
    BY <2>1, ConstantAssumption DEF LeftBy, NextWrite
  <2>3. x.of = n /\ Follows(npJob[q][n])
    BY <2>2 DEF NextWrite, Follows
  <2> QED
    BY <2>3, BackedNow
<1> QED
  BY <1>5, <1>6, <1>7, <1>8 DEF OverlapInv, ReportsInv

(* A write that lands late comes after the hosted cluster, and undoes       *)
(* nothing that was there.                                                  *)
LEMMA LandWorkOverlaps == ASSUME OverlapInv, LandWork, PipelineInv' PROVE OverlapInv'
<1>1. PICK x \in lateWork : Write(x.mc, x.of, x) /\ lateWork' = lateWork \ {x}
  BY DEF LandWork
<1>2. /\ UNCHANGED <<spec, feedback, status, reconciled, late, hcJob, npJob>> /\ TypeOK'
      /\ x.of \in Resource /\ x.mc \in MC /\ x.version # NoVersion
      /\ PipelineInv
  <2>1. UNCHANGED <<spec, feedback, status, reconciled, late, hcJob, npJob>>
    BY DEF LandWork, envVars, statusVars, jobVars
  <2>2. TypeOK /\ LateWorkSound /\ TypeOK' /\ PipelineInv
    BY DEF OverlapInv, PipelineInv
  <2>3. x.of \in Resource /\ x.mc \in MC /\ x.version # NoVersion
    BY <2>2 DEF TypeOK, WorkRequest, LateWorkSound
  <2> QED
    BY <2>1, <2>2, <2>3
<1>3. /\ Onward
      /\ \A l \in MC, q \in Resource : work'[l][q] = work[l][q] \/ (l = x.mc /\ q = x.of)
  BY <1>1, <1>2, WriteStands
<1>4. HCJobsBacked' /\ NPJobsBacked'
  BY <1>2, <1>3, HCBackedKept, NPBackedKept
<1>5. ReportsInv'
  BY <1>2, <1>3, ReportsStay
<1>6. NodePoolComesAfter'
  <2>1. x.of \in NodePool => Hosted(Owner[x.of])
    BY DEF OverlapInv, LateWorkBacked
  <2>2. \A m \in MC, n \in NodePool :
           work'[m][n] # NoWork => work[m][n] # NoWork \/ Hosted(Owner[n])
    BY <1>3, <2>1 DEF Resource
  <2> QED
    BY <1>3, <2>2, ComesAfterKept
<1>7. LateWorkBacked'
  BY <1>1, <1>3, LateWorkComesAfter
<1> QED
  BY <1>4, <1>5, <1>6, <1>7 DEF OverlapInv, ReportsInv

LEMMA OverlapInitInv == Init => OverlapInv
<1> SUFFICES ASSUME Init PROVE OverlapInv
  OBVIOUS
<1>1. PipelineInv
  BY InitInv
<1>2. HCJobsBacked /\ NPJobsBacked
  BY IdleSound DEF Init, HCJobsBacked, NPJobsBacked, JobBacked, Follows
<1>3. EntriesBacked /\ LateBacked /\ ReconciledIsHosted
  BY DEF Init, EntriesBacked, LateBacked, ReconciledIsHosted, Backed
<1>4. NodePoolComesAfter /\ LateWorkBacked
  BY DEF Init, NodePoolComesAfter, LateWorkBacked, Resource
<1> QED
  BY <1>1, <1>2, <1>3, <1>4 DEF OverlapInv

LEMMA OverlapNextInv == OverlapInv /\ [Next]_vars => OverlapInv'
<1> SUFFICES ASSUME OverlapInv, [Next]_vars PROVE OverlapInv'
  OBVIOUS
<1>1. PipelineInv' /\ TypeOK'
  BY NextInv DEF OverlapInv, PipelineInv
<1>2. CASE \E r \in Resource : EditSpec(r)
  BY <1>1, <1>2, EditSpecOverlaps
<1>3. CASE \E c \in Cluster : MarkReconciled(c)
  BY <1>1, <1>3, MarkReconciledOverlaps
<1>4. CASE \E m \in MC, r \in Resource : AgentReports(m, r)
  BY <1>1, <1>4, AgentReportsOverlaps
<1>5. CASE \E p \in Process, r \in Resource : VRStep(p, r)
  BY <1>1, <1>5, VRStepOverlaps
<1>6. CASE \E p \in Process, c \in Cluster : PlaceStep(p, c) \/ HCStep(p, c)
  BY <1>1, <1>6, PlaceStepOverlaps, HCStepOverlaps
<1>7. CASE \E p \in Process, n \in NodePool : NPStep(p, n)
  BY <1>1, <1>7, NPStepOverlaps
<1>8. CASE LandLate
  BY <1>1, <1>8, LandLateOverlaps
<1>9. CASE Fail
  BY <1>1, <1>9, FailOverlaps
<1>10. CASE LandWork
  BY <1>1, <1>10, LandWorkOverlaps
<1>11. CASE UNCHANGED vars
  <2>1. UNCHANGED <<spec, work, feedback, status, reconciled, late, lateWork, hcJob, npJob>>
    BY <1>11 DEF vars, envVars, statusVars, maestroVars, jobVars, faultVars
  <2>2. Onward
    BY <2>1, StandsStill DEF OverlapInv
  <2> QED
    BY <1>1, <2>1, <2>2, ReportsStay, OthersMove
<1> QED
  BY <1>2, <1>3, <1>4, <1>5, <1>6, <1>7, <1>8, <1>9, <1>10, <1>11
  DEF Next

(* With any number of replicas, failures, late PUTs and late writes the     *)
(* invariant holds.                                                         *)
THEOREM OverlapHolds == SafeSpec => []OverlapInv
BY OverlapInitInv, OverlapNextInv, PTL DEF SafeSpec

(* However the replicas overlap, an adapter never reports a generation that *)
(* is not there yet, a resource that no management cluster ever got, or an  *)
(* availability that none ever reported.                                    *)
THEOREM ReportsAreBacked == SafeSpec => []EntriesBacked
<1>1. OverlapInv => EntriesBacked
  BY DEF OverlapInv
<1> QED
  BY <1>1, OverlapHolds, PTL

(* A node pool's ManifestWork is never there before a management cluster    *)
(* reported on the hosted cluster.                                          *)
THEOREM NodePoolsComeAfter == SafeSpec => []NodePoolComesAfter
<1>1. OverlapInv => NodePoolComesAfter
  BY DEF OverlapInv
<1> QED
  BY <1>1, OverlapHolds, PTL

(* A cluster never counts as Reconciled, which is what makes the adapters   *)
(* skip it, before a management cluster reported on it.                     *)
THEOREM ReconciledWasHosted == SafeSpec => []ReconciledIsHosted
<1>1. OverlapInv => ReconciledIsHosted
  BY DEF OverlapInv
<1> QED
  BY <1>1, OverlapHolds, PTL
-----------------------------------------------------------------------------
(***************************************************************************)
(* How often a cluster is placed: with any finite number of replicas, any  *)
(* number of failures and late PUTs, no more often than there are replicas *)
(* that may have decided at once and PUTs that landed late.                *)
(***************************************************************************)

\* PlacementsCounted, of one cluster.
Counted(c) ==
    /\ IsFiniteSet(GivenTo(c))
    /\ placement[c] = NoMC => Cardinality(GivenTo(c)) <= delays
    /\ placement[c] # NoMC =>
          Cardinality(GivenTo(c)) + Cardinality(AboutToPlace(c)) <= Cardinality(Process) + delays

\* A cluster that is placed stays so, and a delay is never taken back.
StaysPlaced(c) == (placement'[c] = NoMC => placement[c] = NoMC) /\ delays' >= delays

\* A step that gives c no placement it was not given before; nobody makes up
\* its mind once c is placed.
GivesNothing(c) ==
    /\ GivenTo(c)' \subseteq GivenTo(c)
    /\ placement[c] # NoMC => AboutToPlace(c)' \subseteq AboutToPlace(c)
    /\ StaysPlaced(c)

\* A step in which p leaves the number of those about to place c, which is
\* given m: it is placed now, or the PUT was delayed.
Gives(p, c, m) ==
    /\ p \in AboutToPlace(c)
    /\ AboutToPlace(c)' \subseteq AboutToPlace(c) \ {p}
    /\ GivenTo(c)' \subseteq GivenTo(c) \cup {m}
    /\ placement'[c] = NoMC => delays' = delays + 1
    /\ StaysPlaced(c)

(* Those about to place a cluster are some of the replicas.                 *)
LEMMA AboutIsFinite ==
  ASSUME IsFiniteSet(Process), NEW c, NEW A \in SUBSET AboutToPlace(c)
  PROVE  /\ IsFiniteSet(A) /\ Cardinality(A) \in Nat /\ Cardinality(Process) \in Nat
         /\ Cardinality(A) <= Cardinality(AboutToPlace(c))
         /\ Cardinality(AboutToPlace(c)) <= Cardinality(Process)
         /\ Cardinality(AboutToPlace(c)) \in Nat
<1>1. AboutToPlace(c) \in SUBSET Process
  BY DEF AboutToPlace
<1>2. IsFiniteSet(AboutToPlace(c)) /\ Cardinality(AboutToPlace(c)) <= Cardinality(Process)
  BY <1>1, FS_Subset
<1>3. IsFiniteSet(A) /\ Cardinality(A) <= Cardinality(AboutToPlace(c))
  BY <1>2, FS_Subset
<1> QED
  BY <1>2, <1>3, FS_CardinalityType

(* The count stays right if nothing is given,                               *)
LEMMA NothingGiven ==
  ASSUME TypeOK, TypeOK', IsFiniteSet(Process), NEW c \in Cluster, Counted(c), GivesNothing(c)
  PROVE  Counted(c)'
<1> DEFINE G == GivenTo(c)
           H == GivenTo(c)'
           A == AboutToPlace(c)
           B == AboutToPlace(c)'
<1>1. delays \in Nat /\ delays' \in Nat /\ delays' >= delays
  BY ConstantAssumption DEF TypeOK, GivesNothing, StaysPlaced
<1>2. /\ IsFiniteSet(H) /\ Cardinality(H) <= Cardinality(G)
      /\ Cardinality(G) \in Nat /\ Cardinality(H) \in Nat
  <2>1. IsFiniteSet(G) /\ H \in SUBSET G
    BY DEF Counted, GivesNothing
  <2>2. IsFiniteSet(H) /\ Cardinality(H) <= Cardinality(G)
    BY <2>1, FS_Subset
  <2> QED
    BY <2>1, <2>2, FS_CardinalityType
<1>3. Cardinality(A) \in Nat /\ Cardinality(Process) \in Nat
  BY AboutIsFinite
<1>4. B \in SUBSET Process
  BY DEF AboutToPlace
<1>5. Cardinality(B) \in Nat /\ Cardinality(B) <= Cardinality(Process)
  BY <1>4, FS_Subset, FS_CardinalityType
<1>6. placement[c] # NoMC => Cardinality(B) <= Cardinality(A)
  <2>1. placement[c] # NoMC => B \in SUBSET A
    BY DEF GivesNothing
  <2> QED
    BY <2>1, AboutIsFinite
<1>7. /\ placement[c] = NoMC => Cardinality(G) <= delays
      /\ placement[c] # NoMC => Cardinality(G) + Cardinality(A) <= Cardinality(Process) + delays
  BY DEF Counted
<1>8. placement'[c] = NoMC => placement[c] = NoMC
  BY DEF GivesNothing, StaysPlaced
<1> HIDE DEF G, H, A, B
<1>9. /\ placement'[c] = NoMC => Cardinality(H) <= delays'
      /\ placement'[c] # NoMC => Cardinality(H) + Cardinality(B) <= Cardinality(Process) + delays'
  BY <1>1, <1>2, <1>3, <1>5, <1>6, <1>7, <1>8
<1> QED
  BY <1>2, <1>9 DEF Counted, H, B

(* and if one replica adds a placement as it leaves.                        *)
LEMMA OneGiven ==
  ASSUME TypeOK, TypeOK', IsFiniteSet(Process), NEW c \in Cluster, Counted(c),
         NEW p \in Process, NEW m, Gives(p, c, m)
  PROVE  Counted(c)'
<1> DEFINE G == GivenTo(c)
           H == GivenTo(c)'
           A == AboutToPlace(c)
           B == AboutToPlace(c)'
<1>1. delays \in Nat /\ delays' \in Nat /\ delays' >= delays
  BY ConstantAssumption DEF TypeOK, Gives, StaysPlaced
<1>2. /\ IsFiniteSet(H) /\ Cardinality(H) <= Cardinality(G) + 1
      /\ Cardinality(G) \in Nat /\ Cardinality(H) \in Nat
  <2>1. IsFiniteSet(G) /\ H \in SUBSET (G \cup {m})
    BY DEF Counted, Gives
  <2> HIDE DEF G, H
  <2>2. /\ Cardinality(G) \in Nat
        /\ IsFiniteSet(G \cup {m}) /\ Cardinality(G \cup {m}) <= Cardinality(G) + 1
    <3>1. Cardinality(G) \in Nat
      BY <2>1, FS_CardinalityType
    <3>2. /\ IsFiniteSet(G \cup {m})
          /\ Cardinality(G \cup {m}) = IF m \in G THEN Cardinality(G) ELSE Cardinality(G) + 1
      BY <2>1, FS_AddElement
    <3> QED
      BY <3>1, <3>2
  <2>3. IsFiniteSet(H) /\ Cardinality(H) <= Cardinality(G \cup {m})
    BY <2>1, <2>2, FS_Subset
  <2>4. Cardinality(H) \in Nat /\ Cardinality(G \cup {m}) \in Nat
    BY <2>2, <2>3, FS_CardinalityType
  <2> QED
    BY <2>2, <2>3, <2>4
<1>3. /\ Cardinality(B) \in Nat /\ Cardinality(B) <= Cardinality(A) - 1
      /\ Cardinality(A) \in Nat /\ Cardinality(A) <= Cardinality(Process)
      /\ Cardinality(Process) \in Nat
  <2>1. /\ IsFiniteSet(A)
        /\ Cardinality(A) \in Nat /\ Cardinality(A) <= Cardinality(Process)
        /\ Cardinality(Process) \in Nat
    BY AboutIsFinite
  <2>2. p \in A /\ B \in SUBSET (A \ {p})
    BY DEF Gives
  <2> HIDE DEF A, B
  <2>3. IsFiniteSet(A \ {p}) /\ Cardinality(A \ {p}) = Cardinality(A) - 1
    BY <2>1, <2>2, FS_RemoveElement
  <2>4. IsFiniteSet(B) /\ Cardinality(B) <= Cardinality(A \ {p})
    BY <2>2, <2>3, FS_Subset
  <2>5. Cardinality(B) \in Nat
    BY <2>4, FS_CardinalityType
  <2> QED
    BY <2>1, <2>3, <2>4, <2>5
<1>4. /\ placement[c] = NoMC => Cardinality(G) <= delays
      /\ placement[c] # NoMC => Cardinality(G) + Cardinality(A) <= Cardinality(Process) + delays
  BY DEF Counted
<1>5. placement'[c] = NoMC => placement[c] = NoMC /\ delays' = delays + 1
  BY DEF Gives, StaysPlaced
<1> HIDE DEF G, H, A, B
<1>6. /\ placement'[c] = NoMC => Cardinality(H) <= delays'
      /\ placement'[c] # NoMC => Cardinality(H) + Cardinality(B) <= Cardinality(Process) + delays'
  BY <1>1, <1>2, <1>3, <1>4, <1>5
<1> QED
  BY <1>2, <1>6 DEF Counted, H, B

(* A step of others than placement gives nothing, nor does their PUT.       *)
LEMMA OthersGiveNothing ==
  ASSUME TypeOK, UNCHANGED <<placement, everPlaced, placeJob>>,
         \A x \in late' : x.adapter = "placement" => x \in late,
         delays' >= delays
  PROVE  \A c \in Cluster : GivesNothing(c)
BY DEF GivesNothing, StaysPlaced, GivenTo, AboutToPlace

LEMMA PutGivesNothing ==
  ASSUME TypeOK, NEW x, Put(x), x.adapter # "placement", UNCHANGED placeJob
  PROVE  \A c \in Cluster : GivesNothing(c)
<1>1. delays \in Nat
  BY ConstantAssumption DEF TypeOK
<1>2. UNCHANGED <<placement, everPlaced>>
  BY DEF Put, Store, statusVars
<1>3. late' \subseteq late \cup {x} /\ delays' >= delays
  BY <1>1 DEF Put
<1> QED
  BY <1>2, <1>3, OthersGiveNothing

LEMMA VRGivesNothing ==
  ASSUME TypeOK, NEW p \in Process, NEW r \in Resource, VRStep(p, r)
  PROVE  \A c \in Cluster : GivesNothing(c)
<1>1. UNCHANGED placeJob /\ delays \in Nat
  BY ConstantAssumption DEF VRStep, VRGet, VRCheck, VRPut, TypeOK
<1>2. CASE VRPut(p, r)
  <2> DEFINE x == [adapter |-> "vr", of |-> r, value |-> vrJob[p][r].version]
  <2>1. Put(x) /\ x.adapter # "placement"
    BY <1>2 DEF VRPut
  <2> HIDE DEF x
  <2> QED
    BY <1>1, <2>1, PutGivesNothing
<1>3. CASE ~VRPut(p, r)
  <2>1. UNCHANGED <<placement, everPlaced, late, delays>>
    BY <1>3 DEF VRStep, VRGet, VRCheck, statusVars, faultVars
  <2> QED
    BY <1>1, <2>1, OthersGiveNothing
<1> QED
  BY <1>2, <1>3

LEMMA HCGivesNothing ==
  ASSUME TypeOK, NEW p \in Process, NEW d \in Cluster, HCStep(p, d)
  PROVE  \A c \in Cluster : GivesNothing(c)
<1>1. UNCHANGED placeJob /\ delays \in Nat
  BY ConstantAssumption
     DEF HCStep, HCGet, HCCheck, HCDecide, HCWrite, HCFeedback, HCPut, TypeOK
<1>2. CASE HCPut(p, d)
  <2> DEFINE j == hcJob[p][d]
             x == [adapter |-> "hc", of |-> d,
                   value |-> [gen |-> j.gen, available |-> j.available]]
  <2>1. Put(x) /\ x.adapter # "placement"
    BY <1>2 DEF HCPut
  <2> HIDE DEF x
  <2> QED
    BY <1>1, <2>1, PutGivesNothing
<1>3. CASE ~HCPut(p, d)
  <2>1. UNCHANGED <<placement, everPlaced, late, delays>>
    BY <1>3 DEF HCStep, HCGet, HCCheck, HCDecide, HCWrite, HCFeedback, statusVars, faultVars
  <2> QED
    BY <1>1, <2>1, OthersGiveNothing
<1> QED
  BY <1>2, <1>3

LEMMA NPGivesNothing ==
  ASSUME TypeOK, NEW p \in Process, NEW n \in NodePool, NPStep(p, n)
  PROVE  \A c \in Cluster : GivesNothing(c)
<1>1. UNCHANGED placeJob /\ delays \in Nat
  BY ConstantAssumption
     DEF NPStep, NPGet, NPCluster, NPCheck, NPDecide, NPWrite, NPFeedback, NPPut, TypeOK
<1>2. CASE NPPut(p, n)
  <2> DEFINE j == npJob[p][n]
             x == [adapter |-> "nodepool", of |-> n,
                   value |-> [gen |-> j.gen, available |-> j.available]]
  <2>1. Put(x) /\ x.adapter # "placement"
    BY <1>2 DEF NPPut
  <2> HIDE DEF x
  <2> QED
    BY <1>1, <2>1, PutGivesNothing
<1>3. CASE ~NPPut(p, n)
  <2>1. UNCHANGED <<placement, everPlaced, late, delays>>
    BY <1>3 DEF NPStep, NPGet, NPCluster, NPCheck, NPDecide, NPWrite, NPFeedback, statusVars,
                faultVars
  <2> QED
    BY <1>1, <2>1, OthersGiveNothing
<1> QED
  BY <1>2, <1>3

(* A placement that lands late was given before.                            *)
LEMMA LandLateGivesNothing ==
  ASSUME TypeOK, LandLate PROVE \A c \in Cluster : GivesNothing(c)
<1>1. PICK x \in late : Store(x) /\ late' = late \ {x}
  BY DEF LandLate
<1>2. UNCHANGED <<placeJob, delays>> /\ delays \in Nat /\ x \in Payload
  BY ConstantAssumption DEF LandLate, jobVars, TypeOK
<1>3. CASE x.adapter # "placement"
  BY <1>1, <1>2, <1>3, OthersGiveNothing DEF Store
<1>4. CASE x.adapter = "placement"
  <2> SUFFICES ASSUME NEW c \in Cluster PROVE GivesNothing(c)
    OBVIOUS
  <2>1. /\ placement' = [placement EXCEPT ![x.of] = x.value]
        /\ everPlaced' = [everPlaced EXCEPT ![x.of] = @ \cup {x.value}]
        /\ x.of \in Cluster /\ x.value \in MC
    BY <1>1, <1>2, <1>4 DEF Store, Payload
  <2>2. placement'[c] = NoMC => placement[c] = NoMC
    BY <2>1, ConstantAssumption DEF TypeOK
  <2>3. everPlaced'[c] \subseteq GivenTo(c)
    BY <1>1, <1>4, <2>1 DEF GivenTo, TypeOK
  <2>4. GivenTo(c)' \subseteq GivenTo(c)
    BY <1>1, <2>3 DEF GivenTo
  <2>5. AboutToPlace(c)' = AboutToPlace(c)
    BY <1>2 DEF AboutToPlace
  <2> QED
    BY <1>2, <2>2, <2>4, <2>5 DEF GivesNothing, StaysPlaced
<1> QED
  BY <1>3, <1>4

(* A reconcile that ends records nothing and leaves those about to.         *)
LEMMA FailGivesNothing == ASSUME TypeOK, Fail PROVE \A c \in Cluster : GivesNothing(c)
<1>1. UNCHANGED <<placement, everPlaced, late, delays>> /\ delays \in Nat
  BY ConstantAssumption DEF Fail, statusVars, TypeOK
<1>2. CASE UNCHANGED placeJob
  BY <1>1, <1>2, OthersGiveNothing
<1>3. CASE \E p \in Process, d \in Cluster : PlaceIs(p, d, IdlePlace)
  <2> SUFFICES ASSUME NEW c \in Cluster PROVE GivesNothing(c)
    OBVIOUS
  <2>1. AboutToPlace(c)' \subseteq AboutToPlace(c)
    BY <1>3 DEF AboutToPlace, PlaceIs, IdlePlace, TypeOK
  <2>2. GivenTo(c)' = GivenTo(c)
    BY <1>1 DEF GivenTo
  <2> QED
    BY <1>1, <2>1, <2>2 DEF GivesNothing, StaysPlaced
<1> QED
  BY <1>2, <1>3 DEF Fail, VRFail, PlaceFail, HCFail, NPFail

(* placement makes up its mind only about a cluster that is not placed, and *)
(* gives it one placement as it records what it had decided.                *)
LEMMA PlaceStepGives ==
  ASSUME TypeOK, PlaceJobsSound, NEW p \in Process, NEW d \in Cluster, PlaceStep(p, d),
         NEW c \in Cluster
  PROVE  GivesNothing(c) \/ \E m : Gives(p, c, m)
<1>1. /\ delays \in Nat /\ NoMC \notin MC
      /\ placeJob \in [Process -> [Cluster -> PlaceJob]]
  BY ConstantAssumption DEF TypeOK
<1>2. CASE PlaceGet(p, d) \/ PlaceCheck(p, d)
  <2>1. UNCHANGED <<placement, everPlaced, late, delays>>
    BY <1>2 DEF PlaceGet, PlaceCheck, statusVars, faultVars
  <2>2. PICK k : PlaceIs(p, d, k) /\ (k.at = "put" => placement[d] = NoMC)
    <3>1. CASE PlaceGet(p, d)
      BY <3>1 DEF PlaceGet, IdlePlace
    <3>2. CASE PlaceCheck(p, d) /\ placement[d] # NoMC
      BY <3>2 DEF PlaceCheck, IdlePlace
    <3>3. CASE PlaceCheck(p, d) /\ placement[d] = NoMC
      <4>1. PICK m \in MC : PlaceIs(p, d, [at |-> "put", mc |-> m])
        BY <3>3 DEF PlaceCheck
      <4> QED
        BY <3>3, <4>1
    <3> QED
      BY <1>2, <3>1, <3>2, <3>3
  <2>3. placement[c] # NoMC => AboutToPlace(c)' \subseteq AboutToPlace(c)
    <3>1. \A q \in Process :
             placeJob'[q][c] = IF q = p /\ c = d THEN k ELSE placeJob[q][c]
      BY <1>1, <2>2 DEF PlaceIs
    <3> QED
      BY <2>2, <3>1 DEF AboutToPlace
  <2>4. GivenTo(c)' = GivenTo(c)
    BY <2>1 DEF GivenTo
  <2> QED
    BY <1>1, <2>1, <2>3, <2>4 DEF GivesNothing, StaysPlaced
<1>3. CASE PlacePut(p, d)
  <2> DEFINE m == placeJob[p][d].mc
             x == [adapter |-> "placement", of |-> d, value |-> m]
  <2>1. placeJob[p][d].at = "put" /\ Put(x) /\ PlaceIs(p, d, IdlePlace)
    BY <1>3 DEF PlacePut
  <2>2. m \in MC
    BY <1>1, <2>1 DEF PlaceJobsSound, PlaceJob
  <2>3. x.adapter = "placement" /\ x.of = d /\ x.value = m
    OBVIOUS
  <2> HIDE DEF x, m
  <2>4. /\ \/ UNCHANGED <<placement, everPlaced>>
           \/ /\ placement' = [placement EXCEPT ![d] = m]
              /\ everPlaced' = [everPlaced EXCEPT ![d] = @ \cup {m}]
        /\ \/ /\ placement' = [placement EXCEPT ![d] = m]
              /\ UNCHANGED <<late, delays>>
           \/ delays' = delays + 1 /\ late' = late \cup {x}
    BY <2>1, <2>3 DEF Put, Store, statusVars
  <2>5. \A q \in Process :
           placeJob'[q][c] = IF q = p /\ c = d THEN IdlePlace ELSE placeJob[q][c]
    BY <1>1, <2>1 DEF PlaceIs
  <2>6. StaysPlaced(c)
    BY <1>1, <2>2, <2>4 DEF StaysPlaced, TypeOK
  <2>7. CASE c # d
    <3>1. AboutToPlace(c)' = AboutToPlace(c)
      BY <2>5, <2>7 DEF AboutToPlace
    <3>2. everPlaced'[c] = everPlaced[c]
      BY <2>4, <2>7 DEF TypeOK
    <3>3. GivenTo(c)' \subseteq GivenTo(c)
      BY <2>3, <2>4, <2>7, <3>2 DEF GivenTo
    <3> QED
      BY <2>6, <3>1, <3>3 DEF GivesNothing
  <2>8. CASE c = d
    <3>1. p \in AboutToPlace(c) /\ AboutToPlace(c)' \subseteq AboutToPlace(c) \ {p}
      BY <2>1, <2>5, <2>8 DEF AboutToPlace, IdlePlace
    <3>2. everPlaced'[c] \subseteq everPlaced[c] \cup {m}
      BY <2>4, <2>8 DEF TypeOK
    <3>3. GivenTo(c)' \subseteq GivenTo(c) \cup {m}
      BY <2>3, <2>4, <2>8, <3>2 DEF GivenTo
    <3>4. placement'[c] = NoMC => delays' = delays + 1
      BY <1>1, <2>2, <2>4, <2>8 DEF TypeOK
    <3>5. Gives(p, c, m)
      BY <2>6, <3>1, <3>3, <3>4 DEF Gives
    <3> QED
      BY <3>5
  <2> QED
    BY <2>7, <2>8
<1> QED
  BY <1>2, <1>3 DEF PlaceStep

LEMMA CountedInitially == ASSUME IsFiniteSet(Process), Init PROVE PlacementsCounted
<1> SUFFICES ASSUME NEW c \in Cluster PROVE Counted(c)
  BY DEF PlacementsCounted, Counted
<1>1. placement[c] = NoMC /\ delays = 0
  BY DEF Init
<1>2. GivenTo(c) = {}
  BY DEF Init, GivenTo
<1> QED
  BY <1>1, <1>2, FS_EmptySet DEF Counted

LEMMA CountedNext ==
  ASSUME IsFiniteSet(Process), PipelineInv, PipelineInv', PlacementsCounted, [Next]_vars
  PROVE  PlacementsCounted'
<1> SUFFICES ASSUME NEW c \in Cluster PROVE Counted(c)'
  BY DEF PlacementsCounted, Counted
<1>1. TypeOK /\ TypeOK' /\ PlaceJobsSound
  BY DEF PipelineInv, JobsSound
<1>2. Counted(c)
  BY DEF PlacementsCounted, Counted
<1>3. delays \in Nat
  BY <1>1, ConstantAssumption DEF TypeOK
<1>4. GivesNothing(c) \/ \E p \in Process : \E m : Gives(p, c, m)
  <2>1. CASE (\E r \in Resource : EditSpec(r)) \/ UNCHANGED vars
    <3>1. UNCHANGED <<placement, everPlaced, placeJob, late, delays>>
      BY <2>1 DEF EditSpec, vars, statusVars, jobVars, faultVars
    <3> QED
      BY <1>1, <1>3, <3>1, OthersGiveNothing
  <2>2. CASE \E d \in Cluster : MarkReconciled(d)
    <3>1. UNCHANGED <<placement, everPlaced, placeJob, late, delays>>
      BY <2>2 DEF MarkReconciled, jobVars, faultVars
    <3> QED
      BY <1>1, <1>3, <3>1, OthersGiveNothing
  <2>3. CASE \E m \in MC, r \in Resource : AgentReports(m, r)
    <3>1. UNCHANGED <<placement, everPlaced, placeJob, late, delays>>
      BY <2>3 DEF AgentReports, statusVars, jobVars, faultVars
    <3> QED
      BY <1>1, <1>3, <3>1, OthersGiveNothing
  <2>4. CASE \E p \in Process, r \in Resource : VRStep(p, r)
    BY <1>1, <2>4, VRGivesNothing
  <2>5. CASE \E p \in Process, d \in Cluster : PlaceStep(p, d)
    BY <1>1, <2>5, PlaceStepGives
  <2>6. CASE \E p \in Process, d \in Cluster : HCStep(p, d)
    BY <1>1, <2>6, HCGivesNothing
  <2>7. CASE \E p \in Process, n \in NodePool : NPStep(p, n)
    BY <1>1, <2>7, NPGivesNothing
  <2>8. CASE LandLate
    BY <1>1, <2>8, LandLateGivesNothing
  <2>9. CASE Fail
    BY <1>1, <2>9, FailGivesNothing
  <2>10. CASE LandWork
    <3>1. UNCHANGED <<placement, everPlaced, placeJob, late, delays>>
      BY <2>10 DEF LandWork, statusVars, jobVars
    <3> QED
      BY <1>1, <1>3, <3>1, OthersGiveNothing
  <2> QED
    BY <2>1, <2>2, <2>3, <2>4, <2>5, <2>6, <2>7, <2>8, <2>9, <2>10 DEF Next
<1> QED
  BY <1>1, <1>2, <1>4, NothingGiven, OneGiven

(* The count holds in every reachable state.                                *)
THEOREM CountHolds == SafeSpec /\ IsFiniteSet(Process) => []PlacementsCounted
<1> SUFFICES ASSUME IsFiniteSet(Process) PROVE SafeSpec => []PlacementsCounted
  OBVIOUS
<1>1. Init => PlacementsCounted
  BY CountedInitially
<1>2. PipelineInv /\ PipelineInv' /\ PlacementsCounted /\ [Next]_vars => PlacementsCounted'
  BY CountedNext
<1> QED
  BY <1>1, <1>2, InvariantHolds, PTL DEF SafeSpec

(* A cluster has never more placements than there are replicas of the       *)
(* placement adapter and delayed PUTs: crashes, failed calls and later      *)
(* reconciles add none.                                                     *)
THEOREM PlacementsAreBounded == SafeSpec /\ IsFiniteSet(Process) => []PlacementsBounded
<1> SUFFICES ASSUME IsFiniteSet(Process) PROVE SafeSpec => []PlacementsBounded
  OBVIOUS
<1>1. TypeOK /\ PlacementsCounted => PlacementsBounded
  <2> SUFFICES ASSUME TypeOK, NEW c \in Cluster, Counted(c)
               PROVE  Cardinality(everPlaced[c]) <= Cardinality(Process) + delays
    BY DEF PlacementsCounted, PlacementsBounded, Counted
  <2>1. IsFiniteSet(GivenTo(c)) /\ everPlaced[c] \in SUBSET GivenTo(c)
    BY DEF Counted, GivenTo
  <2>2. /\ Cardinality(everPlaced[c]) <= Cardinality(GivenTo(c))
        /\ Cardinality(everPlaced[c]) \in Nat /\ Cardinality(GivenTo(c)) \in Nat
    BY <2>1, FS_Subset, FS_CardinalityType
  <2>3. delays \in Nat /\ Cardinality(Process) \in Nat /\ Cardinality(AboutToPlace(c)) \in Nat
    BY AboutIsFinite, ConstantAssumption DEF TypeOK
  <2>4. \/ Cardinality(GivenTo(c)) <= delays
        \/ Cardinality(GivenTo(c)) + Cardinality(AboutToPlace(c)) <= Cardinality(Process) + delays
    BY DEF Counted
  <2> QED
    BY <2>2, <2>3, <2>4
<1>2. PipelineInv => TypeOK
  BY DEF PipelineInv
<1>3. SafeSpec => []PlacementsCounted
  BY CountHolds
<1> QED
  BY <1>1, <1>2, <1>3, InvariantHolds, PTL
=============================================================================
