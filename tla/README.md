# A TLA+ model of hyperfleet-adapters-go

This directory models the five HyperFleet adapters: how events become
reconciles, what a reconcile reads, decides and writes, and what the adapters
promise together when reconciles interleave, calls fail or answer late, and
processes die. TLC checks the modules on small instances; TLAPS proves the
central invariants for every instance.

All paths below are relative to the repository; `internal/` is shortened to its
last elements where that is unambiguous.

## 1. Inventory

### The parts

| Part | Source | State it keeps | Operations |
|---|---|---|---|
| Work queue and worker pool | `common/workqueue/worker.go`, client-go | queue, dirty and processing sets, delayed keys, the workers | `Run`, `runWorker`; Add, Get, Done, AddRateLimited, AddAfter, ShutDown |
| Pub/Sub subscriber | `common/pubsub/subscriber.go` | `nackCount` per message | the callback of `Receive`: nack, discard, enqueue, ack |
| Adapter command | `cmd/main.go` | none | wires client, queue, subscriber and workers; cancels the context on a signal |
| version-resolution, nodepool-vr | `adapters/versionresolution`, `adapters/nodepoolvrresolution` | none (status entry in the API) | `Reconcile`: GET, GET statuses, resolve with Cincinnati, PUT |
| placement | `adapters/placement/reconciler.go` | none (status entry in the API) | `Reconcile`: GET, GET statuses, select, PUT |
| Placement selectors | `adapters/placement/selector.go`, `dynamic_selector.go` | round-robin counters | `Select` |
| hc, nodepool | `adapters/hc`, `adapters/nodepool` | none (status entry in the API, ManifestWork in Maestro) | `Reconcile`: GETs, gate, build, apply, read status back, PUT |
| ManifestWork builders | `adapters/hc/manifest`, `adapters/nodepool/manifest` | none | `Build` |
| Maestro transport | `transport/maestro/client.go`, `maestroclient/operations.go`, `manifest/generation.go` | none (ManifestWorks in Maestro) | Apply (get, compare generations, create / skip / patch), Delete, GetStatus |
| Discovery helpers | `manifest/generation.go`, `maestroclient/client.go` | none | GetResource, DiscoverResources, label selectors, the latest of a list, enrichment with status (called by no adapter yet) |
| HyperFleet API client | `common/hyperfleetapi/client.go`, `types.go` | none | `doWithRetry`, the typed accessors of status entries |
| Maestro client construction, logging, errors, mocks | `maestroclient/client.go` (lines 113-440), `pkg/`, `transport/mock` | none that a decision reads | configuration, wording |

### How they interact

An adapter is a process. Pub/Sub calls the subscriber's callback, which adds the
resource id to the work queue and acks. Workers take ids and call `Reconcile`.
Reconcilers hold no state: what one adapter tells another is its *status entry*
in the HyperFleet API (one per adapter and resource, replaced by every PUT), and
what they tell the management clusters is a *ManifestWork* in Maestro, which
carries its generation in an annotation. The gates of hc and nodepool read the
status entries of placement, of the two version resolvers and of hc. Sentinel
(outside the repository) republishes events for resources that are not
reconciled; the adapters themselves come back after five minutes or, on an
error, after the rate limiter's backoff.

### What is hard about it

* ten workers and any number of callbacks around one queue; an event for a key
  that is being reconciled;
* the ack comes before the reconcile, so the queue in memory is all there is;
* every reconcile is a read-decide-write over several HTTP calls, and spec,
  status entries and ManifestWorks change in between;
* a PUT whose answer is lost is repeated, and may land late; so may a create or patch in
  Maestro that its caller gave up, over whatever is there by then;
* the generation is read in one call, the resolved version in another, and the
  status feedback in a third;
* round-robin turns are taken by concurrent workers, and lost when a later
  lookup fails;
* shutdown drains a queue while delayed keys are pending, with a context that is
  cancelled already;
* a ManifestWork is updated by get, compare and merge patch, without a lock or a
  resource version, and an answer may be lost;
* the feedback on a HostedCluster is found by its position in a list that another
  package builds, and the rules name the manifests a second time;
* during a rolling update two processes of one adapter may overlap.

`PROJECT.json` lists these hazards line by line, with the properties that watch
them.

### What makes each part correct

* *Queue and workers*: one worker per key; nothing accepted is lost; failed keys
  come back; shutdown drains and ends.
* *Subscriber*: an acknowledged event is in the queue, in a worker's hands or
  reconciled, unless the process stopped; a poison pill is nacked a bounded number
  of times and settled.
* *Pipeline*: a ManifestWork's image is the one its generation asks for, and it
  sits where the cluster was placed; no reconcile takes it back; a cluster is placed once
  (more often only if replicas overlap or PUTs land late, and no more often than those);
  what is reported was applied; all of it converges when edits stop, unless a late write
  or a slower replica undoes it on a cluster that counts as Reconciled already.
* *Selectors*: placements stay even, and every cluster is placed.
* *Event to apply*: an edit that Sentinel announced is on its way until it is
  applied; no reconcile applies an older spec over a newer one.
* *ManifestWork operations*: an apply that succeeded was true at some moment; the
  content under a generation is that generation's, unless that has no manifests.
* *Builders*: rules meet manifests, statuses are read from the right resource, a
  NodePool follows its HostedCluster.
* *Discovery*: what is found is what was asked for.
* *API client*: a PUT that returned nil is stored; one that was refused is not; a
  call returns.

## 2. The modules

| Module | What it is |
|---|---|
| `CoalescingExecutor` | Abstract: requests for a key collapse, one server per key, nothing accepted is dropped |
| `WorkQueue` | client-go's queue and `worker.go`; implements `CoalescingExecutor` |
| `AdapterProcess` | Extends `WorkQueue` with the subscriber, Pub/Sub's deliveries and restarts |
| `MCAdapterProcess` | Messages and payloads for TLC |
| `Pipeline` | The five reconcilers over the API's status entries and Maestro's ManifestWorks |
| `PipelineProofs` | Theorems about `Pipeline`, for any number of replicas and for one of each adapter |
| `MCPipeline` | One cluster, one node pool, their bounds and symmetry for TLC |
| `Lists` | The two loops over a slice that selectors and lookups are made of |
| `ListProofs` | Lemmas about `Lists`, and induction for a set of numbers |
| `Selector`, `MCSelector` | Both placement selectors under concurrent workers; an instance |
| `SelectorProofs` | Theorems about `Selector` |
| `SentinelLoop`, `MCSentinelLoop` | Extends `AdapterProcess` with a user's edits, Sentinel and a reconcile in three calls; an instance |
| `ProcessProofs` | Theorems about `WorkQueue`, `AdapterProcess` and `SentinelLoop`, in three parts |
| `Generations` | Pure operators: generations, labels, discovery |
| `MCGenerations` | Builds all small lists of manifests, and the reference definitions |
| `GenerationsProofs` | Theorems about `Generations`, for lists of any length, and about `MCGenerations` |
| `ManifestWorks`, `MCManifestWorks` | Extends `Generations` with concurrent applies and deletes of one ManifestWork; an instance |
| `ManifestWorksProofs` | Theorems about `ManifestWorks` |
| `ManifestBuilders` | Extends `Generations` with what both builders produce and what the reconcilers read back |
| `ManifestBuildersProofs` | Theorems about `ManifestBuilders` |
| `StatusPut` | Abstract: what a caller of a status PUT may rely on |
| `HyperFleetClient` | `doWithRetry` as PUTs use it; implements `StatusPut` |
| `HyperFleetClientProofs` | Theorems about `HyperFleetClient` |

How they compose: `AdapterProcess` EXTENDS `WorkQueue`, its steps are the queue's
steps with their meaning for events. `Pipeline` starts from what those two
establish (a key is in one reconcile at a time per process, and a reconcile may
start again at any moment) and from what `HyperFleetClient` establishes (a PUT
lands, lands late, or does not). `Selector` details the choice that `Pipeline`'s
`PlaceCheck` leaves open; it and `Generations` rest on the loops of `Lists`. `SentinelLoop` closes the loop around `AdapterProcess`: what
is published depends on what was applied. `ManifestWorks` details the apply that
`Pipeline` performs in `HCDecide` and `HCWrite`, for any callers, with everything else that
may happen to the ManifestWork;
`ManifestBuilders` details what `Pipeline` calls a `Manifest` and `Observed`. Both rest on
the operators of `Generations`.

### State and actions against the code

**WorkQueue.** `queue`, `dirty`, `processing` are client-go's fields of the same
names, `waiting` the keys in the delaying queue's heap; `pc` and `key` are each
`runWorker` loop's position and item; `run` is how far `Run` has come. `Get`,
`Exit`, `Reconcile`, `AddRateLimited`, `AddAfter`, `Done` are the loop's steps in
its order: the requeue is called *before* `Done`. `Cancel`, `ShutDown` and
`Return` are the context, `queue.ShutDown()` and `wg.Wait()`. Adding a key that is
dirty, or while shutting down, does nothing; a key made dirty while held is
queued by `Done`. Time is abstracted: a delayed key may become ready at any
moment. Client-go is external and modelled from the calls made to it.

**AdapterProcess.** `at`, `held` and `count` are a callback's position, message and
local variable; `nackCount` is the subscriber's map, with 0 for an absent entry.
`CountFailure` and `ForgetCount` are the two critical sections, `Nack` the branch
below the limit, `DiscardNoID` the missing id, `Enqueue` then `Ack` the two calls at
the end. `Deliver` is Pub/Sub: anything not acked, and with a mishap a message that
a callback already holds. `ReceiveFails` is the error that ends `Run`. `Restart` is
a crash or replacement: everything but `acked` is gone. `fate` and `nacksLeft`
are history variables that no guard reads; `nacksLeft` is how many nacks of a message may
still come before it is discarded, and a discard *renews* it (`ForgetCount`).

**Pipeline.** `spec`, `reconciled` and the status entries `vr`, `placement`,
`status` are the API's state; `work` and `feedback` are Maestro's. Each adapter's job
per process and key carries what `Reconcile` has in local variables. One action
per HTTP or gRPC call: `VRGet`, `VRCheck`, `VRPut`; `PlaceGet`, `PlaceCheck`,
`PlacePut`; `HCGet`, `HCCheck` (statuses, gate and build), `HCDecide` (the get and the
comparison of `ApplyManifestWork`), `HCWrite` (create or patch), `HCFeedback`,
`HCPut`; `HCBuilt` and `Manifest` are what `Build` produces; the nodepool adapter likewise with `NPCluster` for the two reads of the
owner. A return without a requeue and an error both end the job; `Fail` is
an error or a crash at any point. `Put` stores at once, or is given up by its
caller and lands later (`LandLate`), or both. A job that fails at its create or patch
(`HCFail`, `NPFail`) may leave the request in flight (`lateWork`), and it lands
whenever it likes (`LandWork`): a patch over whatever is there, a create only if nothing is.
`EditSpec`, `MarkReconciled` and
`AgentReports` are the environment; `Requested` is what specs ask for. `versionAt`,
`everPlaced` and `highest` (the highest generation applied) are history.

Data is abstracted to what the properties tell apart: a version stands for the
release image resolved from it, a management cluster for the base domain selected
with it, a ManifestWork is its generation and its version, and of the conditions only
Available is kept, because no gate reads Applied or Health.

**SentinelLoop.** `wanted`, `applied` and `announced` are generations of a spec: in
the API, what is applied, and when Sentinel last published; `reported` is the generation
in the adapter's status entry, which is what Sentinel goes by. `seen` is what a worker's
reconcile has read, `wrote` says that it has applied it. A reconcile is three calls:
`Read`, which fails once the context is cancelled, `Apply` and `Report`; or it ends as
`PassOver` (the resource counts as reconciled), `FailReconcile` (an error, wherever it is) or
`WaitForSentinel` (`Result{}` without an error). A failure or a crash may leave the call
that came next in flight (`inFlight`), and it happens whenever it likes (`LateCall`). The
queue, the subscriber and the crash are those of `AdapterProcess`. A message that is
settled is published again (`Announce`) as the next event. `lost` and `reached` are
history: keys whose announcement a crash or a wait has used up, and the highest
generation that was ever applied.

**Generations.** One operator per function, of the same name. Names, namespaces, keys
and values are numbers with 0 for the empty string; a selector is the set of its
parts, an annotation is missing, empty, unparsable or a number. `GetLatest` is a set,
because `sort.Slice` is not stable.

**ManifestWorks.** `store` is Maestro's ManifestWork; `call` is each caller's request,
position and answer; `late` holds writes whose answer was lost. `BeginApply` is
`ApplyResource` down to the validation, `Get` the get and the comparison, `Write` the
create, patch or delete, `Fail` any call's error, with or without its effect. `Patched`
is the JSON merge patch: the annotation is replaced, labels are merged, and so is the spec, of which
every field is left out when it is empty: manifests are replaced unless the new
ManifestWork has none, which keeps the older ones. `Tamper` is
another client that removes the annotation. `met` is history.

**ManifestBuilders.** `works`, `reported` and `entry` are the ManifestWork, the feedback
per manifest and the status entry of each of hc and nodepool. `HCApply` and `NPApply`
are the gate, `Build` and `Apply`; `Report` is `GetStatus`, `buildStatusPayload` and the
PUT; `AgentReports` answers what the rules ask for (`Asked`). A composed name is the
tuple of its parts, so that two names are equal exactly if their parts are.

**Selector.** `SelectStatic` is `RoundRobinSelector.Select`, one turn under the lock.
`Discover`, `PickMC`, `PickDomain` are `DynamicSelector.Select` in its order:
eligible clusters, a turn of `mcCounter`, the domains, a turn of `domCounter`. `Fail`
is a lookup or PUT that errs, `ConsumersChange` the registry.

**HyperFleetClient.** `Send`, `NoAnswer`, `Answer`, `Backoff` are the loop of
`doWithRetry`. `requests` holds what the API has not processed, including
requests that the client has given up on; `Serve` processes one and answers, `Drop`
loses one. A 5xx may come after the payload was stored.

## 3. The runs

| Run | What it asks | Instance |
|---|---|---|
| `workqueue` | The inductive invariant, exclusion per key, drain, refinement of the executor, retries, termination | 3 keys, 2 workers |
| `process` | What an ack means; the nack budget; does every message settle and every queued event get reconciled? | event, blank message, poison pill; 2 callbacks; 1 crash, 1 mishap |
| `process_deaf` | Does `Run` pull until its context is cancelled? No (finding) | 1 event, no faults but a failed Receive |
| `pipeline` | Safety and convergence of the cluster side, with the inductive invariant of any number of replicas (`OverlapInv`) | 1 cluster, 3 generations, 2 MCs, 1 version, 1 failure (its write may land late), 1 late PUT |
| `pipeline_nodepool` | Safety and convergence with a node pool | cluster of 1 generation, node pool of 2, 1 MC, 1 version, 1 failure (its write may land late) |
| `pipeline_overlap` | Two processes per adapter: do images stay with their generations, and is a ManifestWork that was patched back repaired? | 2 processes, 2 generations, 1 MC, 1 version or none |
| `sentinel_loop` | Is an announced edit ever forgotten, or an older spec applied over a newer by a reconcile? Is the last edit applied in the end? | 1 resource of 2 generations, 1 callback, 2 workers; 1 failure and 1 crash, each with a call that may happen late |
| `generations` | Do the pure functions agree with their reference definitions? | all lists of 3 manifests (24 objects) in at most 2 ManifestWorks |
| `manifestworks` | What a successful apply or delete means; that generations do not mix and nothing unvalidated gets in | 2 callers, 3 valid ManifestWorks (one without labels, one without manifests) and 1 invalid |
| `builders` | Rules, positions and namespaces of the two builders | 2 generations of each, 1 subnet |
| `selector` | Even placement, and every cluster placed | 4 clusters, 2 workers, 1 failure, 1 change |
| `client` | Does the client keep the promise of `StatusPut`? | 2 calls of 3 attempts |

The runs take between seconds and three and a half minutes. Beside them are
configurations to be run by hand:

| Configuration | Module | What it is for |
|---|---|---|
| `AdapterProcessLarge.cfg` | `MCAdapterProcess` | Safety (with `ProcTypeOK`) with two mishaps of Pub/Sub |
| `SentinelLoopLarge.cfg` | `MCSentinelLoop` | Safety of the loop (with `LoopInv`) with two callbacks and a mishap of Pub/Sub |
| `SentinelLoopMishap.cfg` | `MCSentinelLoop` | The liveness of the loop with two callbacks and a mishap, and one worker |
| `PipelineLarge.cfg` | `MCPipeline` | Safety (with `OneReplicaInv`) of the cluster side with two versions and specs that ask for none |
| `PipelineNodePoolLarge.cfg` | `MCPipeline` | Safety with a node pool, two management clusters and two versions |
| `PipelineOverlapLarge.cfg` | `MCPipeline` | Safety (with `OverlapInv`) of two overlapping processes with two management clusters |
| `PipelineNodePoolLate.cfg` | `MCPipeline` | `OneReplicaInv` and `OverlapInv` with a node pool, a failure and a late PUT |
| `PipelineNodePoolSetBack.cfg` | `MCPipeline` | The same with a node pool of three generations, so that a late write sets it back, and `WorkMovesForward` |
| `PipelinePlacements.cfg` | `MCPipeline` | `PlacementsCounted` and `PlacementsBounded`, with two processes, a failure and two late PUTs |
| `SelectorPlacements.cfg` | `MCSelector` | Both invariants of the selectors (`SelectorInv`, `WhereInv`), with two failures and two changes of the registry |
| `WorkQueueResync.cfg`, `SelectorPaging.cfg`, `GenerationsEmptyLabel.cfg`, `GenerationsByName.cfg`, `ManifestWorksRecreate.cfg`, `ManifestBuildersSubnet.cfg` | `WorkQueue`, `MCSelector`, `MCGenerations`, `MCGenerations`, `MCManifestWorks`, `ManifestBuilders` | Each checks one documented claim, and TLC answers with a counterexample (section 5) |

### Why the bounds are enough

Two workers are needed to break exclusion, and three keys so that one waits behind
another while a third is held. Two callbacks are what overlapping duplicates
need; `maxNackCount` keeps the code's value 3; one mishap is a duplicate or a lost ack, and
the larger instance has both together. In the pipeline, a stale read shows with one edit, and a
write that lands late over a newer one with two: an older create finds nothing to create, so it
takes a patch from the first generation to the second that lands after the third. A misplaced
ManifestWork shows with two management clusters, a wrong image with two versions, or with
one and specs that ask for none; one failure and one late PUT interrupt or delay any
single call, and each can hit any job. A node pool of three generations is in
`PipelineNodePoolSetBack`: nothing else than what a late write leaves behind needs the third. The node pool and the cluster side
interact only through the cluster's entries, so one of each suffices, and one
management cluster and one version: what a gate could miss there is an entry that
is not there yet, or is another's; the larger instance has two of each. Even
placement needs more clusters than eligible management clusters. In the loop with Sentinel, one edit makes a spec stale,
and an apply that was given up before it may put it back;
one event is enough, because Sentinel announces again once it has settled and
the announcement may still meet a reconcile, a retry or (in the larger instances) a duplicate
of the one before. Generations
compare at most two things at a time, so three manifests leave one that
should not matter; a ManifestWork is decided on by one caller while another writes, and
a ManifestWork of the second generation without manifests is the one case in which older ones stay.
Builders treat a generation as an opaque number, so two are enough. Two calls are
what it takes for a late copy to overwrite a newer payload. The client's three
attempts are the code's.

`Pipeline.cfg` uses neither symmetry nor a state constraint; `MCSymmetry` (of
management clusters, versions and processes, which nothing orders) is used only
where no temporal property is checked. Deadlock is checked in every run: where the
system may come to rest, the specification says so with a stuttering disjunct
(`Terminated`, `Finished`), or the environment can always act.

### Fairness

Weak fairness of every worker, callback and reconcile step: goroutines are
scheduled, every HTTP call has a timeout (10 s in the API client), so a
reconcile returns. Weak fairness of the queue's timers. Weak fairness of a
message's delivery: Pub/Sub redelivers what is not acked, and as every other message
is settled in the end, a callback is free for it. In `Pipeline`, weak
fairness of a *first* step of a reconcile is Sentinel's republishing and the
five-minute requeue; hc and nodepool return `Result{}` when they wait, so their
convergence does rest on Sentinel. In `Selector`, strong fairness of starting a
cluster that is not placed. In `SentinelLoop`, weak fairness of `Announce` is
Sentinel's republishing ("every ~5s", `README.md:33`), next to `AdapterProcess`'s
fairness of delivery, callbacks, workers and timers. Nothing is assumed of edits, management clusters,
failures, the API's answers, signals or crashes, and nothing forces a write or call that was
given up to land (`LandWork`, `LateCall`): it may be lost.

## 4. What is proved

By TLAPS, for every set of keys, workers, callbacks, messages, clusters, node
pools, management clusters, versions and processes, and every bound. A theorem is
about the safety part of a specification (`SafeSpec`, `ProcSafeSpec`,
`LoopSafeSpec`: initial states and steps, no fairness), so it holds with fairness as well.

*ProcessProofs* has three parts, each resting on the one before. The first is about
`WorkQueue`, from `NoKeyAssumption` and `WorkerAssumption`. The inductive invariant is `IInv`: exclusion alone is not inductive, because it depends on the
queue never holding a key that is in a worker's hands. `HeldIsProcessing` ties the
workers to the processing set, `QueueIsReady` says the queue is exactly the dirty
keys nobody holds, each once, and `ExitedIsDrained` is what the last worker to
leave leaves behind. From it: `InvariantHolds`, `TypeCorrect`, `OneWorkerPerKey`,
`ShutdownDrains`, and `Refinement`, that every step is a step or a stutter of
`CoalescingExecutor` under `pending <- dirty, holding <- key, open <- ~ShuttingDown`.
`WorkerAssumption` (there is a worker) is needed: with `--workers 0` `Run` would
return at once at shutdown and leave the queue as it is.

The second part is about `AdapterProcess`, from the queue's assumptions,
`PayloadAssumption` and `BoundAssumption`. `ProcInv`
adds to the queue's `IInv`: `CallbacksSound`, what a callback at each position
knows of its message, `FateIsKept`, and `NacksCovered`. That an acknowledged event
is safe is not inductive, because the key is enqueued before the ack:
`FateIsKept` says where the key is for *every* event, acknowledged or not, and
`CallbacksSound` that a callback about to ack an event has enqueued it. The nack
budget is not inductive either, because several callbacks can have counted and not
yet nacked: what is left of the budget covers the nacks under way *and* the failures that
can still be counted below the limit (`Uncounted`). Deleting the map's entry gives those
failures back; the discard that deletes it renews the budget to pay for them, and for the
callbacks that have counted and not nacked yet, at most one each. The bound counts from
one discard to the next, it does not add up over them. From it: `ProcessInvariantHolds`, `ProcessTypeCorrect`,
`AckedEventsAreSafe`, `NacksAreBounded` and `ExclusiveAcrossRestarts`. The lemmas of
the first part about the queue's steps are reused as they are.

The third part is about `SentinelLoop`, from those and `LoopAssumption`. `LoopInv` adds to `ProcInv` that
nothing is announced or applied that is not wanted (`WantedIsLatest`), that what is there or
reported was applied (`ReachedIsHighest`), that a worker's `seen` is not behind anything that was
applied, or that a call still in flight may apply, and not ahead of what is wanted
(`SeenIsCurrent`, which needs exclusion per key), and `AnnouncedIsHandled`. So a reconcile never
takes a resource back; a call that its caller gave up can, and `AppliedMovesForward` says that
nothing else does. The run's `AnnouncedIsOnItsWay` counts an event that is only still
to be acked as one that is on its way, and an ack would break it: the invariant
counts an event only while no callback has handed it to the queue (`EventPending`).
From it: `LoopInvariantHolds`, `AnnouncementsAreKept`, `AppliedNeverGoesBack`.

*PipelineProofs*, from `ConstantAssumption`. That a ManifestWork matches its
generation is not inductive: the job that writes it read the generation and the
resolved version in two calls. `PipelineInv` adds what makes the pair sound:
`SpecOnRecord` (the version of each generation is on record and does not change),
`JobsSound` (a job's generation and version belong together, its placement was
recorded) and `WorkOfAGeneration`. The argument: `HCGate` compares the resolved
version with the version *read with the generation*, so whatever is resolved by
then, a job that passes the gate carries the version of its generation; placements
are only ever added to the record. The proof has one lemma per adapter and one
per step of the environment. From it: `InvariantHolds`, `VersionsMatch`,
`OnlyWherePlaced`. A write that was given up carries what its job did (`LateWorkSound`), whenever it
lands. Replicas, failures, late PUTs and late writes are unbounded here.

Its second part is over `PipelineInv`, under the hypothesis `OneReplica`:
at most one process per adapter at a time (how many the charts start is outside this
repository, and the code has no leader election; that one process
reconciles a key once at a time is `WorkQueue`'s theorem). Two processes do patch back, as section 5
says, so the hypothesis is needed. A crash is a `Fail` of every job it ends.
`OneReplicaInv` says what an undisturbed reconcile may rely on from call to call:
`JobLeads`, that no generation of its resource that was ever applied, or may still land, is ahead
of the one the job carries, and that what it applied has been applied, even if a late
write has replaced it since. That is why the invariant speaks of the *highest* generation
applied: what is in Maestro at the moment may be an older one that landed late, and with it
`ReportedIsApplied` and `ReconciledIsCurrent` say what they can, that the generation reported
was applied, and that the last one is still there unless a late write has set it back
(`SetBack`). `EntriesReported`, `LateReported` and `ReconciledIsDone` say that every entry, also one
in a PUT that has not landed, stands on applied work, and Reconciled on an entry;
and, while no PUT was delayed, that the placement that stands is the only one
there ever was (`PlacementStands`) and that a node pool's job goes where its cluster
was reported (`NPJobsFollow`), and so does a write in flight (`LateWorkFollows`). One lemma per step says what it does to Maestro
(`Forward`, `Settles`) or to the entries; it serves every conjunct. From it: `OneReplicaHolds`,
`PlacedAtMostOnce`, `ReportsAreTrue`, `ReconciledMeansApplied`, `NodePoolsFollow` (while
no PUT was delayed; the run has no late PUTs) and `WorkNeverGoesBack` (`WorkMovesForward`:
no reconcile takes a ManifestWork back or changes it within a generation, only `LandWork` does).

The third part asks what is left when the hypothesis goes: replicas that overlap in a
rolling update, with failures, PUTs and writes that land late, as many of each as one likes. A
ManifestWork or an entry may go back then, and a cluster may be placed twice; nothing
that orders generations is invariant. `OverlapInv` keeps what no step of anybody undoes
(`Onward`): a resource's generation does not fall, a ManifestWork that is there stays, and so
does the fact that a management cluster has reported on it. An entry, also one in
flight, is backed by such facts (`EntriesBacked`, `LateBacked`), a job by those it goes
on to use (`HCJobsBacked`, `NPJobsBacked`, and `LateWorkBacked` for a write in flight), and since a node pool's job passes its gate on hc's
entry, no node pool's ManifestWork comes before a report on its hosted cluster
(`NodePoolComesAfter`), although cluster, statuses and ManifestWork are read and
written in separate calls. The entry it trusts may be old; it is never about
nothing. From it: `OverlapHolds`, `ReportsAreBacked`, `NodePoolsComeAfter` and
`ReconciledWasHosted`. TLC checks `OverlapInv` in the run `pipeline`, with two
processes (`PipelineOverlapLarge`), and with a node pool (`PipelineNodePoolLate`); two
processes *and* a node pool are more states than TLC gets through, so for that
case there is the proof alone.

The fourth part counts placements. Deciding and recording are two calls, so replicas
that decide at the same time each record one, and a PUT that lands late may record
another. `PlacementsBounded` says that there is no further way, however many reconciles
start, fail or overlap. That is not inductive: what may still come is in no record.
`PlacementsCounted` counts the placements made or still in flight (`GivenTo`) and
the replicas that have decided (`AboutToPlace`): while a cluster is not placed, all it
can be given are delayed PUTs; once it is, nobody decides anew, because a placement
is replaced and never removed, and each that had decided adds at most one as it leaves.
The hypothesis is `IsFiniteSet(Process)`: a bound by the number of replicas asks that
there is one. From it: `CountHolds`, `PlacementsAreBounded`. The bound is reached: with one less,
TLC finds a counterexample in `PipelinePlacements`.

*ManifestWorksProofs*, from `WorkAssumption`. `WorksInv` is inductive: a ManifestWork
under a valid generation has all of one that was applied with it, or of one that has no
manifests and left those of another valid one (`NoMixture`), and every
apply past its first step, also one given up and not yet landed, has been validated
(`AsAsked`) - without that part an unvalidated ManifestWork could land. The two facts
that carry the argument are `EffectIsSound`, that a create, patch or delete leaves
Maestro with what was asked for, and `SkippedIsThere`, that an equal generation of a
valid ManifestWork is the same annotation: `GetGeneration` maps what it cannot read to
0, and validation keeps 0 from being asked for. From it: `InvariantHolds` and
`SuccessWasTrue`, for any number of callers.

*SelectorProofs*, from `ListAssumption`, has two parts. Evenness is a statement about
placements; the code counts turns. `TurnsAreKept` ties them: after q full rounds every
position of the list has had q or q + 1 turns, by the counter's residue, and each turn is
a placement, a selection in progress, a failure, or that of a static candidate without
a base domain, which has its turns and gets nothing. The static selector adds to its counter
after using it, the dynamic one before, so a round starts at different positions; `Turns`
says where, and the rest of the argument is the same for both. The hypothesis is
`ListedOnce`: no management cluster is listed twice, in Secret Manager or among the
candidates (the code checks neither; with a name listed twice it would have two turns a
round). From it: `SelectorInvariantHolds`, `PlacementIsEven`.

The second part needs no hypothesis, and the registry may change as often as one likes:
`WhereInv` says of each selection in progress that what it has in hand may be given
(`SelectionsSound`), which a consumer that comes or goes leaves alone, because an eligible
list is taken from the names Secret Manager has. From it: `PlacedOnlyWhereListed`
and `PlacementsAreKept`, that no selection that is still going on moves a cluster that is
placed. Within one process, that is: a second one, or a PUT that lands late, can
(`PlacementsBounded` says how often).

*ListProofs* and *GenerationsProofs*. What a loop over a list computes takes an induction
over its length, and the library states induction for an operator, which none of the
provers can instantiate. `SetInduction` states it for a *set* of numbers, which they can: the
set of the lengths at which a fact holds. From it: that the loop `Selected` keeps
the wanted elements in their order, each once if each was listed once, that `FirstOf` finds the first, and
that `FlattenSeq` has what its lists have. *GenerationsProofs* uses them for lists of any length and
objects of any kind: `LatestOfAnyList` (there is a latest item, as the order is
total up to items that agree in generation and name), `SelectorMeansLabels`,
`DiscoveryIsExact`, `GetIsExact` and `EnrichFindsTheOnlyOne`. The invariants of
`MCGenerations` follow for any `MaxWorks` and `MaxManifests`:
`LatestIsAlwaysNewest`, `SelectorsMeanLabels`, `SearchesAgree`, `EnrichmentIsOwn`.

*HyperFleetClientProofs*, from `ClientAssumption`. `ClientInv` relates the requests in flight,
the answer the client is about to read, the results and what the API stores:
`RequestsSound` (every request of a call that is not in doubt is the one the client
waits for), `ResultsSound`, `LandedSound`, `EntryIsLast`. From it:
`ClientInvariantHolds`, `AnsweredStays`, `RefusedStaysOut`, and `ClientImplementsPut`:
every step of the client and of the API is a step or a stutter of `StatusPut` under
`copies <- Copies`, the attempts that are left and the requests in flight. The proof has one
lemma per step; the invariant is needed where a call returns, to know that its
result is what the abstract call may return.

*ManifestBuildersProofs*, without assumptions. `BuildersInv` says that Maestro has what a
builder made (`WorksAreBuilt`), that a report is as long as the adapter's list of
manifests (`ReportsFit`), also after an update, and that what is available, in a report or
in hc's entry, was up (`AvailableWasUp`). The lemmas go through the lists position by
position: each rule of hc is about one manifest, and the fourth is the HostedCluster, so
that looking for the resource (`Told`) and reading at `hostedClusterManifestIndex`
(`Payload`) give the same. From it: `BuildersInvariantHolds`, `RulesAlwaysMeet`,
`StatusIsOwn`, `HostedClusterFirst`.

Only model-checked:

* everything about liveness (the prover does not reach fairness or ENABLED):
  `ComesBack`, `ShutdownCompletes`, the fairness of `ImplementsExecutor`,
  `EveryMessageSettles`, `QueuedIsReconciled`, `EditsAreApplied`, `ClusterConverges`,
  `NodePoolConverges`, `EveryClusterPlaced`, `CallReturns`.

## 5. Where the code differs from what it says

* `--resync` is documented as a periodic resync interval (`README.md:93`); nothing
  reads it (`cmd/main.go:94`). Configuration `WorkQueueResync`.
* "Run pulls messages in a loop until ctx is cancelled" (`subscriber.go:36`); `Receive`
  is called once, and after an error the process stays up without events. Run
  `process_deaf`.
* `MatchesLabels` "returns true if all selector labels are present"
  (`generation.go:371`); a label that is missing matches the empty value. Configuration
  `GenerationsEmptyLabel`.
* With a name, discovery "fetches a single resource by name"
  (`transportclient/interface.go:53`); the kind is not compared, so resources of
  other kinds with that name come along (`maestroclient/client.go:627`). Configuration
  `GenerationsByName`.
* `RecreateOnChange` "forces delete+create instead of update"
  (`transportclient/types.go:11`); `ApplyResource` does not look at its options. Configuration
  `ManifestWorksRecreate`.
* "subnet/region come from nodepool spec" (`nodepool/reconciler.go:117`); the subnet is
  the cluster's (line 129), and a new one is not applied until the node pool has a
  new generation. Configuration `ManifestBuildersSubnet`.
* Eligible management clusters are documented as the intersection of two sets
  (`dynamic_selector.go:25`); the consumers are one page of 100. Configuration
  `SelectorPaging`.

### Remarks that are no findings

* `Forget` is never called, so a key's backoff is never reset (`worker.go:66`).
* A poison pill is nacked `maxNackCount - 1` times and discarded at the next delivery.
  After an overlapping duplicate its count may start anew, and an entry may stay in
  the map.
* Keys that wait in the delaying queue are dropped at shutdown; only keys that were
  ready are drained.
* A PUT that lands late, or a second process, can record a second placement
  (`PlacementsBounded` counts them).
* A patch of a ManifestWork that its caller has given up (an error, a cancelled context, a
  crash) can land after a newer generation was applied, and takes the ManifestWork back; so can
  a second process, `WorkMovesForward` is claimed for one. If the newer generation was
  reported as available by then, and the cluster is marked Reconciled on the strength of
  that, hc skips the cluster (`hc/reconciler.go:61`), Sentinel is silent, and the older
  ManifestWork stays until the next edit. `ReconciledIsCurrent`, `ClusterConverges` and
  `EditsAreApplied` name that as their one exception. A node pool is repaired always: nodepool
  does not look at Reconciled (`NodePoolConverges`).
* A ManifestWork without manifests passes the validation (`generation.go:195`), and as a patch
  it leaves the older manifests under the new generation: the spec's fields are omitted when they
  are empty (`operations.go:246`). No builder makes one.
* During shutdown the queue is drained with a context that is cancelled, so the
  reconciles of the drain fail at their first call and their retries are dropped
  (`main.go:104`, `worker.go:36`). Nothing is lost for good: Sentinel announces again.
* The nodepool builder validates nothing: without a region the zone is "-a".
* Without a ManifestWork hc reports Health False, nodepool Unknown.
* The pipeline diagram (`README.md:48`) puts placement behind version resolution;
  placement does not wait for it, only hc and nodepool gate (`README.md:53`).
* The status feedback is not tied to a generation: Available may be reported with a
  new `ObservedGeneration` before the management cluster has seen it (`hc/reconciler.go:134`);
  `AgentReports` answers for whatever ManifestWork is there, and no property says more.
* `Delete` is never called: ManifestWorks of deleted resources stay.
* The comment on the subscriber says "event ID"; the id in the event's data is used.

## 6. Not modelled

* The construction of clients, logging, error wording, flags other than those that
  choose a selector.
* Manifest contents beyond identity, generation, image, subnet and feedback rules.
* YAML and JSON parsing of manifests, and list pages of Maestro.
* Cincinnati's graph: a version is resolved or it is an error. A resource that asks for a
  version Cincinnati does not know, or whose manifest does not validate, never
  converges; in the model such reconciles are failures, and the versions are the
  known ones.
* A PUT in `Pipeline` lands at most twice, once at once and once late; the client's three attempts
  may land three times (`StatusPut`). That a third copy lands after something else was
  stored is left out there; its entry is the one that was stored before, so the placements that
  `PlacementsBounded` counts do not become more.
* A write to Maestro in `Pipeline` and `SentinelLoop` lands once: nothing repeats the request of one
  `ApplyManifestWork`, the next reconcile decides anew.
* How long backoffs are: time is abstracted. A malformed node pool key, which fails for
  ever, is one more key to the queue, and `ImplementsExecutor` says it starves nobody.
* Deletion of resources; the width of counters (2^63 placements).
* The HyperFleet API, Maestro, Pub/Sub, Sentinel and the management clusters are
  external: `Reconciled` is modelled as derivable from hc's entry being available at the
  current generation and taken back by an edit.

## 7. Plan

1. `CoalescingExecutor`, `WorkQueue` and its proofs (done).
2. `AdapterProcess` over it (done, with its proofs).
3. `Pipeline` and the proofs of its two invariants (done).
4. `Selector` (done, with its proofs).
5. `StatusPut` and `HyperFleetClient` (done, with the refinement proved).
6. `Generations`, `ManifestWorks` and `ManifestBuilders` (done, with proofs).
7. `SentinelLoop`: one process, its reconciler and Sentinel, across a restart (done,
   with its proofs).
8. `Lists` with its lemmas, the proofs about `Generations`, and what holds of any number of
   replicas (`OverlapInv`; done).
