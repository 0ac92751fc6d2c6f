--------------------------- MODULE AdapterProcess ---------------------------
(***************************************************************************)
(* One adapter process: the Pub/Sub subscriber                             *)
(* (internal/common/pubsub/subscriber.go) in front of the work queue and   *)
(* the worker pool. Pub/Sub (external) delivers a message at least once:   *)
(* again after a nack, after an ack that was lost, after a crash, and      *)
(* sometimes while an earlier delivery is still in a callback. Callbacks   *)
(* run concurrently. The process can crash or be replaced at any moment,   *)
(* and everything but Pub/Sub's own state is in its memory.                *)
(***************************************************************************)
EXTENDS WorkQueue, Integers, FiniteSets

CONSTANTS
    Msg,            \* the messages of the subscription
    Callback,       \* the goroutines in which Receive calls the callback
    Payload,        \* [Msg -> Key, Unparseable or NoResourceID]
    Unparseable,    \* not a CloudEvent
    NoMsg,          \* what a free callback holds
    NoResourceID,   \* a CloudEvent whose data has no id
    MaxNackCount,   \* maxNackCount
    MaxCrashes,     \* bound: how often the process dies and starts again
    MaxMishaps      \* bound: how often Pub/Sub duplicates a delivery or loses an ack

ASSUME PayloadAssumption ==
    /\ NoMsg \notin Msg
    /\ Payload \in [Msg -> Key \cup {Unparseable, NoResourceID}]
    /\ Unparseable \notin Key
    /\ NoResourceID \notin Key
    /\ Unparseable # NoResourceID

ASSUME BoundAssumption ==
    MaxNackCount \in Nat \ {0} /\ MaxCrashes \in Nat /\ MaxMishaps \in Nat

VARIABLES
    receiving,  \* s.sub.Receive has not returned
    acked,      \* the messages Pub/Sub counts as acknowledged
    at,         \* where each callback is: free, parse, counted, ack
    held,       \* the message each callback was given
    count,      \* the callback's local variable count
    nackCount,  \* Subscriber.nackCount; 0 is an absent entry
    crashes, mishaps,  \* the bounded faults so far
    fate,       \* history: what became of each event's key, see Fates
    nacksLeft   \* history: the nacks each message may still get; giving it up sets them anew

\* none: not handed to the queue. queued: added, no worker took the key since.
\* taken: a worker reconciles the key. reconciled: that reconcile returned.
\* dropped: refused by a queue that shut down, or lost in a crash.
Fates == {"none", "queued", "taken", "reconciled", "dropped"}

subVars == <<receiving, acked, at, held, count, nackCount>>
ghostVars == <<fate, nacksLeft>>
faultVars == <<crashes, mishaps>>

procVars == <<vars, subVars, faultVars, ghostVars>>

ProcTypeOK ==
    /\ TypeOK
    /\ receiving \in BOOLEAN
    /\ acked \subseteq Msg
    /\ at \in [Callback -> {"free", "parse", "counted", "ack"}]
    /\ held \in [Callback -> Msg \cup {NoMsg}]
    /\ count \in [Callback -> Nat]
    /\ nackCount \in [Msg -> Nat]
    /\ crashes \in 0..MaxCrashes
    /\ mishaps \in 0..MaxMishaps
    /\ fate \in [Msg -> Fates]
    /\ nacksLeft \in [Msg -> Int]

ProcInit ==
    /\ Init
    /\ receiving = TRUE
    /\ at = [c \in Callback |-> "free"]
    /\ held = [c \in Callback |-> NoMsg]
    /\ count = [c \in Callback |-> 0]
    /\ nackCount = [m \in Msg |-> 0]
    /\ nacksLeft = [m \in Msg |-> MaxNackCount - 1]
    /\ acked = {}
    /\ crashes = 0
    /\ mishaps = 0
    /\ fate = [m \in Msg |-> "none"]

-----------------------------------------------------------------------------
(* Pub/Sub (external)                                                       *)

\* Receive stops calling back once its context is cancelled. A message that a
\* callback already holds can come again.
Deliver(c, m) ==
    /\ receiving /\ run = "running"
    /\ at[c] = "free"
    /\ m \notin acked
    /\ \/ /\ \A d \in Callback : held[d] # m
          /\ UNCHANGED mishaps
       \/ /\ \E d \in Callback : held[d] = m
          /\ mishaps < MaxMishaps
          /\ mishaps' = mishaps + 1
    /\ at' = [at EXCEPT ![c] = "parse"]
    /\ held' = [held EXCEPT ![c] = m]
    /\ UNCHANGED <<vars, receiving, acked, count, nackCount, crashes, ghostVars>>

\* The callback's goroutine returns.
CallbackReturns(c) ==
    /\ at' = [at EXCEPT ![c] = "free"]
    /\ held' = [held EXCEPT ![c] = NoMsg]
    /\ count' = [count EXCEPT ![c] = 0]

\* msg.Ack(), which Pub/Sub may never see.
Ack(c) ==
    /\ at[c] = "ack"
    /\ \/ /\ acked' = acked \cup {held[c]}
          /\ UNCHANGED mishaps
       \/ /\ mishaps < MaxMishaps
          /\ mishaps' = mishaps + 1
          /\ UNCHANGED acked
    /\ CallbackReturns(c)
    /\ UNCHANGED <<vars, receiving, nackCount, crashes, ghostVars>>

-----------------------------------------------------------------------------
(* The callback                                                             *)

\* The parse failed: the message's count goes up under the lock.
CountFailure(c) ==
    /\ at[c] = "parse"
    /\ Payload[held[c]] = Unparseable
    /\ nackCount' = [nackCount EXCEPT ![held[c]] = @ + 1]
    /\ count' = [count EXCEPT ![c] = nackCount[held[c]] + 1]
    /\ at' = [at EXCEPT ![c] = "counted"]
    /\ UNCHANGED <<vars, receiving, acked, held, faultVars, ghostVars>>

\* Mutant of Nack: one more nack than the limit.
NackOnceMore(c) ==
    /\ at[c] = "counted"
    /\ count[c] <= MaxNackCount
    /\ nacksLeft' = [nacksLeft EXCEPT ![held[c]] = @ - 1]
    /\ CallbackReturns(c)
    /\ UNCHANGED <<vars, receiving, acked, nackCount, faultVars, fate>>

\* Below the limit: msg.Nack(), and Pub/Sub delivers the message again.
Nack(c) ==
    /\ at[c] = "counted"
    /\ count[c] < MaxNackCount
    /\ nacksLeft' = [nacksLeft EXCEPT ![held[c]] = @ - 1]
    /\ CallbackReturns(c)
    /\ UNCHANGED <<vars, receiving, acked, nackCount, faultVars, fate>>

\* The callbacks that have counted a failure of m and will nack it.
Nacking(m) == {c \in Callback : at[c] = "counted" /\ held[c] = m /\ count[c] < MaxNackCount}

\* Poison pill: the count is deleted, under the lock again, before the ack. From here
\* on fewer than maxNackCount nacks may follow, beside those of the callbacks that
\* have already counted a failure and not nacked yet.
ForgetCount(c) ==
    /\ at[c] = "counted"
    /\ count[c] >= MaxNackCount
    /\ nackCount' = [nackCount EXCEPT ![held[c]] = 0]
    /\ nacksLeft' = [nacksLeft EXCEPT ![held[c]] =
                      MaxNackCount - 1 + Cardinality(Nacking(held[c]))]
    /\ at' = [at EXCEPT ![c] = "ack"]
    /\ UNCHANGED <<vars, receiving, acked, held, count, faultVars, fate>>

\* A CloudEvent without a resource id is acked and discarded.
DiscardNoID(c) ==
    /\ at[c] = "parse"
    /\ Payload[held[c]] = NoResourceID
    /\ at' = [at EXCEPT ![c] = "ack"]
    /\ UNCHANGED <<vars, receiving, acked, held, count, nackCount, faultVars, ghostVars>>

\* Mutant of Enqueue: a key that is being reconciled is not added again.
EnqueueUnlessHeld(c) ==
    /\ at[c] = "parse"
    /\ Payload[held[c]] \in Key
    /\ IF Payload[held[c]] \in processing THEN UNCHANGED vars ELSE Add(Payload[held[c]])
    /\ fate' = [fate EXCEPT ![held[c]] = IF ShuttingDown THEN "dropped" ELSE "queued"]
    /\ at' = [at EXCEPT ![c] = "ack"]
    /\ UNCHANGED <<receiving, acked, held, count, nackCount, faultVars, nacksLeft>>

\* Mutant of Enqueue: no ack follows.
EnqueueUnacked(c) ==
    /\ at[c] = "parse"
    /\ Payload[held[c]] \in Key
    /\ Add(Payload[held[c]])
    /\ fate' = [fate EXCEPT ![held[c]] = IF ShuttingDown THEN "dropped" ELSE "queued"]
    /\ CallbackReturns(c)
    /\ UNCHANGED <<receiving, acked, nackCount, faultVars, nacksLeft>>

\* s.queue.Add(resourceID); the ack comes next, whether or not the queue took it.
Enqueue(c) ==
    /\ at[c] = "parse"
    /\ Payload[held[c]] \in Key
    /\ Add(Payload[held[c]])
    /\ fate' = [fate EXCEPT ![held[c]] = IF ShuttingDown THEN "dropped" ELSE "queued"]
    /\ at' = [at EXCEPT ![c] = "ack"]
    /\ UNCHANGED <<receiving, acked, held, count, nackCount, faultVars, nacksLeft>>

CallbackStep(c) ==
    CountFailure(c) \/ Nack(c) \/ ForgetCount(c) \/ DiscardNoID(c) \/ Enqueue(c) \/ Ack(c)

\* Receive returns an error that Pub/Sub's client does not retry. Run logs it and
\* returns; it waits for the callbacks, and nobody calls it again.
ReceiveFails ==
    /\ receiving /\ run = "running"
    /\ receiving' = FALSE
    /\ UNCHANGED <<vars, acked, at, held, count, nackCount, faultVars, ghostVars>>

-----------------------------------------------------------------------------
(* The worker pool and Run, with what their steps mean for the events       *)

\* The events of key k go from one fate to the next.
Advance(k, from, to) ==
    fate' = [m \in Msg |-> IF Payload[m] = k /\ fate[m] = from THEN to ELSE fate[m]]

ProcWorkerStep(w) ==
    /\ \/ Get(w) /\ Advance(Head(queue), "queued", "taken")
       \/ Done(w) /\ Advance(key[w], "taken", "reconciled")
       \/ /\ Exit(w) \/ Reconcile(w) \/ AddRateLimited(w) \/ AddAfter(w)
          /\ UNCHANGED fate
    /\ UNCHANGED <<subVars, faultVars, nacksLeft>>

ProcTimer(k) == TimerFires(k) /\ UNCHANGED <<subVars, faultVars, ghostVars>>

ProcRun ==
    /\ Cancel \/ ShutDown \/ Return
    /\ UNCHANGED <<subVars, faultVars, ghostVars>>

\* The process dies, or has returned from Run and exits (Receive is not waited
\* for), and a new one starts: memory is gone, Pub/Sub's acks stay.
Restart ==
    /\ crashes < MaxCrashes
    /\ crashes' = crashes + 1
    /\ fate' = [m \in Msg |->
                    IF fate[m] \in {"queued", "taken"} THEN "dropped" ELSE fate[m]]
    /\ queue' = <<>>
    /\ dirty' = {}
    /\ processing' = {}
    /\ waiting' = {}
    /\ pc' = [w \in Worker |-> "get"]
    /\ key' = [w \in Worker |-> NoKey]
    /\ run' = "running"
    /\ receiving' = TRUE
    /\ at' = [c \in Callback |-> "free"]
    /\ held' = [c \in Callback |-> NoMsg]
    /\ count' = [c \in Callback |-> 0]
    /\ nackCount' = [m \in Msg |-> 0]
    /\ nacksLeft' = [m \in Msg |-> MaxNackCount - 1]
    /\ UNCHANGED <<acked, mishaps>>

\* The process has exited and is not started again.
Terminated ==
    /\ run = "returned"
    /\ crashes = MaxCrashes
    /\ UNCHANGED procVars

ProcNext ==
    \/ \E c \in Callback, m \in Msg : Deliver(c, m)
    \/ \E c \in Callback : CallbackStep(c)
    \/ ReceiveFails
    \/ \E w \in Worker : ProcWorkerStep(w)
    \/ \E k \in Key : ProcTimer(k)
    \/ ProcRun
    \/ Restart
    \/ Terminated

\* Pub/Sub keeps delivering what is not acked, callbacks and workers run.
\* Nothing forces the context to be cancelled, Receive
\* to fail, a crash or a mishap.
ProcFairness ==
    /\ \A m \in Msg : WF_procVars(\E c \in Callback : Deliver(c, m))
    /\ \A c \in Callback : WF_procVars(CallbackStep(c))
    /\ \A w \in Worker : WF_procVars(ProcWorkerStep(w))

ProcSafeSpec == ProcInit /\ [][ProcNext]_procVars

ProcSpec == ProcSafeSpec /\ ProcFairness

-----------------------------------------------------------------------------
(* Properties                                                               *)

\* The ack comes before the reconcile, so an acknowledged event lives only in
\* the queue: until its key has been reconciled it is in the dirty set or in a
\* worker's hands, and only a shutdown or a crash can lose it.
AckedIsHandedOver ==
    \A m \in acked : Payload[m] \in Key =>
        /\ fate[m] # "none"
        /\ fate[m] = "queued" => Payload[m] \in dirty
        /\ fate[m] = "taken" => Payload[m] \in processing
        /\ fate[m] = "dropped" => ShuttingDown \/ crashes > 0

\* However deliveries of a poison pill overlap, and although the count is read
\* and deleted in two critical sections, one process nacks it fewer than
\* maxNackCount times between two decisions to discard it, and before the first
\* one. Not counted are the nacks of callbacks that had counted their failure before
\* the earlier decision, at most one for each callback.
NackBudget ==
    \A m \in Msg : nacksLeft[m] >= 0

\* A callback past the parse knows what kind of message it holds, and one that
\* is about to ack an event has handed its key to the queue.
CallbacksSound ==
    \A c \in Callback :
        /\ at[c] # "free" => held[c] \in Msg
        /\ at[c] = "counted" => Payload[held[c]] = Unparseable
        /\ at[c] = "ack" => (Payload[held[c]] \in Key => fate[held[c]] # "none")

\* Where the key of an event is: so for every event, acknowledged or not.
FateIsKept ==
    \A m \in Msg : Payload[m] \in Key =>
        /\ m \in acked => fate[m] # "none"
        /\ fate[m] = "queued" => Payload[m] \in dirty
        /\ fate[m] = "taken" => Payload[m] \in processing
        /\ fate[m] = "dropped" => ShuttingDown \/ crashes > 0

\* How many more failures of m can be counted before the limit is reached.
Uncounted(m) == IF nackCount[m] < MaxNackCount THEN MaxNackCount - 1 - nackCount[m] ELSE 0

\* What is left of m's budget pays for every nack that is under way and for every
\* failure that may still be counted below the limit.
NacksCovered ==
    \A m \in Msg :
        /\ IsFiniteSet(Nacking(m))
        /\ nacksLeft[m] >= Cardinality(Nacking(m)) + Uncounted(m)

\* The inductive invariant of the process.
ProcInv == IInv /\ ProcTypeOK /\ CallbacksSound /\ FateIsKept /\ NacksCovered

\* While the process receives, every message is acked in the end: a poison pill
\* does not come back for ever.
EveryMessageSettles ==
    \A m \in Msg :
        (receiving /\ run = "running") ~> (m \in acked \/ ~receiving \/ run # "running")

\* An event handed to the queue is reconciled afterwards, unless it is dropped.
QueuedIsReconciled ==
    \A m \in {x \in Msg : Payload[x] \in Key} :
        (fate[m] = "queued") ~> (fate[m] \in {"reconciled", "dropped"})

\* "Run pulls messages in a loop until ctx is cancelled" (subscriber.go): while
\* the process runs and its context is not cancelled, messages are settled.
PullsUntilCancelled ==
    \A m \in Msg : (run = "running") ~> (m \in acked \/ run # "running")
=============================================================================
