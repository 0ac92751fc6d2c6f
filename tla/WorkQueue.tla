------------------------------ MODULE WorkQueue ------------------------------
(***************************************************************************)
(* The core of every adapter process: client-go's rate-limiting work queue *)
(* (external, modelled from the calls the code makes to it) and the worker *)
(* pool of internal/common/workqueue/worker.go that drains it.             *)
(*                                                                         *)
(* Time is abstracted: a delayed or rate-limited add fires at any moment   *)
(* after it was scheduled, so the length of the delay (5 minutes, or the   *)
(* exponential backoff) plays no role here.                                *)
(***************************************************************************)
EXTENDS Naturals, Sequences

CONSTANTS
    Key,      \* resource ids: "clusterID" or "clusterID/nodepoolID"
    Worker,   \* the n goroutines of Run
    NoKey     \* a worker between two items

ASSUME NoKeyAssumption == NoKey \notin Key

ASSUME WorkerAssumption == Worker # {}

VARIABLES
    queue,       \* client-go Type.queue: the keys ready to be taken, in order
    dirty,       \* client-go Type.dirty: the keys that need processing
    processing,  \* client-go Type.processing: the keys workers hold
    waiting,     \* the keys with an entry in the delaying queue's heap
    pc,          \* where each runWorker loop is
    key,         \* the id each runWorker loop holds
    run          \* how far Run is: its context, ShutDown, wg.Wait

queueVars == <<queue, dirty, processing, waiting>>

vars == <<queue, dirty, processing, waiting, pc, key, run>>

WorkerPC == {"get", "reconcile", "addRateLimited", "addAfter", "done", "exited"}

TypeOK ==
    /\ queue \in Seq(Key)
    /\ dirty \subseteq Key
    /\ processing \subseteq Key
    /\ waiting \subseteq Key
    /\ pc \in [Worker -> WorkerPC]
    /\ key \in [Worker -> Key \cup {NoKey}]
    /\ run \in {"running", "cancelled", "draining", "returned"}

Init ==
    /\ queue = <<>>
    /\ dirty = {}
    /\ processing = {}
    /\ waiting = {}
    /\ pc = [w \in Worker |-> "get"]
    /\ key = [w \in Worker |-> NoKey]
    /\ run = "running"

ShuttingDown == run \in {"draining", "returned"}

Busy(w) == pc[w] \notin {"get", "exited"}

-----------------------------------------------------------------------------
(* The queue's own operations: the part of each that changes its state.     *)

\* queue.Add: refused while shutting down, a no-op on a key already dirty, and
\* a key that a worker holds is queued only when the worker calls Done.
AddKey(k) ==
    IF ShuttingDown \/ k \in dirty
    THEN UNCHANGED <<queue, dirty>>
    ELSE /\ dirty' = dirty \cup {k}
         /\ queue' = IF k \in processing THEN queue ELSE Append(queue, k)

\* queue.AddAfter and queue.AddRateLimited: one entry of the heap per key.
\* Both delays are positive (RequeueAfter is tested, the backoff starts at 5ms).
Schedule(k) == waiting' = IF ShuttingDown THEN waiting ELSE waiting \cup {k}

\* The delaying queue's loop: the earliest entry becomes ready and is added.
TimerFires(k) ==
    /\ k \in waiting
    /\ waiting' = waiting \ {k}
    /\ AddKey(k)
    /\ UNCHANGED <<processing, pc, key, run>>

\* The subscriber's callback adds a key.
Add(k) ==
    /\ AddKey(k)
    /\ UNCHANGED <<processing, waiting, pc, key, run>>

-----------------------------------------------------------------------------
(* runWorker                                                                *)

\* Mutant of Get: queue.Done is called as soon as the item is taken.
GetDoneAtOnce(w) ==
    /\ pc[w] = "get"
    /\ queue # <<>>
    /\ queue' = Tail(queue)
    /\ dirty' = dirty \ {Head(queue)}
    /\ key' = [key EXCEPT ![w] = Head(queue)]
    /\ pc' = [pc EXCEPT ![w] = "reconcile"]
    /\ UNCHANGED <<processing, waiting, run>>

\* item, shutdown := queue.Get(), with an item.
Get(w) ==
    /\ pc[w] = "get"
    /\ queue # <<>>
    /\ queue' = Tail(queue)
    /\ dirty' = dirty \ {Head(queue)}
    /\ processing' = processing \cup {Head(queue)}
    /\ key' = [key EXCEPT ![w] = Head(queue)]
    /\ pc' = [pc EXCEPT ![w] = "reconcile"]
    /\ UNCHANGED <<waiting, run>>

\* Mutant of Exit: a worker leaves as soon as the queue shuts down.
ExitAtOnce(w) ==
    /\ pc[w] = "get"
    /\ ShuttingDown
    /\ pc' = [pc EXCEPT ![w] = "exited"]
    /\ UNCHANGED <<queueVars, key, run>>

\* The queue reports shutdown only once it is empty: the worker returns.
Exit(w) ==
    /\ pc[w] = "get"
    /\ queue = <<>>
    /\ ShuttingDown
    /\ pc' = [pc EXCEPT ![w] = "exited"]
    /\ UNCHANGED <<queueVars, key, run>>

\* reconcile(ctx, id) returns an error, Result{RequeueAfter: d}, or Result{}.
Reconcile(w) ==
    /\ pc[w] = "reconcile"
    /\ \E after \in {"addRateLimited", "addAfter", "done"} :
          pc' = [pc EXCEPT ![w] = after]
    /\ UNCHANGED <<queueVars, key, run>>

\* Mutant of AddRateLimited: the failed key is not put back.
AddRateLimitedNot(w) ==
    /\ pc[w] = "addRateLimited"
    /\ pc' = [pc EXCEPT ![w] = "done"]
    /\ UNCHANGED <<queueVars, key, run>>

AddRateLimited(w) ==
    /\ pc[w] = "addRateLimited"
    /\ Schedule(key[w])
    /\ pc' = [pc EXCEPT ![w] = "done"]
    /\ UNCHANGED <<queue, dirty, processing, key, run>>

AddAfter(w) ==
    /\ pc[w] = "addAfter"
    /\ Schedule(key[w])
    /\ pc' = [pc EXCEPT ![w] = "done"]
    /\ UNCHANGED <<queue, dirty, processing, key, run>>

\* Mutant of Done: the key made dirty meanwhile is forgotten.
DoneForgetful(w) ==
    /\ pc[w] = "done"
    /\ processing' = processing \ {key[w]}
    /\ key' = [key EXCEPT ![w] = NoKey]
    /\ pc' = [pc EXCEPT ![w] = "get"]
    /\ UNCHANGED <<queue, dirty, waiting, run>>

\* queue.Done: a key made dirty meanwhile goes back to the queue.
Done(w) ==
    /\ pc[w] = "done"
    /\ processing' = processing \ {key[w]}
    /\ queue' = IF key[w] \in dirty THEN Append(queue, key[w]) ELSE queue
    /\ key' = [key EXCEPT ![w] = NoKey]
    /\ pc' = [pc EXCEPT ![w] = "get"]
    /\ UNCHANGED <<dirty, waiting, run>>

WorkerStep(w) ==
    Get(w) \/ Exit(w) \/ Reconcile(w) \/ AddRateLimited(w) \/ AddAfter(w) \/ Done(w)

-----------------------------------------------------------------------------
(* Run                                                                      *)

\* SIGTERM or SIGINT cancels the command's context.
Cancel ==
    /\ run = "running"
    /\ run' = "cancelled"
    /\ UNCHANGED <<queueVars, pc, key>>

\* Mutant of ShutDown: wg.Wait() comes before queue.ShutDown().
ShutDownAfterWait ==
    /\ run = "cancelled"
    /\ \A w \in Worker : pc[w] = "exited"
    /\ run' = "draining"
    /\ waiting' = {}
    /\ UNCHANGED <<queue, dirty, processing, pc, key>>

\* <-ctx.Done(); queue.ShutDown(), which also stops the delaying queue's loop.
ShutDown ==
    /\ run = "cancelled"
    /\ run' = "draining"
    /\ waiting' = {}
    /\ UNCHANGED <<queue, dirty, processing, pc, key>>

\* wg.Wait() returns.
Return ==
    /\ run = "draining"
    /\ \A w \in Worker : pc[w] = "exited"
    /\ run' = "returned"
    /\ UNCHANGED <<queueVars, pc, key>>

Next ==
    \/ \E k \in Key : Add(k) \/ TimerFires(k)
    \/ \E w \in Worker : WorkerStep(w)
    \/ Cancel \/ ShutDown \/ Return

\* Goroutines that can run do run, a reconcile returns (every HTTP call it
\* makes has a timeout), timers fire and Run goes on. Nothing forces an event
\* to arrive, a reconcile to succeed or the context to be cancelled.
Fairness ==
    /\ \A w \in Worker : WF_vars(WorkerStep(w))
    /\ \A k \in Key : WF_vars(TimerFires(k))
    /\ WF_vars(ShutDown)
    /\ WF_vars(Return)

SafeSpec == Init /\ [][Next]_vars

Spec == SafeSpec /\ Fairness

-----------------------------------------------------------------------------
(* Properties                                                               *)

\* No two workers reconcile the same id at the same time: what the reconcilers
\* rely on when they read a status, decide and write it back without a lock.
KeyExclusive ==
    \A v, w \in Worker : v # w /\ Busy(v) => key[v] # key[w]

\* The workers hold exactly the keys the queue counts as being processed.
HeldIsProcessing ==
    /\ \A w \in Worker : IF Busy(w) THEN key[w] \in processing ELSE key[w] = NoKey
    /\ \A k \in processing : \E w \in Worker : key[w] = k

\* The queue holds each dirty key that no worker holds, once, and nothing else.
QueueIsReady ==
    /\ \A i \in 1..Len(queue) : queue[i] \in dirty \ processing
    /\ \A i, j \in 1..Len(queue) : queue[i] = queue[j] => i = j
    /\ \A k \in dirty \ processing : \E i \in 1..Len(queue) : queue[i] = k

\* A worker has returned only after ShutDown, and the last one to return left
\* an empty queue.
ExitedIsDrained ==
    /\ \A w \in Worker : pc[w] = "exited" => ShuttingDown
    /\ (\A w \in Worker : pc[w] = "exited") => queue = <<>>
    /\ run = "returned" => \A w \in Worker : pc[w] = "exited"

\* The inductive invariant of the queue and its workers.
IInv ==
    /\ TypeOK
    /\ KeyExclusive
    /\ HeldIsProcessing
    /\ QueueIsReady
    /\ ExitedIsDrained

\* When Run returns, every key the queue accepted has been reconciled after it
\* was accepted: shutdown drains the queue and abandons only delayed keys.
NothingLeftBehind == run = "returned" => dirty = {} /\ processing = {}

Exec == INSTANCE CoalescingExecutor
            WITH pending <- dirty, holding <- key, open <- ~ShuttingDown

\* The queue and the worker pool behave as the executor the README describes:
\* requests collapse, one worker per key, and every accepted key is served.
ImplementsExecutor == Exec!Spec

\* A reconcile that failed, or that asked to be called again, is followed by
\* another one of the same key, unless the process shuts down first.
ComesBack ==
    \A k \in Key :
        (\E w \in Worker : key[w] = k /\ pc[w] \in {"addRateLimited", "addAfter"})
            ~> (ShuttingDown \/ \E w \in Worker : key[w] = k /\ pc[w] = "reconcile")

\* Once its context is cancelled, Run returns.
ShutdownCompletes == (run = "cancelled") ~> (run = "returned")

\* What "--resync | 5m | Periodic resync interval" (README.md) promises: a key
\* the process has reconciled is reconciled again and again while it runs.
PeriodicResync ==
    \A k \in Key :
        (\E w \in Worker : key[w] = k /\ pc[w] = "done")
            ~> (run # "running" \/ \E w \in Worker : key[w] = k /\ pc[w] = "reconcile")
=============================================================================
