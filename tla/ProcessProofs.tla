---------------------------- MODULE ProcessProofs ----------------------------
(***************************************************************************)
(* Proofs about an adapter process, from the inside out: the queue and its *)
(* workers (WorkQueue), the process around them (AdapterProcess), and the  *)
(* process with its reconciler and Sentinel (SentinelLoop). Each part      *)
(* rests on the inductive invariant of the one before.                     *)
(***************************************************************************)
EXTENDS SentinelLoop, FiniteSetTheorems, TLAPS

-----------------------------------------------------------------------------
(***************************************************************************)
(* Proofs about WorkQueue, for every set of keys and every non-empty set   *)
(* of workers: the inductive invariant, what follows from it, and that     *)
(* the queue with its workers implements CoalescingExecutor.               *)
(***************************************************************************)

(* The initial state satisfies the inductive invariant. *)
LEMMA InitInv == Init => IInv
<1> SUFFICES ASSUME Init PROVE IInv
  OBVIOUS
<1> USE DEF Init
<1>1. TypeOK
  BY DEF TypeOK, WorkerPC
<1>2. KeyExclusive /\ HeldIsProcessing
  BY DEF KeyExclusive, HeldIsProcessing, Busy
<1>3. QueueIsReady
  BY DEF QueueIsReady
<1>4. ExitedIsDrained
  BY WorkerAssumption DEF ExitedIsDrained
<1> QED
  BY <1>1, <1>2, <1>3, <1>4 DEF IInv

(* Adding a key keeps the queue's part of the invariant: it is what the     *)
(* subscriber's Add and the delaying queue's timer share.                   *)
LEMMA AddKeyInv ==
  ASSUME IInv, NEW k \in Key, AddKey(k), UNCHANGED <<processing, pc, key, run>>
  PROVE  /\ queue' \in Seq(Key)
         /\ dirty' \subseteq Key
         /\ QueueIsReady'
         /\ ExitedIsDrained'
<1> USE DEF IInv
<1>1. CASE ShuttingDown \/ k \in dirty
  <2>1. UNCHANGED <<queue, dirty>>
    BY <1>1 DEF AddKey
  <2> QED
    BY <2>1 DEF TypeOK, QueueIsReady, ExitedIsDrained, ShuttingDown
<1>2. CASE ~(ShuttingDown \/ k \in dirty)
  <2>1. /\ dirty' = dirty \cup {k}
        /\ queue' = IF k \in processing THEN queue ELSE Append(queue, k)
    BY <1>2 DEF AddKey
  <2>2. queue' \in Seq(Key) /\ dirty' \subseteq Key
    BY <2>1 DEF TypeOK
  <2>3. QueueIsReady'
    <3>1. CASE k \in processing
      BY <2>1, <3>1 DEF QueueIsReady
    <3>2. CASE k \notin processing
      <4>1. queue' = Append(queue, k) /\ Len(queue') = Len(queue) + 1
        BY <2>1, <3>2 DEF TypeOK
      <4>2. \A i \in 1..Len(queue) : queue'[i] = queue[i] /\ queue[i] # k
        BY <1>2, <4>1 DEF TypeOK, QueueIsReady
      <4>3. queue'[Len(queue) + 1] = k
        BY <4>1 DEF TypeOK
      <4>4. 1..Len(queue') = 1..Len(queue) \cup {Len(queue) + 1}
        BY <4>1 DEF TypeOK
      <4> QED
        BY <1>2, <2>1, <3>2, <4>2, <4>3, <4>4 DEF QueueIsReady
    <3> QED
      BY <3>1, <3>2
  <2>4. ExitedIsDrained'
    BY <1>2, WorkerAssumption DEF ExitedIsDrained, ShuttingDown
  <2> QED
    BY <2>2, <2>3, <2>4
<1> QED
  BY <1>1, <1>2

-----------------------------------------------------------------------------
(* One lemma per worker action that moves a key.                            *)

(* Get takes the head of the queue, a key no worker holds, and every other  *)
(* queued key moves one place forward.                                      *)
LEMMA GetInv == ASSUME IInv, NEW w \in Worker, Get(w) PROVE IInv'
<1> USE DEF IInv
<1> DEFINE h == Head(queue)
<1>1. /\ pc[w] = "get"
      /\ queue # <<>>
      /\ queue' = Tail(queue)
      /\ dirty' = dirty \ {h}
      /\ processing' = processing \cup {h}
      /\ key' = [key EXCEPT ![w] = h]
      /\ pc' = [pc EXCEPT ![w] = "reconcile"]
      /\ UNCHANGED <<waiting, run>>
  BY DEF Get
<1>2. /\ 1 \in 1..Len(queue)
      /\ h = queue[1]
      /\ Len(queue') = Len(queue) - 1
      /\ \A i \in 1..Len(queue') : i + 1 \in 1..Len(queue) /\ queue'[i] = queue[i + 1]
  BY <1>1 DEF TypeOK
<1>3. h \in dirty /\ h \notin processing /\ h \in Key
  BY <1>2 DEF QueueIsReady, TypeOK
<1>4. \A v \in Worker : Busy(v) => key[v] # h
  BY <1>3 DEF HeldIsProcessing
<1>5. TypeOK'
  BY <1>1, <1>3 DEF TypeOK, WorkerPC
<1>6. \A v \in Worker : Busy(v)' <=> (v = w \/ Busy(v))
  BY <1>1 DEF Busy, TypeOK
<1>7. KeyExclusive'
  <2> SUFFICES ASSUME NEW u \in Worker, NEW v \in Worker, u # v, Busy(u)'
               PROVE  key'[u] # key'[v]
    BY DEF KeyExclusive
  <2>1. CASE u = w
    <3>1. key'[u] = h /\ key'[v] = key[v]
      BY <1>1, <2>1 DEF TypeOK
    <3>2. CASE Busy(v)
      BY <1>4, <3>1, <3>2
    <3>3. CASE ~Busy(v)
      BY <1>3, <3>1, <3>3, NoKeyAssumption DEF HeldIsProcessing
    <3> QED
      BY <3>2, <3>3
  <2>2. CASE u # w
    <3>1. Busy(u) /\ key'[u] = key[u] /\ key[u] # h
      BY <1>1, <1>4, <1>6, <2>2 DEF TypeOK
    <3>2. key'[v] = key[v] \/ key'[v] = h
      BY <1>1 DEF TypeOK
    <3> QED
      BY <3>1, <3>2 DEF KeyExclusive
  <2> QED
    BY <2>1, <2>2
<1>8. HeldIsProcessing'
  <2>1. ~Busy(w) /\ key[w] = NoKey
    BY <1>1 DEF Busy, HeldIsProcessing
  <2>2. \A k \in processing' : \E v \in Worker : key'[v] = k
    <3>1. TAKE k \in processing'
    <3>2. CASE k = h
      BY <1>1, <3>2 DEF TypeOK
    <3>3. CASE k # h
      <4>1. PICK v \in Worker : key[v] = k
        BY <1>1, <3>1, <3>3 DEF HeldIsProcessing
      <4>2. v # w
        BY <1>1, <2>1, <3>1, <3>3, <4>1, NoKeyAssumption DEF TypeOK
      <4> QED
        BY <1>1, <4>1, <4>2 DEF TypeOK
    <3> QED
      BY <3>2, <3>3
  <2> QED
    BY <1>1, <1>6, <2>2 DEF HeldIsProcessing, TypeOK
<1>9. QueueIsReady'
  <2>1. \A i \in 1..Len(queue') : queue'[i] \in dirty' \ processing'
    BY <1>1, <1>2 DEF QueueIsReady
  <2>2. \A i, j \in 1..Len(queue') : queue'[i] = queue'[j] => i = j
    <3>1. TAKE i, j \in 1..Len(queue')
    <3>2. /\ i + 1 \in 1..Len(queue) /\ queue'[i] = queue[i + 1]
          /\ j + 1 \in 1..Len(queue) /\ queue'[j] = queue[j + 1]
      BY <1>2, <3>1
    <3>3. queue[i + 1] = queue[j + 1] => i + 1 = j + 1
      BY <3>2 DEF QueueIsReady
    <3>4. i \in Nat /\ j \in Nat
      BY <3>1
    <3> QED
      BY <3>2, <3>3, <3>4
  <2>3. \A k \in dirty' \ processing' : \E i \in 1..Len(queue') : queue'[i] = k
    <3>1. TAKE k \in dirty' \ processing'
    <3>2. PICK i \in 1..Len(queue) : queue[i] = k
      BY <1>1, <3>1 DEF QueueIsReady
    <3>3. i # 1
      BY <1>1, <1>2, <3>1, <3>2
    <3>4. i - 1 \in 1..Len(queue') /\ (i - 1) + 1 = i
      BY <1>2, <3>2, <3>3 DEF TypeOK
    <3>5. queue'[i - 1] = k
      BY <1>2, <3>2, <3>4
    <3> QED
      BY <3>4, <3>5
  <2> QED
    BY <2>1, <2>2, <2>3 DEF QueueIsReady
<1>10. ExitedIsDrained'
  BY <1>1 DEF ExitedIsDrained, ShuttingDown, TypeOK
<1> QED
  BY <1>5, <1>7, <1>8, <1>9, <1>10

(* Done gives the key up, and puts it back in the queue if it became dirty  *)
(* while the worker held it: no queued key equals it, and no other worker   *)
(* holds it.                                                                *)
LEMMA DoneInv == ASSUME IInv, NEW w \in Worker, Done(w) PROVE IInv'
<1> USE DEF IInv
<1> DEFINE k == key[w]
<1>1. /\ pc[w] = "done"
      /\ processing' = processing \ {k}
      /\ queue' = IF k \in dirty THEN Append(queue, k) ELSE queue
      /\ key' = [key EXCEPT ![w] = NoKey]
      /\ pc' = [pc EXCEPT ![w] = "get"]
      /\ UNCHANGED <<dirty, waiting, run>>
  BY DEF Done
<1>2. Busy(w) /\ k \in processing /\ k \in Key
  BY <1>1 DEF Busy, HeldIsProcessing, TypeOK
<1>3. \A v \in Worker : v # w /\ Busy(v) => key[v] # k
  BY <1>2 DEF KeyExclusive
<1>4. \A i \in 1..Len(queue) : queue[i] # k
  BY <1>2 DEF QueueIsReady
<1>5. TypeOK'
  BY <1>1, <1>2 DEF TypeOK, WorkerPC
<1>6. \A v \in Worker : Busy(v)' <=> (v # w /\ Busy(v))
  BY <1>1 DEF Busy, TypeOK
<1>7. KeyExclusive'
  <2> SUFFICES ASSUME NEW u \in Worker, NEW v \in Worker, u # v, Busy(u)'
               PROVE  key'[u] # key'[v]
    BY DEF KeyExclusive
  <2>1. u # w /\ Busy(u) /\ key'[u] = key[u] /\ key[u] \in Key
    BY <1>1, <1>6 DEF TypeOK, HeldIsProcessing
  <2>2. key'[v] = key[v] \/ key'[v] = NoKey
    BY <1>1 DEF TypeOK
  <2> QED
    BY <2>1, <2>2, NoKeyAssumption DEF KeyExclusive
<1>8. HeldIsProcessing'
  <2>1. \A v \in Worker :
           IF Busy(v)' THEN key'[v] \in processing' ELSE key'[v] = NoKey
    BY <1>1, <1>3, <1>6 DEF HeldIsProcessing, TypeOK
  <2>2. \A q \in processing' : \E v \in Worker : key'[v] = q
    BY <1>1 DEF HeldIsProcessing, TypeOK
  <2> QED
    BY <2>1, <2>2 DEF HeldIsProcessing
<1>9. QueueIsReady'
  <2>1. CASE k \in dirty
    <3>1. queue' = Append(queue, k) /\ Len(queue') = Len(queue) + 1
      BY <1>1, <1>2, <2>1 DEF TypeOK
    <3>2. \A i \in 1..Len(queue) : queue'[i] = queue[i]
      BY <1>2, <3>1 DEF TypeOK
    <3>3. queue'[Len(queue) + 1] = k
      BY <1>2, <3>1 DEF TypeOK
    <3>4. 1..Len(queue') = 1..Len(queue) \cup {Len(queue) + 1}
      BY <3>1 DEF TypeOK
    <3>5. \A i \in 1..Len(queue') : queue'[i] \in dirty' \ processing'
      BY <1>1, <2>1, <3>2, <3>3, <3>4 DEF QueueIsReady
    <3>6. \A i, j \in 1..Len(queue') : queue'[i] = queue'[j] => i = j
      BY <1>4, <3>2, <3>3, <3>4 DEF QueueIsReady
    <3>7. \A q \in dirty' \ processing' : \E i \in 1..Len(queue') : queue'[i] = q
      BY <1>1, <3>2, <3>3, <3>4 DEF QueueIsReady
    <3> QED
      BY <3>5, <3>6, <3>7 DEF QueueIsReady
  <2>2. CASE k \notin dirty
    BY <1>1, <2>2 DEF QueueIsReady
  <2> QED
    BY <2>1, <2>2
<1>10. ExitedIsDrained'
  BY <1>1 DEF ExitedIsDrained, ShuttingDown, TypeOK
<1> QED
  BY <1>5, <1>7, <1>8, <1>9, <1>10

(* The steps that move no key: only the worker's place in its loop, or the  *)
(* delaying queue, changes.                                                 *)
LEMMA HoldingStepInv ==
  ASSUME IInv, NEW w \in Worker, Busy(w), NEW p \in {"addRateLimited", "addAfter", "done"},
         pc' = [pc EXCEPT ![w] = p], waiting' \subseteq Key,
         UNCHANGED <<queue, dirty, processing, key, run>>
  PROVE  IInv'
<1> USE DEF IInv
<1>1. TypeOK'
  BY DEF TypeOK, WorkerPC
<1>2. \A v \in Worker : Busy(v)' <=> Busy(v)
  BY DEF Busy, TypeOK
<1>3. KeyExclusive' /\ HeldIsProcessing' /\ QueueIsReady'
  BY <1>2 DEF KeyExclusive, HeldIsProcessing, QueueIsReady
<1>4. ExitedIsDrained'
  BY DEF ExitedIsDrained, ShuttingDown, TypeOK, Busy
<1> QED
  BY <1>1, <1>3, <1>4

(* The last worker to return sees an empty queue.                           *)
LEMMA ExitInv == ASSUME IInv, NEW w \in Worker, Exit(w) PROVE IInv'
<1> USE DEF IInv, Exit, queueVars
<1>1. TypeOK'
  BY DEF TypeOK, WorkerPC
<1>2. \A v \in Worker : Busy(v)' <=> Busy(v)
  BY DEF Busy, TypeOK
<1>3. KeyExclusive' /\ HeldIsProcessing' /\ QueueIsReady'
  BY <1>2 DEF KeyExclusive, HeldIsProcessing, QueueIsReady
<1>4. ExitedIsDrained'
  BY DEF ExitedIsDrained, ShuttingDown, TypeOK
<1> QED
  BY <1>1, <1>3, <1>4

(* Run's own steps: the context is cancelled, the queue shuts down, and Run *)
(* returns once every worker has.                                           *)
LEMMA RunInv == ASSUME IInv, Cancel \/ ShutDown \/ Return PROVE IInv'
<1> USE DEF IInv, Cancel, ShutDown, Return, queueVars
<1>1. TypeOK'
  BY DEF TypeOK
<1>2. KeyExclusive' /\ HeldIsProcessing' /\ QueueIsReady'
  BY DEF KeyExclusive, HeldIsProcessing, QueueIsReady, Busy
<1>3. ExitedIsDrained'
  BY DEF ExitedIsDrained, ShuttingDown, TypeOK
<1> QED
  BY <1>1, <1>2, <1>3

-----------------------------------------------------------------------------
(* The invariant is inductive: one case per disjunct of Next.               *)
LEMMA NextInv == IInv /\ [Next]_vars => IInv'
<1> SUFFICES ASSUME IInv, [Next]_vars PROVE IInv'
  OBVIOUS
<1>1. ASSUME NEW k \in Key, Add(k) PROVE IInv'
  <2>1. AddKey(k) /\ UNCHANGED <<processing, waiting, pc, key, run>>
    BY <1>1 DEF Add
  <2>2. KeyExclusive' /\ HeldIsProcessing'
    BY <2>1 DEF IInv, KeyExclusive, HeldIsProcessing, Busy
  <2>3. TypeOK' /\ QueueIsReady' /\ ExitedIsDrained'
    BY <2>1, AddKeyInv DEF IInv, TypeOK
  <2> QED
    BY <2>2, <2>3 DEF IInv
<1>2. ASSUME NEW k \in Key, TimerFires(k) PROVE IInv'
  <2>1. AddKey(k) /\ UNCHANGED <<processing, pc, key, run>> /\ waiting' = waiting \ {k}
    BY <1>2 DEF TimerFires
  <2>2. KeyExclusive' /\ HeldIsProcessing'
    BY <2>1 DEF IInv, KeyExclusive, HeldIsProcessing, Busy
  <2>3. TypeOK' /\ QueueIsReady' /\ ExitedIsDrained'
    BY <2>1, AddKeyInv DEF IInv, TypeOK
  <2> QED
    BY <2>2, <2>3 DEF IInv
<1>3. ASSUME NEW w \in Worker, WorkerStep(w) PROVE IInv'
  <2>1. CASE Get(w)
    BY <2>1, GetInv
  <2>2. CASE Exit(w)
    BY <2>2, ExitInv
  <2>3. CASE Reconcile(w)
    <3>1. PICK p \in {"addRateLimited", "addAfter", "done"} : pc' = [pc EXCEPT ![w] = p]
      BY <2>3 DEF Reconcile
    <3>2. Busy(w) /\ waiting' \subseteq Key /\ UNCHANGED <<queue, dirty, processing, key, run>>
      BY <2>3 DEF Reconcile, Busy, queueVars, IInv, TypeOK
    <3> QED
      BY <3>1, <3>2, HoldingStepInv
  <2>4. CASE AddRateLimited(w) \/ AddAfter(w)
    <3>1. /\ pc' = [pc EXCEPT ![w] = "done"]
          /\ Busy(w)
          /\ Schedule(key[w])
          /\ UNCHANGED <<queue, dirty, processing, key, run>>
      BY <2>4 DEF AddRateLimited, AddAfter, Busy
    <3>2. waiting' \subseteq Key
      BY <3>1 DEF Schedule, IInv, TypeOK, HeldIsProcessing
    <3> QED
      BY <3>1, <3>2, HoldingStepInv
  <2>5. CASE Done(w)
    BY <2>5, DoneInv
  <2> QED
    BY <1>3, <2>1, <2>2, <2>3, <2>4, <2>5 DEF WorkerStep
<1>4. CASE Cancel \/ ShutDown \/ Return
  BY <1>4, RunInv
<1>5. CASE UNCHANGED vars
  BY <1>5 DEF vars, IInv, TypeOK, KeyExclusive, HeldIsProcessing, QueueIsReady,
              ExitedIsDrained, ShuttingDown, Busy
<1> QED
  BY <1>1, <1>2, <1>3, <1>4, <1>5 DEF Next

(* The queue, the sets of client-go and the workers agree in every state:   *)
(* internal/common/workqueue/worker.go never breaks the queue's accounting. *)
THEOREM InvariantHolds == SafeSpec => []IInv
BY InitInv, NextInv, PTL DEF SafeSpec

(* Type correctness of the queue and its workers.                           *)
THEOREM TypeCorrect == SafeSpec => []TypeOK
<1>1. IInv => TypeOK
  BY DEF IInv
<1> QED
  BY <1>1, InvariantHolds, PTL

(* For any number of keys and workers, no two workers reconcile the same    *)
(* resource id at once.                                                     *)
THEOREM OneWorkerPerKey == SafeSpec => []KeyExclusive
<1>1. IInv => KeyExclusive
  BY DEF IInv
<1> QED
  BY <1>1, InvariantHolds, PTL

(* When Run returns, no key the queue accepted is left unreconciled.        *)
THEOREM ShutdownDrains == SafeSpec => []NothingLeftBehind
<1>1. IInv => NothingLeftBehind
  <2> SUFFICES ASSUME IInv, run = "returned" PROVE dirty = {} /\ processing = {}
    BY DEF NothingLeftBehind
  <2>1. queue = <<>> /\ \A w \in Worker : pc[w] = "exited"
    BY DEF IInv, ExitedIsDrained
  <2>2. processing = {}
    BY <2>1, NoKeyAssumption DEF IInv, TypeOK, HeldIsProcessing, Busy
  <2>3. dirty = {}
    BY <2>1, <2>2 DEF IInv, QueueIsReady
  <2> QED
    BY <2>2, <2>3
<1> QED
  BY <1>1, InvariantHolds, PTL

-----------------------------------------------------------------------------
(* A step of the queue or of a worker is a step of the executor or leaves   *)
(* what it shows unchanged.                                                 *)
LEMMA StepRefines == IInv /\ [Next]_vars => [Exec!Next]_Exec!execVars
<1> SUFFICES ASSUME IInv, [Next]_vars PROVE [Exec!Next]_Exec!execVars
  OBVIOUS
<1> USE DEF Exec!execVars
<1>1. ASSUME NEW k \in Key, AddKey(k), UNCHANGED <<key, run>>
      PROVE  [Exec!Next]_Exec!execVars
  <2>1. CASE ShuttingDown \/ k \in dirty
    BY <1>1, <2>1 DEF AddKey, ShuttingDown
  <2>2. CASE ~(ShuttingDown \/ k \in dirty)
    <3>1. Exec!Request(k)
      BY <1>1, <2>2 DEF AddKey, Exec!Request, ShuttingDown
    <3> QED
      BY <3>1 DEF Exec!Next
  <2> QED
    BY <2>1, <2>2
<1>2. ASSUME NEW k \in Key, Add(k) \/ TimerFires(k) PROVE [Exec!Next]_Exec!execVars
  BY <1>1, <1>2 DEF Add, TimerFires
<1>3. ASSUME NEW w \in Worker, Get(w) PROVE [Exec!Next]_Exec!execVars
  <2> DEFINE h == Head(queue)
  <2>1. h = queue[1] /\ 1 \in 1..Len(queue)
    BY <1>3 DEF Get, IInv, TypeOK
  <2>2. h \in dirty /\ h \notin processing /\ h \in Key
    BY <2>1 DEF IInv, QueueIsReady, TypeOK
  <2>3. key[w] = NoKey
    BY <1>3 DEF Get, IInv, HeldIsProcessing, Busy
  <2>4. \A v \in Worker : key[v] # h
    BY <2>2, NoKeyAssumption DEF IInv, HeldIsProcessing
  <2>5. Exec!Begin(w, h)
    BY <1>3, <2>2, <2>3, <2>4 DEF Get, Exec!Begin, ShuttingDown
  <2> QED
    BY <2>2, <2>5 DEF Exec!Next
<1>4. ASSUME NEW w \in Worker, Done(w) PROVE [Exec!Next]_Exec!execVars
  <2>1. key[w] # NoKey
    BY <1>4, NoKeyAssumption DEF Done, IInv, TypeOK, HeldIsProcessing, Busy
  <2>2. Exec!End(w)
    BY <1>4, <2>1 DEF Done, Exec!End, ShuttingDown
  <2> QED
    BY <2>2 DEF Exec!Next
<1>5. ASSUME NEW w \in Worker,
             Exit(w) \/ Reconcile(w) \/ AddRateLimited(w) \/ AddAfter(w)
      PROVE  [Exec!Next]_Exec!execVars
  BY <1>5 DEF Exit, Reconcile, AddRateLimited, AddAfter, queueVars, ShuttingDown
<1>6. CASE ShutDown
  <2>1. Exec!Close
    BY <1>6 DEF ShutDown, Exec!Close, ShuttingDown
  <2> QED
    BY <2>1 DEF Exec!Next
<1>7. CASE Cancel \/ Return \/ UNCHANGED vars
  BY <1>7 DEF Cancel, Return, vars, queueVars, ShuttingDown
<1> QED
  BY <1>2, <1>3, <1>4, <1>5, <1>6, <1>7 DEF Next, WorkerStep

(* The queue with its workers implements the executor: whatever the         *)
(* interleaving, requests collapse, a key has one worker, and nothing but   *)
(* a worker's Get takes a request away.                                     *)
THEOREM Refinement == SafeSpec => Exec!SafeSpec
<1>1. Init => Exec!Init
  BY DEF Init, Exec!Init, ShuttingDown
<1> QED
  BY <1>1, StepRefines, InvariantHolds, PTL DEF SafeSpec, Exec!SafeSpec

-----------------------------------------------------------------------------
(***************************************************************************)
(* Proofs about AdapterProcess, for every set of messages, callbacks, keys *)
(* and workers and any number of crashes and mishaps: the inductive        *)
(* invariant ProcInv, what an acknowledged event may rely on, and the nack *)
(* budget. The queue's own part of the invariant is the one above.         *)
(***************************************************************************)

(* The initial state satisfies the inductive invariant. *)
LEMMA ProcInitInv == ProcInit => ProcInv
<1> SUFFICES ASSUME ProcInit PROVE ProcInv
  OBVIOUS
<1>1. IInv
  BY InitInv DEF ProcInit
<1>2. ProcTypeOK
  BY <1>1, BoundAssumption DEF ProcInit, ProcTypeOK, IInv, Fates
<1>3. CallbacksSound /\ FateIsKept
  BY DEF ProcInit, CallbacksSound, FateIsKept
<1>4. NacksCovered
  <2> SUFFICES ASSUME NEW m \in Msg
               PROVE  /\ IsFiniteSet(Nacking(m))
                      /\ nacksLeft[m] >= Cardinality(Nacking(m)) + Uncounted(m)
    BY DEF NacksCovered
  <2>1. Nacking(m) = {}
    BY DEF ProcInit, Nacking
  <2>2. nacksLeft[m] = MaxNackCount - 1 /\ Uncounted(m) = MaxNackCount - 1
    BY BoundAssumption DEF ProcInit, Uncounted
  <2> QED
    BY <2>1, <2>2, FS_EmptySet, BoundAssumption
<1> QED
  BY <1>1, <1>2, <1>3, <1>4 DEF ProcInv

-----------------------------------------------------------------------------
(* What the actions share                                                   *)

(* A step of the queue or of its workers keeps the queue's invariant, also  *)
(* when it is part of a larger step.                                        *)
LEMMA QueueKept == ASSUME ProcInv, Next \/ UNCHANGED vars PROVE IInv'
BY NextInv DEF ProcInv

(* A process that starts again has the queue of one that starts.            *)
LEMMA RestartedQueue == Restart => IInv'
<1>1. Restart => Init'
  BY DEF Restart, Init
<1>2. Init' => IInv'
  BY InitInv, PTL
<1> QED
  BY <1>1, <1>2

(* The budget of nacks is only about the callbacks that have counted: it is *)
(* kept by a step that moves a callback between the other places.           *)
LEMMA BudgetKept ==
  ASSUME ProcInv,
         \A c \in Callback :
            \/ at'[c] = at[c] /\ held'[c] = held[c] /\ count'[c] = count[c]
            \/ at[c] # "counted" /\ at'[c] # "counted",
         UNCHANGED <<nackCount, nacksLeft>>
  PROVE  NacksCovered'
<1> SUFFICES ASSUME NEW m \in Msg
             PROVE  /\ IsFiniteSet(Nacking(m)')
                    /\ nacksLeft'[m] >= Cardinality(Nacking(m)') + Uncounted(m)'
  BY DEF NacksCovered
<1>1. Nacking(m)' = Nacking(m)
  BY DEF Nacking
<1>2. Uncounted(m)' = Uncounted(m)
  BY DEF Uncounted
<1> QED
  BY <1>1, <1>2 DEF ProcInv, NacksCovered

(* The number of nacks under way is a natural number.                       *)
LEMMA NackingIsFinite ==
  ASSUME ProcInv, NEW m \in Msg
  PROVE  /\ IsFiniteSet(Nacking(m)) /\ Cardinality(Nacking(m)) \in Nat
         /\ Uncounted(m) \in Nat /\ nacksLeft[m] \in Int
         /\ nackCount[m] \in Nat /\ MaxNackCount \in Nat
         /\ nacksLeft[m] >= Cardinality(Nacking(m)) + Uncounted(m)
<1>1. IsFiniteSet(Nacking(m)) /\ nacksLeft[m] >= Cardinality(Nacking(m)) + Uncounted(m)
  BY DEF ProcInv, NacksCovered
<1>2. Cardinality(Nacking(m)) \in Nat
  BY <1>1, FS_CardinalityType
<1>3. nackCount[m] \in Nat /\ nacksLeft[m] \in Int /\ MaxNackCount \in Nat
  BY BoundAssumption DEF ProcInv, ProcTypeOK
<1>4. Uncounted(m) \in Nat
  BY <1>3 DEF Uncounted
<1> QED
  BY <1>1, <1>2, <1>3, <1>4

-----------------------------------------------------------------------------
(* Pub/Sub                                                                  *)

(* A delivery gives a free callback a message, and changes nothing else.    *)
LEMMA DeliverInv ==
  ASSUME ProcInv, NEW c \in Callback, NEW m \in Msg, Deliver(c, m) PROVE ProcInv'
<1> USE DEF ProcInv
<1>1. IInv'
  BY QueueKept DEF Deliver
<1>2. ProcTypeOK'
  BY <1>1, BoundAssumption DEF Deliver, ProcTypeOK, IInv, ghostVars
<1>3. CallbacksSound' /\ FateIsKept'
  BY DEF Deliver, ProcTypeOK, CallbacksSound, FateIsKept, ghostVars, vars, ShuttingDown
<1>4. NacksCovered'
  BY BudgetKept DEF Deliver, ProcTypeOK, ghostVars
<1> QED
  BY <1>1, <1>2, <1>3, <1>4

(* An ack that arrives settles a message whose event was handed over.       *)
LEMMA AckInv == ASSUME ProcInv, NEW c \in Callback, Ack(c) PROVE ProcInv'
<1> USE DEF ProcInv
<1>1. IInv'
  BY QueueKept DEF Ack
<1>2. held[c] \in Msg
  BY DEF Ack, CallbacksSound
<1>3. ProcTypeOK'
  BY <1>1, <1>2, BoundAssumption
  DEF Ack, CallbackReturns, ProcTypeOK, IInv, ghostVars
<1>4. CallbacksSound' /\ FateIsKept'
  BY <1>2 DEF Ack, CallbackReturns, ProcTypeOK, CallbacksSound, FateIsKept, ghostVars,
              vars, ShuttingDown
<1>5. NacksCovered'
  BY BudgetKept DEF Ack, CallbackReturns, ProcTypeOK, ghostVars
<1> QED
  BY <1>1, <1>3, <1>4, <1>5

-----------------------------------------------------------------------------
(* The callback                                                             *)

(* Counting a failure takes it out of the failures still to be counted; if  *)
(* the limit is not reached, a nack is under way instead.                   *)
LEMMA CountFailureInv == ASSUME ProcInv, NEW c \in Callback, CountFailure(c) PROVE ProcInv'
<1> USE DEF ProcInv
<1>1. IInv'
  BY QueueKept DEF CountFailure
<1> DEFINE h == held[c]
<1>2. h \in Msg /\ at[c] = "parse" /\ nackCount[h] \in Nat
  BY DEF CountFailure, CallbacksSound, ProcTypeOK
<1>3. ProcTypeOK'
  BY <1>1, <1>2 DEF CountFailure, ProcTypeOK, IInv, ghostVars, faultVars
<1>4. CallbacksSound' /\ FateIsKept'
  BY <1>2 DEF CountFailure, ProcTypeOK, CallbacksSound, FateIsKept, ghostVars,
              faultVars, vars, ShuttingDown
<1>5. NacksCovered'
  <2> SUFFICES ASSUME NEW m \in Msg
               PROVE  /\ IsFiniteSet(Nacking(m)')
                      /\ nacksLeft'[m] >= Cardinality(Nacking(m)') + Uncounted(m)'
    BY DEF NacksCovered
  <2>1. nacksLeft'[m] = nacksLeft[m]
    BY DEF CountFailure, ghostVars
  <2>2. count'[c] = nackCount[h] + 1 /\ at'[c] = "counted" /\ held' = held
    BY DEF CountFailure, ProcTypeOK
  <2>3. \A d \in Callback \ {c} : at'[d] = at[d] /\ count'[d] = count[d]
    BY DEF CountFailure, ProcTypeOK
  <2>4. CASE m = h /\ nackCount[h] + 1 < MaxNackCount
    <3>1. c \notin Nacking(m) /\ Nacking(m)' = Nacking(m) \cup {c}
      BY <1>2, <2>2, <2>3, <2>4 DEF Nacking
    <3>2. IsFiniteSet(Nacking(m)') /\ Cardinality(Nacking(m)') = Cardinality(Nacking(m)) + 1
      BY <3>1, NackingIsFinite, FS_AddElement
    <3>3. nackCount'[m] = nackCount[m] + 1
      BY <1>2, <2>4 DEF CountFailure, ProcTypeOK
    <3>4. Uncounted(m) = Uncounted(m)' + 1 /\ Uncounted(m)' \in Nat
      BY <1>2, <2>4, <3>3, BoundAssumption DEF Uncounted
    <3> QED
      BY <2>1, <3>2, <3>4, NackingIsFinite
  <2>5. CASE m = h /\ ~(nackCount[h] + 1 < MaxNackCount)
    <3>1. Nacking(m)' = Nacking(m)
      BY <1>2, <2>2, <2>3, <2>5 DEF Nacking
    <3>2. nackCount'[m] = nackCount[m] + 1
      BY <1>2, <2>5 DEF CountFailure, ProcTypeOK
    <3>3. Uncounted(m)' = 0
      BY <1>2, <2>5, <3>2, BoundAssumption DEF Uncounted
    <3> QED
      BY <2>1, <3>1, <3>3, NackingIsFinite
  <2>6. CASE m # h
    <3>1. Nacking(m)' = Nacking(m)
      BY <1>2, <2>2, <2>3, <2>6 DEF Nacking
    <3>2. Uncounted(m)' = Uncounted(m)
      BY <2>6 DEF CountFailure, ProcTypeOK, Uncounted
    <3> QED
      BY <2>1, <3>1, <3>2, NackingIsFinite
  <2> QED
    BY <2>4, <2>5, <2>6
<1> QED
  BY <1>1, <1>3, <1>4, <1>5

(* A nack spends one of the budget, and one of the nacks under way.         *)
LEMMA NackInv == ASSUME ProcInv, NEW c \in Callback, Nack(c) PROVE ProcInv'
<1> USE DEF ProcInv
<1>1. IInv'
  BY QueueKept DEF Nack
<1> DEFINE h == held[c]
<1>2. h \in Msg /\ at[c] = "counted" /\ nacksLeft[h] \in Int
  BY DEF Nack, CallbacksSound, ProcTypeOK
<1>3. ProcTypeOK'
  BY <1>1, <1>2 DEF Nack, CallbackReturns, ProcTypeOK, IInv, faultVars
<1>4. CallbacksSound' /\ FateIsKept'
  BY DEF Nack, CallbackReturns, ProcTypeOK, CallbacksSound, FateIsKept,
         faultVars, vars, ShuttingDown
<1>5. NacksCovered'
  <2> SUFFICES ASSUME NEW m \in Msg
               PROVE  /\ IsFiniteSet(Nacking(m)')
                      /\ nacksLeft'[m] >= Cardinality(Nacking(m)') + Uncounted(m)'
    BY DEF NacksCovered
  <2>1. Uncounted(m)' = Uncounted(m)
    BY DEF Nack, Uncounted
  <2>2. \A d \in Callback \ {c} : at'[d] = at[d] /\ count'[d] = count[d] /\ held'[d] = held[d]
    BY DEF Nack, CallbackReturns, ProcTypeOK
  <2>3. at'[c] = "free"
    BY DEF Nack, CallbackReturns, ProcTypeOK
  <2>4. CASE m = h
    <3>1. c \in Nacking(m) /\ Nacking(m)' = Nacking(m) \ {c}
      BY <1>2, <2>2, <2>3, <2>4 DEF Nacking, Nack
    <3>2. /\ IsFiniteSet(Nacking(m)')
          /\ Cardinality(Nacking(m)') = Cardinality(Nacking(m)) - 1
      BY <3>1, NackingIsFinite, FS_RemoveElement
    <3>3. nacksLeft'[m] = nacksLeft[m] - 1
      BY <1>2, <2>4 DEF Nack, ProcTypeOK
    <3> QED
      BY <2>1, <3>2, <3>3, NackingIsFinite
  <2>5. CASE m # h
    <3>1. Nacking(m)' = Nacking(m)
      BY <2>2, <2>3, <2>5 DEF Nacking
    <3>2. nacksLeft'[m] = nacksLeft[m]
      BY <2>5 DEF Nack, ProcTypeOK
    <3> QED
      BY <2>1, <3>1, <3>2, NackingIsFinite
  <2> QED
    BY <2>4, <2>5
<1> QED
  BY <1>1, <1>3, <1>4, <1>5

(* Giving a message up forgets its count and sets its budget anew, to what  *)
(* the next failures can use of it and the nacks that overlapping           *)
(* deliveries have under way.                                               *)
LEMMA ForgetCountInv == ASSUME ProcInv, NEW c \in Callback, ForgetCount(c) PROVE ProcInv'
<1> USE DEF ProcInv
<1>1. IInv'
  BY QueueKept DEF ForgetCount
<1> DEFINE h == held[c]
<1>2. h \in Msg /\ at[c] = "counted" /\ Payload[h] = Unparseable
  BY DEF ForgetCount, CallbacksSound
<1>3. MaxNackCount - 1 + Cardinality(Nacking(h)) \in Int
  BY <1>2, NackingIsFinite
<1>4. ProcTypeOK'
  BY <1>1, <1>2, <1>3 DEF ForgetCount, ProcTypeOK, IInv, faultVars
<1>5. CallbacksSound'
  BY <1>2, PayloadAssumption
  DEF ForgetCount, ProcTypeOK, CallbacksSound, faultVars
<1>6. FateIsKept'
  BY DEF ForgetCount, FateIsKept, faultVars, vars, ShuttingDown
<1>7. NacksCovered'
  <2> SUFFICES ASSUME NEW m \in Msg
               PROVE  /\ IsFiniteSet(Nacking(m)')
                      /\ nacksLeft'[m] >= Cardinality(Nacking(m)') + Uncounted(m)'
    BY DEF NacksCovered
  <2>1. /\ held' = held /\ count' = count /\ at'[c] = "ack"
        /\ \A d \in Callback \ {c} : at'[d] = at[d]
    BY DEF ForgetCount, ProcTypeOK
  <2>2. count[c] >= MaxNackCount /\ count[c] \in Nat /\ MaxNackCount \in Nat \ {0}
    BY BoundAssumption DEF ForgetCount, ProcTypeOK
  <2>3. c \notin Nacking(m)
    BY <2>2 DEF Nacking
  <2>4. Nacking(m)' = Nacking(m)
    BY <1>2, <2>1, <2>3 DEF Nacking
  <2>5. CASE m = h
    <3>1. nackCount'[m] = 0 /\ nacksLeft'[m] = MaxNackCount - 1 + Cardinality(Nacking(m))
      BY <1>2, <2>5 DEF ForgetCount, ProcTypeOK
    <3>2. Uncounted(m)' = MaxNackCount - 1
      BY <2>2, <3>1 DEF Uncounted
    <3> QED
      BY <2>2, <2>4, <3>1, <3>2, NackingIsFinite
  <2>6. CASE m # h
    <3>1. nackCount'[m] = nackCount[m] /\ nacksLeft'[m] = nacksLeft[m]
      BY <2>6 DEF ForgetCount, ProcTypeOK
    <3>2. Uncounted(m)' = Uncounted(m)
      BY <3>1 DEF Uncounted
    <3> QED
      BY <2>4, <3>1, <3>2, NackingIsFinite
  <2> QED
    BY <2>5, <2>6
<1> QED
  BY <1>1, <1>4, <1>5, <1>6, <1>7

(* A message without a resource id goes straight to its ack.                *)
LEMMA DiscardNoIDInv == ASSUME ProcInv, NEW c \in Callback, DiscardNoID(c) PROVE ProcInv'
<1> USE DEF ProcInv
<1>1. IInv'
  BY QueueKept DEF DiscardNoID
<1>2. ProcTypeOK'
  BY <1>1 DEF DiscardNoID, ProcTypeOK, IInv, faultVars, ghostVars
<1>3. CallbacksSound'
  BY PayloadAssumption DEF DiscardNoID, ProcTypeOK, CallbacksSound, faultVars, ghostVars
<1>4. FateIsKept'
  BY DEF DiscardNoID, FateIsKept, faultVars, ghostVars, vars, ShuttingDown
<1>5. NacksCovered'
  BY BudgetKept DEF DiscardNoID, ProcTypeOK, ghostVars
<1> QED
  BY <1>1, <1>2, <1>3, <1>4, <1>5

(* An event's key is dirty once it has been added, unless the queue shuts   *)
(* down; adding it takes no other key away.                                 *)
LEMMA EnqueueInv == ASSUME ProcInv, NEW c \in Callback, Enqueue(c) PROVE ProcInv'
<1> USE DEF ProcInv
<1> DEFINE k == Payload[held[c]]
<1>1. k \in Key /\ Add(k) /\ at[c] = "parse" /\ held[c] \in Msg
  BY DEF Enqueue, CallbacksSound
<1>2. IInv'
  BY <1>1, QueueKept DEF Next
<1>3. ProcTypeOK'
  BY <1>1, <1>2 DEF Enqueue, ProcTypeOK, IInv, faultVars, Fates
<1>4. /\ dirty \subseteq dirty' /\ processing' = processing /\ run' = run
      /\ ~ShuttingDown => k \in dirty'
  BY <1>1 DEF Add, AddKey
<1>5. /\ fate' = [fate EXCEPT ![held[c]] = IF ShuttingDown THEN "dropped" ELSE "queued"]
      /\ \A m \in Msg : fate'[m] = fate[m] \/ (m = held[c] /\ fate'[m] # "none")
  BY DEF Enqueue, ProcTypeOK
<1>6. CallbacksSound'
  BY <1>1, <1>5 DEF Enqueue, ProcTypeOK, CallbacksSound
<1>7. FateIsKept'
  <2> SUFFICES ASSUME NEW m \in Msg, Payload[m] \in Key
               PROVE  /\ m \in acked' => fate'[m] # "none"
                      /\ fate'[m] = "queued" => Payload[m] \in dirty'
                      /\ fate'[m] = "taken" => Payload[m] \in processing'
                      /\ fate'[m] = "dropped" => ShuttingDown' \/ crashes' > 0
    BY DEF FateIsKept
  <2>1. acked' = acked /\ crashes' = crashes /\ (ShuttingDown' <=> ShuttingDown)
    BY <1>4 DEF Enqueue, faultVars, ShuttingDown
  <2>2. CASE m = held[c]
    <3>1. fate'[m] = IF ShuttingDown THEN "dropped" ELSE "queued"
      BY <1>5, <2>2 DEF ProcTypeOK
    <3> QED
      BY <1>4, <2>1, <2>2, <3>1
  <2>3. CASE m # held[c]
    <3>1. fate'[m] = fate[m]
      BY <1>5, <2>3 DEF ProcTypeOK
    <3> QED
      BY <1>4, <2>1, <3>1 DEF FateIsKept
  <2> QED
    BY <2>2, <2>3
<1>8. NacksCovered'
  BY BudgetKept DEF Enqueue, ProcTypeOK
<1> QED
  BY <1>2, <1>3, <1>6, <1>7, <1>8

-----------------------------------------------------------------------------
(* The worker pool and Run                                                  *)

(* What a step that is only the queue's leaves of the subscriber's part: a  *)
(* step that takes no key away from the dirty or the processing set.        *)
LEMMA SubscriberKept ==
  ASSUME ProcInv, IInv',
         dirty \subseteq dirty', processing \subseteq processing', ShuttingDown => ShuttingDown',
         UNCHANGED <<subVars, faultVars, ghostVars>>
  PROVE  ProcInv'
<1> USE DEF ProcInv, subVars, faultVars, ghostVars
<1>1. ProcTypeOK'
  BY DEF ProcTypeOK, IInv
<1>2. CallbacksSound' /\ FateIsKept'
  BY DEF CallbacksSound, FateIsKept
<1>3. NacksCovered'
  BY BudgetKept
<1> QED
  BY <1>1, <1>2, <1>3

(* An event follows its key: from the queue into a worker's hands with Get, *)
(* and out of them with Done.                                               *)
LEMMA ProcWorkerInv == ASSUME ProcInv, NEW w \in Worker, ProcWorkerStep(w) PROVE ProcInv'
<1> USE DEF ProcInv
<1>1. UNCHANGED <<subVars, faultVars, nacksLeft>>
  BY DEF ProcWorkerStep
<1>2. IInv'
  BY QueueKept DEF ProcWorkerStep, WorkerStep, Next
<1>3. NacksCovered'
  BY <1>1, BudgetKept DEF subVars
<1>4. CASE Get(w) /\ Advance(Head(queue), "queued", "taken")
  <2> DEFINE h == Head(queue)
  <2>1. /\ dirty' = dirty \ {h} /\ processing' = processing \cup {h} /\ run' = run
        /\ fate' = [m \in Msg |->
                       IF Payload[m] = h /\ fate[m] = "queued" THEN "taken" ELSE fate[m]]
    BY <1>4 DEF Get, Advance
  <2>2. ProcTypeOK'
    BY <1>1, <1>2, <2>1 DEF ProcTypeOK, IInv, subVars, faultVars, Fates
  <2>3. CallbacksSound'
    BY <1>1, <2>1 DEF CallbacksSound, subVars
  <2>4. FateIsKept'
    BY <1>1, <2>1 DEF FateIsKept, subVars, faultVars, ShuttingDown
  <2> QED
    BY <1>2, <1>3, <2>2, <2>3, <2>4
<1>5. CASE Done(w) /\ Advance(key[w], "taken", "reconciled")
  <2> DEFINE k == key[w]
  <2>1. /\ dirty' = dirty /\ processing' = processing \ {k} /\ run' = run
        /\ fate' = [m \in Msg |->
                       IF Payload[m] = k /\ fate[m] = "taken" THEN "reconciled" ELSE fate[m]]
    BY <1>5 DEF Done, Advance
  <2>2. ProcTypeOK'
    BY <1>1, <1>2, <2>1 DEF ProcTypeOK, IInv, subVars, faultVars, Fates
  <2>3. CallbacksSound'
    BY <1>1, <2>1 DEF CallbacksSound, subVars
  <2>4. FateIsKept'
    BY <1>1, <2>1 DEF FateIsKept, subVars, faultVars, ShuttingDown
  <2> QED
    BY <1>2, <1>3, <2>2, <2>3, <2>4
<1>6. CASE (Exit(w) \/ Reconcile(w) \/ AddRateLimited(w) \/ AddAfter(w)) /\ UNCHANGED fate
  <2>1. UNCHANGED <<dirty, processing, run>>
    BY <1>6 DEF Exit, Reconcile, AddRateLimited, AddAfter, queueVars
  <2> QED
    BY <1>1, <1>2, <1>6, <2>1, SubscriberKept DEF ghostVars, ShuttingDown
<1> QED
  BY <1>4, <1>5, <1>6 DEF ProcWorkerStep

(* Timers only add keys.                                                    *)
LEMMA ProcTimerInv == ASSUME ProcInv, NEW k \in Key, ProcTimer(k) PROVE ProcInv'
<1>1. TimerFires(k) /\ UNCHANGED <<subVars, faultVars, ghostVars>>
  BY DEF ProcTimer
<1>2. IInv'
  BY <1>1, QueueKept DEF Next
<1>3. dirty \subseteq dirty' /\ UNCHANGED <<processing, run>>
  BY <1>1 DEF TimerFires, AddKey
<1> QED
  BY <1>1, <1>2, <1>3, SubscriberKept DEF ShuttingDown

(* Run shuts the queue down, never opens it again.                          *)
LEMMA ProcRunInv == ASSUME ProcInv, ProcRun PROVE ProcInv'
<1>1. (Cancel \/ ShutDown \/ Return) /\ UNCHANGED <<subVars, faultVars, ghostVars>>
  BY DEF ProcRun
<1>2. IInv'
  BY <1>1, QueueKept DEF Next
<1>3. UNCHANGED <<dirty, processing>> /\ (ShuttingDown => ShuttingDown')
  BY <1>1 DEF Cancel, ShutDown, Return, queueVars, ShuttingDown
<1> QED
  BY <1>1, <1>2, <1>3, SubscriberKept

(* After a crash no callback holds anything, what the queue or a worker had *)
(* counts as dropped, and every budget is whole again.                      *)
LEMMA RestartInv == ASSUME ProcInv, Restart PROVE ProcInv'
<1> USE DEF ProcInv
<1>1. IInv'
  BY RestartedQueue
<1>2. crashes \in Nat /\ crashes' = crashes + 1 /\ crashes' \in 0..MaxCrashes
  BY BoundAssumption DEF Restart, ProcTypeOK
<1>3. ProcTypeOK'
  BY <1>1, <1>2, BoundAssumption DEF Restart, ProcTypeOK, IInv, Fates
<1>4. CallbacksSound' /\ FateIsKept'
  BY <1>2 DEF Restart, CallbacksSound, FateIsKept
<1>5. NacksCovered'
  <2> SUFFICES ASSUME NEW m \in Msg
               PROVE  /\ IsFiniteSet(Nacking(m)')
                      /\ nacksLeft'[m] >= Cardinality(Nacking(m)') + Uncounted(m)'
    BY DEF NacksCovered
  <2>1. Nacking(m)' = {}
    BY DEF Restart, Nacking
  <2>2. nacksLeft'[m] = MaxNackCount - 1 /\ Uncounted(m)' = MaxNackCount - 1
    BY BoundAssumption DEF Restart, Uncounted
  <2> QED
    BY <2>1, <2>2, FS_EmptySet, BoundAssumption
<1> QED
  BY <1>1, <1>3, <1>4, <1>5

(* The invariant is inductive: one case per disjunct of ProcNext.           *)
LEMMA ProcNextInv == ProcInv /\ [ProcNext]_procVars => ProcInv'
<1> SUFFICES ASSUME ProcInv, [ProcNext]_procVars PROVE ProcInv'
  OBVIOUS
<1>1. ASSUME NEW c \in Callback, NEW m \in Msg, Deliver(c, m) PROVE ProcInv'
  BY <1>1, DeliverInv
<1>2. ASSUME NEW c \in Callback, CallbackStep(c) PROVE ProcInv'
  BY <1>2, CountFailureInv, NackInv, ForgetCountInv, DiscardNoIDInv, EnqueueInv, AckInv
  DEF CallbackStep
<1>3. CASE ReceiveFails
  <2>1. IInv'
    BY <1>3, QueueKept DEF ReceiveFails
  <2>2. ProcTypeOK'
    BY <1>3, <2>1 DEF ReceiveFails, ProcInv, ProcTypeOK, IInv, faultVars, ghostVars
  <2>3. CallbacksSound' /\ FateIsKept'
    BY <1>3 DEF ReceiveFails, ProcInv, CallbacksSound, FateIsKept, vars, faultVars,
                ghostVars, ShuttingDown
  <2>4. NacksCovered'
    BY <1>3, BudgetKept DEF ReceiveFails, ghostVars
  <2> QED
    BY <2>1, <2>2, <2>3, <2>4 DEF ProcInv
<1>4. ASSUME NEW w \in Worker, ProcWorkerStep(w) PROVE ProcInv'
  BY <1>4, ProcWorkerInv
<1>5. ASSUME NEW k \in Key, ProcTimer(k) PROVE ProcInv'
  BY <1>5, ProcTimerInv
<1>6. CASE ProcRun
  BY <1>6, ProcRunInv
<1>7. CASE Restart
  BY <1>7, RestartInv
<1>8. CASE Terminated \/ UNCHANGED procVars
  <2>1. UNCHANGED <<vars, subVars, faultVars, ghostVars>>
    BY <1>8 DEF Terminated, procVars
  <2>2. IInv'
    BY <2>1, QueueKept
  <2> QED
    BY <2>1, <2>2, SubscriberKept DEF vars, ShuttingDown
<1> QED
  BY <1>1, <1>2, <1>3, <1>4, <1>5, <1>6, <1>7, <1>8 DEF ProcNext

-----------------------------------------------------------------------------
(* The subscriber, the queue and the workers agree in every state of a      *)
(* process, through deliveries, nacks, shutdowns and restarts.              *)
THEOREM ProcessInvariantHolds == ProcSafeSpec => []ProcInv
BY ProcInitInv, ProcNextInv, PTL DEF ProcSafeSpec

(* Type correctness of the subscriber, the queue and the workers.           *)
THEOREM ProcessTypeCorrect == ProcSafeSpec => []ProcTypeOK
<1>1. ProcInv => ProcTypeOK
  BY DEF ProcInv
<1> QED
  BY <1>1, ProcessInvariantHolds, PTL

(* subscriber.go acks before the reconcile: still, an acknowledged event is *)
(* in the dirty set or with a worker until its key has been reconciled, and *)
(* only a shutdown or a crash loses it.                                     *)
THEOREM AckedEventsAreSafe == ProcSafeSpec => []AckedIsHandedOver
<1>1. ProcInv => AckedIsHandedOver
  BY DEF ProcInv, ProcTypeOK, FateIsKept, AckedIsHandedOver
<1> QED
  BY <1>1, ProcessInvariantHolds, PTL

(* However many deliveries of a poison pill overlap, one process nacks it   *)
(* fewer than maxNackCount times between two decisions to discard it.       *)
THEOREM NacksAreBounded == ProcSafeSpec => []NackBudget
<1>1. ProcInv => NackBudget
  <2> SUFFICES ASSUME ProcInv, NEW m \in Msg PROVE nacksLeft[m] >= 0
    BY DEF NackBudget
  <2> QED
    BY NackingIsFinite
<1> QED
  BY <1>1, ProcessInvariantHolds, PTL

(* The mutual exclusion per key that reconcilers rely on without a lock of  *)
(* their own survives duplicates, shutdowns and restarts of the process.    *)
THEOREM ExclusiveAcrossRestarts == ProcSafeSpec => []KeyExclusive
<1>1. ProcInv => KeyExclusive
  BY DEF ProcInv, IInv
<1> QED
  BY <1>1, ProcessInvariantHolds, PTL

-----------------------------------------------------------------------------
(***************************************************************************)
(* Proofs about SentinelLoop, for every set of resources, messages,        *)
(* callbacks and workers and every bound: an announced edit is on its way  *)
(* until it is applied, and what is applied moves forward unless a call    *)
(* that was given up happens late. They rest on the exclusion per key and  *)
(* on the invariant of AdapterProcess.                                     *)
(***************************************************************************)

(* Sentinel publishes again a message that no callback holds: its event     *)
(* starts anew, and nothing else of the process changes.                    *)
LEMMA AnnounceProcInv == ASSUME ProcInv, NEW m \in Msg, Announce(m) PROVE ProcInv'
<1> USE DEF ProcInv
<1>1. /\ acked' = acked \ {m}
      /\ fate' = [fate EXCEPT ![m] = "none"]
      /\ \A c \in Callback : held[c] # m
      /\ UNCHANGED <<vars, receiving, at, held, count, nackCount, faultVars, nacksLeft>>
  BY DEF Announce
<1>2. IInv'
  BY <1>1, QueueKept
<1>3. ProcTypeOK'
  BY <1>1, <1>2 DEF ProcTypeOK, IInv, faultVars, Fates
<1>4. CallbacksSound'
  BY <1>1 DEF CallbacksSound, ProcTypeOK
<1>5. FateIsKept'
  BY <1>1 DEF FateIsKept, ProcTypeOK, vars, faultVars, ShuttingDown
<1>6. NacksCovered'
  BY <1>1, BudgetKept
<1> QED
  BY <1>2, <1>3, <1>4, <1>5, <1>6

(* Every step of the loop but an announcement is a step of the process or   *)
(* leaves it alone: a reconcile that returns is the worker's Reconcile.     *)
LEMMA LoopProcInv == ProcInv /\ [LoopNext]_allVars => ProcInv'
<1> SUFFICES ASSUME ProcInv, [LoopNext]_allVars PROVE ProcInv'
  OBVIOUS
<1>1. ASSUME NEW m \in Msg, Announce(m) PROVE ProcInv'
  BY <1>1, AnnounceProcInv
<1>2. ASSUME NEW w \in Worker, LoopWorker(w) PROVE ProcInv'
  <2>1. CASE LoopAround(w)
    BY <2>1, ProcWorkerInv DEF LoopAround
  <2>2. CASE Read(w) \/ Apply(w)
    BY <2>2, ProcNextInv DEF Read, Apply
  <2>3. CASE Report(w) \/ PassOver(w) \/ FailReconcile(w) \/ WaitForSentinel(w)
    <3>1. Reconcile(w) /\ UNCHANGED <<subVars, faultVars, ghostVars>>
      BY <2>3 DEF Report, PassOver, FailReconcile, WaitForSentinel, Returns
    <3>2. ProcWorkerStep(w)
      BY <3>1 DEF ProcWorkerStep, ghostVars
    <3> QED
      BY <3>2, ProcWorkerInv
  <2> QED
    BY <1>2, <2>1, <2>2, <2>3 DEF LoopWorker
<1>3. ASSUME NEW k \in Key, Edit(k) PROVE ProcInv'
  BY <1>3, ProcNextInv DEF Edit
<1>4. CASE UNCHANGED allVars
  BY <1>4, ProcNextInv DEF allVars
<1>5. CASE \/ \E c \in Callback, m \in Msg : LoopDeliver(c, m)
           \/ \E c \in Callback : LoopCallback(c)
           \/ ReceiveFails \/ \E k \in Key : LoopTimer(k)
           \/ ProcRun \/ LoopRestart \/ Terminated
  <2>1. ProcNext
    BY <1>5 DEF LoopDeliver, LoopCallback, LoopTimer, LoopRestart, ProcNext
  <2> QED
    BY <2>1, ProcNextInv
<1>6. CASE LateCall
  BY <1>6, ProcNextInv DEF LateCall
<1> QED
  BY <1>1, <1>2, <1>3, <1>4, <1>5, <1>6 DEF LoopNext

-----------------------------------------------------------------------------

(* Initially every event is still to be delivered, and there is one for     *)
(* every resource.                                                          *)
LEMMA LoopInitInv == LoopInit => LoopInv
<1> SUFFICES ASSUME LoopInit PROVE LoopInv
  OBVIOUS
<1>1. ProcInv
  BY ProcInitInv DEF LoopInit
<1>2. LoopTypeOK
  BY LoopAssumption DEF LoopInit, LoopTypeOK
<1>3. WantedIsLatest /\ ReachedIsHighest /\ SeenIsCurrent
  BY DEF LoopInit, WantedIsLatest, ReachedIsHighest, SeenIsCurrent
<1>4. AnnouncedIsHandled
  <2> SUFFICES ASSUME NEW k \in Key PROVE EventPending(k)
    BY DEF AnnouncedIsHandled, OnItsWay
  <2>1. PICK m \in Msg : Payload[m] = k
    BY LoopAssumption
  <2>2. m \notin acked /\ \A c \in Callback : held[c] # m
    BY PayloadAssumption DEF LoopInit, ProcInit
  <2> QED
    BY <2>1, <2>2 DEF EventPending
<1> QED
  BY <1>1, <1>2, <1>3, <1>4 DEF LoopInv

(* What a step that leaves the world and the reconciles alone has to keep:  *)
(* the place of every worker that has read, and what is on its way.         *)
LEMMA LoopVarsKept ==
  ASSUME LoopInv, ProcInv', UNCHANGED loopVars,
         \A w \in Worker : seen[w] # 0 => pc'[w] = pc[w] /\ key'[w] = key[w],
         \A k \in Key : OnItsWay(k) => OnItsWay(k)'
  PROVE  LoopInv'
<1> USE DEF LoopInv, loopVars, worldVars, storeVars
<1>1. LoopTypeOK' /\ WantedIsLatest' /\ ReachedIsHighest'
  BY DEF LoopTypeOK, WantedIsLatest, ReachedIsHighest
<1>2. SeenIsCurrent'
  BY DEF SeenIsCurrent
<1>3. AnnouncedIsHandled'
  BY DEF AnnouncedIsHandled
<1> QED
  BY <1>1, <1>2, <1>3

(* A worker that has read sits in its reconcile: the steps of the worker    *)
(* loop around it are other workers'. A key they take from the queue is in  *)
(* the hands of a worker that will read; a retry is put back before Done.   *)
LEMMA AroundInv == ASSUME LoopInv, NEW w \in Worker, LoopAround(w), ProcInv' PROVE LoopInv'
<1> USE DEF LoopInv
<1>1. /\ Get(w) \/ Done(w) \/ Exit(w) \/ AddRateLimited(w) \/ AddAfter(w)
      /\ pc[w] # "reconcile" /\ UNCHANGED <<subVars, loopVars>>
  BY DEF LoopAround, ProcWorkerStep, Reconcile
<1>2. TypeOK /\ seen[w] = 0
  BY <1>1 DEF ProcInv, IInv, SeenIsCurrent
<1>3. \A v \in Worker \ {w} : pc'[v] = pc[v] /\ key'[v] = key[v]
  BY <1>1, <1>2 DEF TypeOK, Get, Done, Exit, AddRateLimited, AddAfter, queueVars
<1>4. run' = run
  BY <1>1 DEF Get, Done, Exit, AddRateLimited, AddAfter, queueVars
<1>5. ASSUME NEW k \in Key, OnItsWay(k) PROVE OnItsWay(k)'
  <2>1. CASE EventPending(k)
    BY <1>1, <2>1 DEF EventPending, OnItsWay, subVars
  <2>2. CASE ShuttingDown
    BY <1>4, <2>2 DEF ShuttingDown, OnItsWay
  <2>3. CASE k \in dirty \cup waiting
    <3>1. CASE Get(w) /\ k = Head(queue)
      <4>1. key'[w] = k /\ pc'[w] = "reconcile" /\ seen'[w] = 0
        BY <1>1, <1>2, <3>1 DEF Get, TypeOK, loopVars
      <4> QED
        BY <4>1 DEF Underway, OnItsWay
    <3>2. CASE ~(Get(w) /\ k = Head(queue))
      BY <1>1, <2>3, <3>2
      DEF Get, Done, Exit, AddRateLimited, AddAfter, queueVars, Schedule, OnItsWay
    <3> QED
      BY <3>1, <3>2
  <2>4. CASE Underway(k, announced[k])
    <3>1. PICK v \in Worker :
             /\ key[v] = k
             /\ \/ pc[v] = "reconcile" /\ (seen[v] = 0 \/ seen[v] >= announced[k])
                \/ pc[v] \in {"addRateLimited", "addAfter"}
      BY <2>4 DEF Underway
    <3>2. CASE v # w
      BY <1>1, <1>3, <3>1, <3>2 DEF Underway, OnItsWay, loopVars, worldVars
    <3>3. CASE v = w
      <4>1. pc[w] \in {"addRateLimited", "addAfter"} /\ key[w] = k
        BY <1>1, <3>1, <3>3
      <4>2. Schedule(k)
        BY <1>1, <4>1 DEF Get, Done, Exit, AddRateLimited, AddAfter
      <4> QED
        BY <1>4, <4>2 DEF Schedule, OnItsWay, ShuttingDown
    <3> QED
      BY <3>2, <3>3
  <2> QED
    BY <1>5, <2>1, <2>2, <2>3, <2>4 DEF OnItsWay
<1> QED
  BY <1>1, <1>2, <1>3, <1>5, LoopVarsKept

(* A callback hands an event to the queue before it acks it.                *)
LEMMA LoopCallbackInv ==
  ASSUME LoopInv, NEW c \in Callback, LoopCallback(c), ProcInv' PROVE LoopInv'
<1> USE DEF LoopInv
<1>1. CallbackStep(c) /\ UNCHANGED loopVars
  BY DEF LoopCallback
<1>2. ProcTypeOK /\ CallbacksSound
  BY DEF ProcInv
<1>3. /\ UNCHANGED <<pc, key, run, waiting>> /\ dirty \subseteq dirty'
      /\ Enqueue(c) => ShuttingDown \/ Payload[held[c]] \in dirty'
  BY <1>1 DEF CallbackStep, CountFailure, Nack, ForgetCount, DiscardNoID, Enqueue, Ack,
              vars, Add, AddKey
<1>4. ASSUME NEW k \in Key, EventPending(k) PROVE OnItsWay(k)'
  <2>1. PICK m \in Msg \ acked :
           Payload[m] = k /\ \A d \in Callback : held[d] = m => at[d] = "parse"
    BY <1>4 DEF EventPending
  <2>2. CASE Enqueue(c) /\ held[c] = m
    BY <1>3, <2>1, <2>2 DEF OnItsWay, ShuttingDown
  <2>3. CASE ~Enqueue(c) /\ held[c] = m
    BY <1>1, <2>1, <2>3, PayloadAssumption
    DEF CallbackStep, CountFailure, Nack, ForgetCount, DiscardNoID, Ack
  <2>4. CASE held[c] # m
    <3>1. m \notin acked'
      BY <1>1, <2>1, <2>4
      DEF CallbackStep, CountFailure, Nack, ForgetCount, DiscardNoID, Enqueue, Ack
    <3>2. \A d \in Callback : held'[d] = m => held[d] = m /\ d # c
      BY <1>1, <1>2, <2>1, <2>4, PayloadAssumption
      DEF CallbackStep, CountFailure, Nack, ForgetCount, DiscardNoID, Enqueue, Ack,
          CallbackReturns, ProcTypeOK
    <3>3. \A d \in Callback : d # c => at'[d] = at[d]
      BY <1>1, <1>2
      DEF CallbackStep, CountFailure, Nack, ForgetCount, DiscardNoID, Enqueue, Ack,
          CallbackReturns, ProcTypeOK
    <3>4. EventPending(k)'
      BY <2>1, <3>1, <3>2, <3>3 DEF EventPending
    <3> QED
      BY <3>4 DEF OnItsWay
  <2> QED
    BY <2>2, <2>3, <2>4
<1>5. ASSUME NEW k \in Key, OnItsWay(k) PROVE OnItsWay(k)'
  BY <1>1, <1>3, <1>4, <1>5 DEF OnItsWay, Underway, ShuttingDown, loopVars, worldVars
<1> QED
  BY <1>1, <1>3, <1>5, LoopVarsKept

(* A delivery puts a message where its event is still to be handed over.    *)
LEMMA LoopDeliverInv ==
  ASSUME LoopInv, NEW c \in Callback, NEW m \in Msg, LoopDeliver(c, m), ProcInv'
  PROVE  LoopInv'
<1> USE DEF LoopInv
<1>1. /\ at' = [at EXCEPT ![c] = "parse"]
      /\ held' = [held EXCEPT ![c] = m]
      /\ UNCHANGED <<vars, acked, loopVars>>
  BY DEF LoopDeliver, Deliver
<1>2. ASSUME NEW k \in Key, EventPending(k) PROVE EventPending(k)'
  BY <1>1, <1>2 DEF EventPending, ProcInv, ProcTypeOK
<1>3. ASSUME NEW k \in Key, OnItsWay(k) PROVE OnItsWay(k)'
  BY <1>1, <1>2, <1>3 DEF OnItsWay, Underway, ShuttingDown, vars, loopVars, worldVars
<1> QED
  BY <1>1, <1>3, LoopVarsKept DEF vars

(* A delayed key becomes ready, or the queue shuts down.                    *)
LEMMA LoopQueueInv ==
  ASSUME LoopInv, (\E k \in Key : LoopTimer(k)) \/ (ProcRun /\ UNCHANGED loopVars), ProcInv'
  PROVE  LoopInv'
<1> USE DEF LoopInv
<1>1. UNCHANGED <<pc, key, subVars, loopVars>>
  BY DEF LoopTimer, ProcTimer, TimerFires, ProcRun, Cancel, ShutDown, Return, queueVars
<1>2. ASSUME NEW k \in Key, OnItsWay(k) PROVE OnItsWay(k)'
  <2>1. EventPending(k) => EventPending(k)'
    BY <1>1 DEF EventPending, subVars
  <2>2. Underway(k, announced[k]) => Underway(k, announced[k])'
    BY <1>1 DEF Underway, loopVars, worldVars
  <2>3. ShuttingDown => ShuttingDown'
    BY DEF LoopTimer, ProcTimer, TimerFires, ProcRun, Cancel, ShutDown, Return, ShuttingDown
  <2>4. k \in dirty \cup waiting => k \in dirty' \cup waiting' \/ ShuttingDown'
    BY DEF LoopTimer, ProcTimer, TimerFires, AddKey, ProcRun, Cancel, ShutDown, Return,
           ShuttingDown, queueVars
  <2> QED
    BY <1>2, <2>1, <2>2, <2>3, <2>4 DEF OnItsWay
<1> QED
  BY <1>1, <1>2, LoopVarsKept

-----------------------------------------------------------------------------
(* The user and Sentinel                                                    *)

(* A newer spec is wanted; what is announced is not touched.                *)
LEMMA EditInv == ASSUME LoopInv, NEW k \in Key, Edit(k), ProcInv' PROVE LoopInv'
<1> USE DEF LoopInv
<1>1. /\ wanted' = [wanted EXCEPT ![k] = @ + 1] /\ wanted[k] < MaxGeneration
      /\ UNCHANGED <<procVars, applied, reported, inFlight, reached, announced, seen, wrote,
                     failures, lost>>
  BY DEF Edit, storeVars
<1>2. \A q \in Key : wanted[q] \in Nat /\ wanted'[q] \in Nat /\ wanted[q] <= wanted'[q]
  BY <1>1, LoopAssumption DEF LoopTypeOK
<1>3. LoopTypeOK'
  BY <1>1, LoopAssumption DEF LoopTypeOK
<1>4. WantedIsLatest' /\ ReachedIsHighest'
  BY <1>1, <1>2, LoopAssumption DEF WantedIsLatest, ReachedIsHighest, LoopTypeOK
<1>5. UNCHANGED <<pc, key, acked, at, held, dirty, waiting, run>>
  BY <1>1 DEF procVars, vars, subVars
<1>6. SeenIsCurrent'
  <2> SUFFICES ASSUME NEW w \in Worker, seen[w] # 0 PROVE seen[w] <= wanted'[key[w]]
    BY <1>1, <1>5 DEF SeenIsCurrent
  <2>1. pc[w] = "reconcile" /\ seen[w] <= wanted[key[w]]
    BY DEF SeenIsCurrent
  <2>2. key[w] \in Key
    BY <2>1 DEF ProcInv, IInv, TypeOK, HeldIsProcessing, Busy
  <2> QED
    BY <1>2, <2>1, <2>2, LoopAssumption DEF LoopTypeOK
<1>7. AnnouncedIsHandled'
  BY <1>1, <1>5 DEF AnnouncedIsHandled, OnItsWay, EventPending, Underway, ShuttingDown
<1> QED
  BY <1>3, <1>4, <1>6, <1>7

(* An announcement is an event that will be delivered.                      *)
LEMMA AnnounceInv == ASSUME LoopInv, NEW m \in Msg, Announce(m), ProcInv' PROVE LoopInv'
<1> USE DEF LoopInv
<1> DEFINE q == Payload[m]
<1>1. /\ q \in Key /\ acked' = acked \ {m} /\ \A c \in Callback : held[c] # m
      /\ announced' = [announced EXCEPT ![q] = wanted[q]]
      /\ lost' = lost \ {q}
      /\ UNCHANGED <<vars, at, held, wanted, applied, reported, inFlight, reached, seen, wrote,
                     failures>>
  BY DEF Announce, storeVars
<1>2. LoopTypeOK' /\ WantedIsLatest' /\ ReachedIsHighest'
  BY <1>1 DEF LoopTypeOK, WantedIsLatest, ReachedIsHighest
<1>3. SeenIsCurrent'
  BY <1>1 DEF SeenIsCurrent, vars
<1>4. AnnouncedIsHandled'
  <2> SUFFICES ASSUME NEW k \in Key \ lost', reached'[k] < announced'[k] PROVE OnItsWay(k)'
    BY DEF AnnouncedIsHandled
  <2>1. CASE k = q
    <3>1. EventPending(k)'
      BY <1>1, <2>1 DEF EventPending
    <3> QED
      BY <3>1 DEF OnItsWay
  <2>2. CASE k # q
    <3>1. announced'[k] = announced[k] /\ k \notin lost
      BY <1>1, <2>2 DEF LoopTypeOK
    <3>2. OnItsWay(k)
      BY <1>1, <3>1 DEF AnnouncedIsHandled
    <3>3. EventPending(k) => EventPending(k)'
      BY <1>1 DEF EventPending
    <3> QED
      BY <1>1, <3>1, <3>2, <3>3 DEF OnItsWay, Underway, ShuttingDown, vars
  <2> QED
    BY <2>1, <2>2
<1> QED
  BY <1>2, <1>3, <1>4

-----------------------------------------------------------------------------
(* Calls                                                                    *)

(* Applying a generation moves the highest one to it or leaves it.          *)
LEMMA AppliedMoves ==
  ASSUME LoopTypeOK, NEW k \in Key, NEW g \in 1..MaxGeneration, Applied(k, g)
  PROVE  /\ applied' \in [Key -> 0..MaxGeneration] /\ reached' \in [Key -> 0..MaxGeneration]
         /\ applied'[k] = g /\ g <= reached'[k]
         /\ \/ reached'[k] = reached[k] /\ g <= reached[k]
            \/ reached'[k] = g /\ reached[k] < g
         /\ \A q \in Key \ {k} : applied'[q] = applied[q] /\ reached'[q] = reached[q]
         /\ \A q \in Key : reached[q] <= reached'[q]
<1>1. g \in Nat /\ \A q \in Key : reached[q] \in Nat
  BY LoopAssumption DEF LoopTypeOK
<1>2. /\ applied' = [applied EXCEPT ![k] = g]
      /\ reached' = [reached EXCEPT ![k] = IF reached[k] < g THEN g ELSE reached[k]]
  BY DEF Applied
<1>3. applied' \in [Key -> 0..MaxGeneration] /\ reached' \in [Key -> 0..MaxGeneration]
  BY <1>2, LoopAssumption DEF LoopTypeOK
<1>4. /\ applied'[k] = g
      /\ reached'[k] = IF reached[k] < g THEN g ELSE reached[k]
      /\ \A q \in Key \ {k} : applied'[q] = applied[q] /\ reached'[q] = reached[q]
  BY <1>2 DEF LoopTypeOK
<1> QED
  BY <1>1, <1>3, <1>4

(* What is on its way does not depend on what is applied.                   *)
LEMMA WayKept ==
  ASSUME LoopInv, UNCHANGED <<procVars, worldVars, seen>>, NEW k \in Key
  PROVE  OnItsWay(k)' <=> OnItsWay(k)
BY DEF OnItsWay, EventPending, Underway, ShuttingDown, procVars, vars, subVars, worldVars

(* A late call applies or reports what was once read, so it is not newer than what *)
(* any worker has read meanwhile.                                           *)
LEMMA LateCallInv == ASSUME LoopInv, LateCall, ProcInv' PROVE LoopInv'
<1> USE DEF LoopInv
<1>1. PICK x \in inFlight :
         /\ inFlight' = inFlight \ {x}
         /\ \/ x.call = "apply" /\ Applied(x.key, x.gen) /\ UNCHANGED reported
            \/ /\ x.call = "report"
               /\ reported' = [reported EXCEPT ![x.key] = x.gen]
               /\ UNCHANGED <<applied, reached>>
  BY DEF LateCall
<1>2. UNCHANGED <<procVars, worldVars, seen, wrote, failures, lost>>
  BY DEF LateCall
<1>3. x.key \in Key /\ x.gen \in 1..MaxGeneration /\ x.gen <= wanted[x.key]
  BY DEF LoopTypeOK, WantedIsLatest
<1>4. UNCHANGED <<wanted, announced, pc, key>>
  BY <1>2 DEF worldVars, procVars, vars
<1>5. CASE x.call = "apply" /\ Applied(x.key, x.gen) /\ UNCHANGED reported
  <2>1. /\ applied' \in [Key -> 0..MaxGeneration] /\ reached' \in [Key -> 0..MaxGeneration]
        /\ applied'[x.key] = x.gen /\ x.gen <= reached'[x.key]
        /\ \/ reached'[x.key] = reached[x.key] /\ x.gen <= reached[x.key]
           \/ reached'[x.key] = x.gen /\ reached[x.key] < x.gen
        /\ \A q \in Key \ {x.key} : applied'[q] = applied[q] /\ reached'[q] = reached[q]
        /\ \A q \in Key : reached[q] <= reached'[q]
    BY <1>3, <1>5, AppliedMoves
  <2>2. LoopTypeOK'
    BY <1>1, <1>2, <1>4, <1>5, <2>1 DEF LoopTypeOK
  <2>3. WantedIsLatest'
    BY <1>1, <1>3, <1>4, <2>1 DEF WantedIsLatest
  <2>4. ReachedIsHighest'
    <3>1. \A k \in Key : applied'[k] <= reached'[k]
      BY <1>3, <2>1 DEF ReachedIsHighest
    <3>2. \A k \in Key : reported[k] <= reached'[k]
      BY <2>1, LoopAssumption DEF ReachedIsHighest, LoopTypeOK
    <3>3. \A y \in inFlight : y.call = "report" => y.gen <= reached'[y.key]
      BY <2>1, LoopAssumption DEF ReachedIsHighest, LoopTypeOK
    <3> QED
      BY <1>1, <1>5, <3>1, <3>2, <3>3 DEF ReachedIsHighest
  <2>5. SeenIsCurrent'
    <3> SUFFICES ASSUME NEW w \in Worker, seen[w] # 0
                 PROVE  /\ reached'[key[w]] <= seen[w]
                        /\ w \in wrote => reached'[key[w]] = seen[w]
      BY <1>1, <1>2, <1>4 DEF SeenIsCurrent
    <3>1. key[w] \in Key
      BY DEF SeenIsCurrent, ProcInv, IInv, TypeOK, HeldIsProcessing, Busy
    <3>2. CASE key[w] = x.key
      <4>1. x.gen <= seen[w] /\ reached[key[w]] <= seen[w]
            /\ (w \in wrote => reached[key[w]] = seen[w])
        BY <3>2 DEF SeenIsCurrent
      <4>2. seen[w] \in Nat /\ x.gen \in Nat /\ reached[key[w]] \in Nat
        BY <1>3, <3>1, LoopAssumption DEF LoopTypeOK
      <4> QED
        BY <2>1, <3>2, <4>1, <4>2
    <3>3. CASE key[w] # x.key
      BY <2>1, <3>1, <3>3 DEF SeenIsCurrent
    <3> QED
      BY <3>2, <3>3
  <2>6. AnnouncedIsHandled'
    <3> SUFFICES ASSUME NEW k \in Key \ lost, reached'[k] < announced[k] PROVE OnItsWay(k)
      BY <1>2, <1>4, WayKept DEF AnnouncedIsHandled
    <3>1. reached[k] < announced[k]
      BY <2>1, LoopAssumption DEF LoopTypeOK
    <3> QED
      BY <3>1 DEF AnnouncedIsHandled
  <2> QED
    BY <2>2, <2>3, <2>4, <2>5, <2>6
<1>6. CASE /\ x.call = "report"
           /\ reported' = [reported EXCEPT ![x.key] = x.gen]
           /\ UNCHANGED <<applied, reached>>
  <2>1. LoopTypeOK'
    BY <1>1, <1>2, <1>3, <1>4, <1>6 DEF LoopTypeOK
  <2>2. WantedIsLatest' /\ ReachedIsHighest'
    BY <1>1, <1>3, <1>4, <1>6 DEF WantedIsLatest, ReachedIsHighest, LoopTypeOK
  <2>3. SeenIsCurrent'
    BY <1>1, <1>2, <1>4, <1>6 DEF SeenIsCurrent
  <2>4. AnnouncedIsHandled'
    BY <1>2, <1>4, <1>6, WayKept DEF AnnouncedIsHandled
  <2> QED
    BY <2>1, <2>2, <2>3, <2>4
<1> QED
  BY <1>1, <1>5, <1>6

-----------------------------------------------------------------------------
(* The reconcile                                                            *)

(* What is read is the latest, so it is as new as anything announced.       *)
LEMMA ReadInv == ASSUME LoopInv, NEW w \in Worker, Read(w), ProcInv' PROVE LoopInv'
<1> USE DEF LoopInv
<1>1. /\ pc[w] = "reconcile" /\ seen[w] = 0
      /\ seen' = [seen EXCEPT ![w] = wanted[key[w]]]
      /\ UNCHANGED <<procVars, wanted, applied, reported, inFlight, reached, announced, wrote,
                     failures, lost>>
  BY DEF Read, worldVars, storeVars
<1>2. key[w] \in Key
  BY <1>1 DEF ProcInv, IInv, TypeOK, HeldIsProcessing, Busy
<1>3. UNCHANGED <<pc, key, acked, at, held, dirty, waiting, run>>
  BY <1>1 DEF procVars, vars, subVars
<1>4. LoopTypeOK'
  BY <1>1, <1>2, LoopAssumption DEF LoopTypeOK
<1>5. WantedIsLatest' /\ ReachedIsHighest'
  BY <1>1 DEF WantedIsLatest, ReachedIsHighest
<1>6. SeenIsCurrent'
  <2>1. /\ w \notin wrote /\ seen'[w] = wanted[key[w]] /\ seen'[w] # 0
        /\ reached[key[w]] <= seen'[w] /\ seen'[w] \in Nat
    BY <1>1, <1>2, LoopAssumption DEF LoopTypeOK, WantedIsLatest, SeenIsCurrent
  <2>2. \A x \in inFlight : x.key = key[w] => x.gen <= seen'[w]
    BY <2>1 DEF WantedIsLatest
  <2>3. \A v \in Worker \ {w} : seen'[v] = seen[v]
    BY <1>1 DEF LoopTypeOK
  <2> QED
    BY <1>1, <1>3, <2>1, <2>2, <2>3 DEF SeenIsCurrent
<1>7. AnnouncedIsHandled'
  <2> SUFFICES ASSUME NEW k \in Key, OnItsWay(k) PROVE OnItsWay(k)'
    BY <1>1 DEF AnnouncedIsHandled
  <2>1. ASSUME Underway(k, announced[k]) PROVE Underway(k, announced[k])'
    <3>1. PICK v \in Worker :
             /\ key[v] = k
             /\ \/ pc[v] = "reconcile" /\ (seen[v] = 0 \/ seen[v] >= announced[k])
                \/ pc[v] \in {"addRateLimited", "addAfter"}
      BY <2>1 DEF Underway
    <3>2. CASE v = w
      <4>1. seen'[w] = wanted[k] /\ wanted[k] >= announced[k] /\ announced' = announced
        BY <1>1, <3>1, <3>2, LoopAssumption DEF LoopTypeOK, WantedIsLatest
      <4> QED
        BY <1>1, <1>3, <3>1, <3>2, <4>1 DEF Underway
    <3>3. CASE v # w
      <4>1. seen'[v] = seen[v] /\ announced' = announced
        BY <1>1, <3>3 DEF LoopTypeOK
      <4> QED
        BY <1>3, <3>1, <4>1 DEF Underway
    <3> QED
      BY <3>2, <3>3
  <2>2. EventPending(k) => EventPending(k)'
    BY <1>3 DEF EventPending
  <2> QED
    BY <1>3, <2>1, <2>2 DEF OnItsWay, ShuttingDown
<1> QED
  BY <1>4, <1>5, <1>6, <1>7

(* Applying what was read: no other worker holds the key, and nothing newer than *)
(* what was read has been applied or may be.                                *)
LEMMA ApplyInv == ASSUME LoopInv, NEW w \in Worker, Apply(w), ProcInv' PROVE LoopInv'
<1> USE DEF LoopInv
<1> DEFINE q == key[w]
<1>1. /\ seen[w] # 0 /\ w \notin wrote /\ Applied(q, seen[w])
      /\ wrote' = wrote \cup {w}
      /\ UNCHANGED <<procVars, worldVars, reported, inFlight, seen, failures, lost>>
  BY DEF Apply
<1>2. UNCHANGED <<wanted, announced, pc, key>>
  BY <1>1 DEF worldVars, procVars, vars
<1>3. pc[w] = "reconcile" /\ reached[q] <= seen[w] /\ seen[w] <= wanted[q]
  BY <1>1 DEF SeenIsCurrent
<1>4. q \in Key /\ seen[w] \in 1..MaxGeneration
  <2>1. q \in Key
    BY <1>3 DEF ProcInv, IInv, TypeOK, HeldIsProcessing, Busy
  <2>2. seen[w] \in 1..MaxGeneration
    BY <1>1, LoopAssumption DEF LoopTypeOK
  <2> QED
    BY <2>1, <2>2
<1>5. /\ applied' \in [Key -> 0..MaxGeneration] /\ reached' \in [Key -> 0..MaxGeneration]
      /\ applied'[q] = seen[w] /\ reached'[q] = seen[w]
      /\ \A k \in Key \ {q} : applied'[k] = applied[k] /\ reached'[k] = reached[k]
      /\ \A k \in Key : reached[k] <= reached'[k]
  <2>1. seen[w] \in Nat /\ reached[q] \in Nat
    BY <1>4, LoopAssumption DEF LoopTypeOK
  <2> QED
    BY <1>1, <1>3, <1>4, <2>1, AppliedMoves
<1>6. LoopTypeOK'
  BY <1>1, <1>2, <1>5 DEF LoopTypeOK
<1>7. WantedIsLatest'
  BY <1>1, <1>2, <1>3, <1>4, <1>5 DEF WantedIsLatest
<1>8. ReachedIsHighest'
  <2>1. \A k \in Key : applied'[k] <= reached'[k]
    BY <1>4, <1>5, LoopAssumption DEF ReachedIsHighest, LoopTypeOK
  <2>2. \A k \in Key : reported[k] <= reached'[k]
    BY <1>5, LoopAssumption DEF ReachedIsHighest, LoopTypeOK
  <2>3. \A x \in inFlight : x.call = "report" => x.gen <= reached'[x.key]
    BY <1>5, LoopAssumption DEF ReachedIsHighest, LoopTypeOK
  <2> QED
    BY <1>1, <2>1, <2>2, <2>3 DEF ReachedIsHighest
<1>9. SeenIsCurrent'
  <2> SUFFICES ASSUME NEW v \in Worker
               PROVE  /\ v \in wrote' => seen[v] # 0
                      /\ seen[v] # 0 => /\ pc[v] = "reconcile"
                                        /\ reached'[key[v]] <= seen[v]
                                        /\ seen[v] <= wanted[key[v]]
                                        /\ v \in wrote' => reached'[key[v]] = seen[v]
                                        /\ \A x \in inFlight : x.key = key[v] => x.gen <= seen[v]
    BY <1>1, <1>2 DEF SeenIsCurrent
  <2>1. CASE v = w
    BY <1>1, <1>3, <1>4, <1>5, <2>1 DEF SeenIsCurrent
  <2>2. CASE v # w /\ seen[v] # 0
    <3>1. Busy(v) /\ Busy(w) /\ key[v] # q /\ key[v] \in Key
      BY <1>3, <2>2
      DEF SeenIsCurrent, Busy, ProcInv, IInv, KeyExclusive, TypeOK, HeldIsProcessing
    <3>2. reached'[key[v]] = reached[key[v]]
      BY <1>5, <3>1
    <3> QED
      BY <1>1, <2>2, <3>2 DEF SeenIsCurrent
  <2>3. CASE v # w /\ seen[v] = 0
    BY <1>1, <2>3 DEF SeenIsCurrent
  <2> QED
    BY <2>1, <2>2, <2>3
<1>10. AnnouncedIsHandled'
  <2> SUFFICES ASSUME NEW k \in Key \ lost, reached'[k] < announced[k] PROVE OnItsWay(k)
    BY <1>1, <1>2, WayKept DEF AnnouncedIsHandled
  <2>1. reached[k] < announced[k]
    BY <1>5, LoopAssumption DEF LoopTypeOK
  <2> QED
    BY <2>1 DEF AnnouncedIsHandled
<1> QED
  BY <1>6, <1>7, <1>8, <1>9, <1>10

(* What a worker may leave in flight was read while it held the key.        *)
LEMMA NextCallSound ==
  ASSUME LoopInv, NEW w \in Worker, NEW x \in NextCall(w)
  PROVE  /\ x \in [key : Key, gen : 1..MaxGeneration, call : {"apply", "report"}]
         /\ x.key = key[w] /\ x.gen = seen[w] /\ seen[w] # 0 /\ pc[w] = "reconcile"
         /\ x.gen <= wanted[x.key]
         /\ x.call = "report" => x.gen <= reached[x.key]
<1>1. /\ seen[w] # 0
      /\ x = [key |-> key[w], gen |-> seen[w],
              call |-> IF w \in wrote THEN "report" ELSE "apply"]
  BY DEF NextCall
<1>2. /\ pc[w] = "reconcile" /\ seen[w] <= wanted[key[w]]
      /\ w \in wrote => reached[key[w]] = seen[w]
  BY <1>1 DEF LoopInv, SeenIsCurrent
<1>3. key[w] \in Key
  BY <1>2 DEF LoopInv, ProcInv, IInv, TypeOK, HeldIsProcessing, Busy
<1>4. seen[w] \in 1..MaxGeneration
  BY <1>1, LoopAssumption DEF LoopInv, LoopTypeOK
<1> QED
  BY <1>1, <1>2, <1>3, <1>4

(* What a reconcile that returns has in common, whatever it returns: it     *)
(* leaves its next call in flight or nothing, and no other worker holds its *)
(* key.                                                                     *)
LEMMA ReturnInv ==
  ASSUME LoopInv, NEW w \in Worker, Returns(w), ProcInv',
         inFlight' \in {inFlight, inFlight \cup NextCall(w)},
         \/ UNCHANGED reported
         \/ w \in wrote /\ reported' = [reported EXCEPT ![key[w]] = seen[w]],
         failures' \in 0..MaxFailures,
         lost \subseteq lost', lost' \subseteq Key,
         \/ pc'[w] = "addRateLimited"
         \/ seen[w] # 0 /\ reached[key[w]] >= seen[w]
         \/ seen[w] # 0 /\ (seen[w] >= announced[key[w]] => key[w] \in lost')
  PROVE  LoopInv'
<1> USE DEF LoopInv
<1> DEFINE q == key[w]
<1>1. /\ pc[w] = "reconcile" /\ UNCHANGED <<queue, dirty, processing, waiting, key, run>>
      /\ seen' = [seen EXCEPT ![w] = 0] /\ wrote' = wrote \ {w}
      /\ UNCHANGED <<subVars, wanted, announced, applied, reached>>
  BY DEF Returns, Reconcile, queueVars, worldVars
<1>2. q \in Key /\ TypeOK
  BY <1>1 DEF ProcInv, IInv, TypeOK, HeldIsProcessing, Busy
<1>3. \A v \in Worker \ {w} : pc'[v] = pc[v] /\ seen'[v] = seen[v]
  BY <1>1, <1>2 DEF Returns, Reconcile, TypeOK, LoopTypeOK
<1>4. /\ seen[w] \in Nat /\ seen'[w] = 0
      /\ \A k \in Key : reached[k] \in Nat /\ announced[k] \in Nat /\ wanted[k] \in Nat
  BY <1>1, <1>2, LoopAssumption DEF LoopTypeOK
<1>5. \A v \in Worker \ {w} : Busy(v) => key[v] # q
  BY <1>1 DEF ProcInv, IInv, KeyExclusive, Busy
<1>6. \A x \in inFlight' : x \in inFlight \/ x \in NextCall(w)
  OBVIOUS
<1>7. \A x \in inFlight' : x \in [key : Key, gen : 1..MaxGeneration, call : {"apply", "report"}]
  BY <1>6, NextCallSound DEF LoopTypeOK
<1>8. w \in wrote => reached[q] = seen[w] /\ seen[w] # 0
  BY DEF SeenIsCurrent
<1>9. LoopTypeOK'
  BY <1>1, <1>2, <1>7, LoopAssumption DEF LoopTypeOK
<1>10. WantedIsLatest'
  BY <1>1, <1>6, NextCallSound DEF WantedIsLatest
<1>11. ReachedIsHighest'
  <2>1. \A k \in Key : reported'[k] <= reached[k]
    BY <1>2, <1>4, <1>8 DEF ReachedIsHighest, LoopTypeOK
  <2>2. \A x \in inFlight' : x.call = "report" => x.gen <= reached[x.key]
    BY <1>6, NextCallSound DEF ReachedIsHighest
  <2> QED
    BY <1>1, <2>1, <2>2 DEF ReachedIsHighest
<1>12. SeenIsCurrent'
  <2> SUFFICES ASSUME NEW v \in Worker
               PROVE  /\ v \in wrote' => seen'[v] # 0
                      /\ seen'[v] # 0 => /\ pc'[v] = "reconcile"
                                         /\ reached[key[v]] <= seen'[v]
                                         /\ seen'[v] <= wanted[key[v]]
                                         /\ v \in wrote' => reached[key[v]] = seen'[v]
                                         /\ \A x \in inFlight' :
                                               x.key = key[v] => x.gen <= seen'[v]
    BY <1>1 DEF SeenIsCurrent
  <2>1. CASE v = w
    BY <1>1, <1>4, <2>1
  <2>2. CASE v # w /\ seen[v] # 0
    <3>1. Busy(v) /\ key[v] # q
      BY <1>5, <2>2 DEF SeenIsCurrent, Busy
    <3>2. \A x \in inFlight' : x.key = key[v] => x \in inFlight
      BY <1>6, <3>1, NextCallSound
    <3> QED
      BY <1>1, <1>3, <2>2, <3>2 DEF SeenIsCurrent
  <2>3. CASE v # w /\ seen[v] = 0
    BY <1>1, <1>3, <2>3 DEF SeenIsCurrent
  <2> QED
    BY <2>1, <2>2, <2>3
<1>13. AnnouncedIsHandled'
  <2> SUFFICES ASSUME NEW k \in Key \ lost', reached[k] < announced[k] PROVE OnItsWay(k)'
    BY <1>1 DEF AnnouncedIsHandled
  <2>1. EventPending(k) => EventPending(k)'
    BY <1>1 DEF EventPending, subVars
  <2>2. ASSUME NEW v \in Worker \ {w}, key[v] = k,
               \/ pc[v] = "reconcile" /\ (seen[v] = 0 \/ seen[v] >= announced[k])
               \/ pc[v] \in {"addRateLimited", "addAfter"}
        PROVE  Underway(k, announced[k])'
    BY <1>1, <1>3, <2>2 DEF Underway
  <2>3. OnItsWay(k)
    BY DEF AnnouncedIsHandled
  <2>4. CASE k # q
    BY <1>1, <2>1, <2>2, <2>3, <2>4 DEF OnItsWay, Underway, ShuttingDown
  <2>5. CASE k = q
    <3>1. CASE pc'[w] = "addRateLimited"
      <4>1. Underway(k, announced[k])'
        BY <1>1, <2>5, <3>1 DEF Underway
      <4> QED
        BY <4>1 DEF OnItsWay
    <3>2. CASE \/ seen[w] # 0 /\ reached[q] >= seen[w]
               \/ seen[w] # 0 /\ (seen[w] >= announced[q] => q \in lost')
      <4>1. ~(seen[w] = 0 \/ seen[w] >= announced[k])
        BY <1>2, <1>4, <2>5, <3>2
      <4>2. Underway(k, announced[k]) => Underway(k, announced[k])'
        BY <1>1, <2>2, <4>1 DEF Underway
      <4> QED
        BY <1>1, <2>1, <2>3, <4>2 DEF OnItsWay, ShuttingDown
    <3> QED
      BY <3>1, <3>2
  <2> QED
    BY <2>4, <2>5
<1> QED
  BY <1>9, <1>10, <1>11, <1>12, <1>13

(* A crash leaves any of the next calls in flight, and announcements are lost. *)
LEMMA LoopRestartInv == ASSUME LoopInv, LoopRestart, ProcInv' PROVE LoopInv'
<1> USE DEF LoopInv
<1>1. /\ seen' = [w \in Worker |-> 0] /\ wrote' = {} /\ lost' = Key
      /\ UNCHANGED <<wanted, announced, applied, reported, reached, failures>>
  BY DEF LoopRestart, worldVars
<1>2. PICK sent \in SUBSET Worker : inFlight' = inFlight \cup UNION {NextCall(w) : w \in sent}
  BY DEF LoopRestart
<1>3. \A x \in inFlight' : x \in inFlight \/ \E w \in Worker : x \in NextCall(w)
  BY <1>2
<1>4. LoopTypeOK'
  <2>1. \A x \in inFlight' : x \in [key : Key, gen : 1..MaxGeneration, call : {"apply", "report"}]
    BY <1>3, NextCallSound DEF LoopTypeOK
  <2> QED
    BY <1>1, <2>1, LoopAssumption DEF LoopTypeOK
<1>5. WantedIsLatest' /\ ReachedIsHighest'
  BY <1>1, <1>3, NextCallSound DEF WantedIsLatest, ReachedIsHighest
<1>6. SeenIsCurrent' /\ AnnouncedIsHandled'
  BY <1>1 DEF SeenIsCurrent, AnnouncedIsHandled
<1> QED
  BY <1>4, <1>5, <1>6

---------------------------------------------------------------------------
(* The invariant is inductive: one case per disjunct of LoopNext.           *)
LEMMA LoopNextInv == LoopInv /\ [LoopNext]_allVars => LoopInv'
<1> SUFFICES ASSUME LoopInv, [LoopNext]_allVars PROVE LoopInv'
  OBVIOUS
<1>1. ProcInv'
  BY LoopProcInv DEF LoopInv
<1>2. ASSUME NEW k \in Key, Edit(k) PROVE LoopInv'
  BY <1>1, <1>2, EditInv
<1>3. ASSUME NEW m \in Msg, Announce(m) PROVE LoopInv'
  BY <1>1, <1>3, AnnounceInv
<1>4. ASSUME NEW c \in Callback, NEW m \in Msg, LoopDeliver(c, m) PROVE LoopInv'
  BY <1>1, <1>4, LoopDeliverInv
<1>5. ASSUME NEW c \in Callback, LoopCallback(c) PROVE LoopInv'
  BY <1>1, <1>5, LoopCallbackInv
<1>6. ASSUME NEW w \in Worker, LoopWorker(w) PROVE LoopInv'
  <2>1. /\ pc \in [Worker -> WorkerPC] /\ seen[w] \in Nat
        /\ failures \in 0..MaxFailures /\ MaxFailures \in Nat /\ lost \subseteq Key
    BY LoopAssumption DEF LoopInv, ProcInv, IInv, TypeOK, LoopTypeOK
  <2>2. CASE LoopAround(w)
    BY <1>1, <2>2, AroundInv
  <2>3. CASE Read(w)
    BY <1>1, <2>3, ReadInv
  <2>4. CASE Apply(w)
    BY <1>1, <2>4, ApplyInv
  <2>5. CASE Report(w)
    <3>1. seen[w] # 0 /\ reached[key[w]] >= seen[w]
      BY <2>1, <2>5 DEF Report, LoopInv, SeenIsCurrent
    <3>2. /\ Returns(w) /\ w \in wrote /\ UNCHANGED <<inFlight, failures, lost>>
          /\ reported' = [reported EXCEPT ![key[w]] = seen[w]]
      BY <2>5 DEF Report
    <3> QED
      BY <1>1, <2>1, <3>1, <3>2, ReturnInv
  <2>6. CASE PassOver(w)
    <3>1. seen[w] # 0 /\ reported[key[w]] = seen[w] /\ Returns(w)
          /\ UNCHANGED <<reported, inFlight, failures, lost>>
      BY <2>6 DEF PassOver
    <3>2. key[w] \in Key
      BY <3>1 DEF Returns, Reconcile, LoopInv, ProcInv, IInv, TypeOK, HeldIsProcessing, Busy
    <3>3. reached[key[w]] >= seen[w]
      BY <3>1, <3>2, LoopAssumption DEF LoopInv, ReachedIsHighest, LoopTypeOK
    <3> QED
      BY <1>1, <2>1, <3>1, <3>3, ReturnInv
  <2>7. CASE FailReconcile(w)
    <3>1. failures' \in 0..MaxFailures
      BY <2>1, <2>7 DEF FailReconcile
    <3>2. /\ Returns(w) /\ pc'[w] = "addRateLimited" /\ UNCHANGED <<reported, lost>>
          /\ inFlight' \in {inFlight, inFlight \cup NextCall(w)}
      BY <2>7 DEF FailReconcile
    <3> QED
      BY <1>1, <2>1, <3>1, <3>2, ReturnInv
  <2>8. CASE WaitForSentinel(w)
    <3>1. failures' \in 0..MaxFailures
      BY <2>1, <2>8 DEF WaitForSentinel
    <3>2. /\ Returns(w) /\ seen[w] # 0 /\ UNCHANGED <<reported, inFlight>>
          /\ lost' = lost \cup {k \in {key[w]} : seen[w] >= announced[k]}
      BY <2>8 DEF WaitForSentinel
    <3>3. key[w] \in Key
      BY <3>2 DEF Returns, Reconcile, LoopInv, ProcInv, IInv, TypeOK, HeldIsProcessing, Busy
    <3>4. /\ lost \subseteq lost' /\ lost' \subseteq Key
          /\ seen[w] >= announced[key[w]] => key[w] \in lost'
      BY <2>1, <3>2, <3>3
    <3> QED
      BY <1>1, <3>1, <3>2, <3>4, ReturnInv
  <2> QED
    BY <1>6, <2>2, <2>3, <2>4, <2>5, <2>6, <2>7, <2>8 DEF LoopWorker
<1>7. CASE (\E k \in Key : LoopTimer(k)) \/ (ProcRun /\ UNCHANGED loopVars)
  BY <1>1, <1>7, LoopQueueInv
<1>8. CASE LoopRestart
  BY <1>1, <1>8, LoopRestartInv
<1>9. CASE \/ (ReceiveFails \/ Terminated) /\ UNCHANGED loopVars
           \/ UNCHANGED allVars
  <2>1. UNCHANGED <<vars, acked, at, held, loopVars>>
    BY <1>9 DEF ReceiveFails, Terminated, allVars, procVars, subVars
  <2>2. \A k \in Key : OnItsWay(k) => OnItsWay(k)'
    BY <2>1 DEF OnItsWay, EventPending, Underway, ShuttingDown, vars, loopVars, worldVars
  <2> QED
    BY <1>1, <2>1, <2>2, LoopVarsKept DEF vars
<1>10. CASE LateCall
  BY <1>1, <1>10, LateCallInv
<1> QED
  BY <1>10, <1>2, <1>3, <1>4, <1>5, <1>6, <1>7, <1>8, <1>9 DEF LoopNext

-----------------------------------------------------------------------------
(* Subscriber, queue, workers and reconciles agree with what is wanted and  *)
(* announced in every state of the loop.                                    *)
THEOREM LoopInvariantHolds == LoopSafeSpec => []LoopInv
BY LoopInitInv, LoopNextInv, PTL DEF LoopSafeSpec

(* With the ack before the reconcile, events that collapse, duplicates and  *)
(* reconciles that fail, an announced edit is never forgotten: an event, a  *)
(* queued or delayed key, or a reconcile that reads late enough stands for  *)
(* it, until a crash, the end of the process or a reconcile that waits.     *)
THEOREM AnnouncementsAreKept == LoopSafeSpec => []AnnouncedIsOnItsWay
<1>1. LoopInv => AnnouncedIsOnItsWay
  BY DEF LoopInv, AnnouncedIsHandled, OnItsWay, EventPending, AnnouncedIsOnItsWay
<1> QED
  BY <1>1, LoopInvariantHolds, PTL

(* What the reconcilers rely on without a lock: one worker per key, so that *)
(* no step of a reconcile applies an older spec over a newer one; only a    *)
(* call that was given up, by a failed reconcile or in a crash, may.        *)
THEOREM AppliedNeverGoesBack == LoopSafeSpec => AppliedMovesForward
<1>1. LoopInv /\ [LoopNext]_allVars
      => [\A k \in Key : applied'[k] >= applied[k] \/ LateCall]_allVars
  <2> SUFFICES ASSUME LoopInv, LoopNext, ~LateCall, NEW k \in Key PROVE applied'[k] >= applied[k]
    OBVIOUS
  <2>1. applied \in [Key -> Nat] /\ reached \in [Key -> Nat] /\ seen \in [Worker -> Nat]
    BY LoopAssumption DEF LoopInv, LoopTypeOK
  <2>2. ASSUME NEW w \in Worker, Apply(w) PROVE applied'[k] >= applied[k]
    <3>1. seen[w] # 0 /\ applied' = [applied EXCEPT ![key[w]] = seen[w]]
      BY <2>2 DEF Apply, Applied
    <3>2. reached[key[w]] <= seen[w]
      BY <3>1 DEF LoopInv, SeenIsCurrent
    <3>3. applied[k] <= reached[k]
      BY DEF LoopInv, ReachedIsHighest
    <3> QED
      BY <2>1, <3>1, <3>2, <3>3
  <2>3. ASSUME UNCHANGED applied PROVE applied'[k] >= applied[k]
    BY <2>1, <2>3
  <2>4. (\E w \in Worker : Apply(w)) \/ UNCHANGED applied
    BY DEF LoopNext, Edit, Announce, LoopDeliver, LoopCallback, LoopWorker, LoopAround, Read,
           Report, PassOver, FailReconcile, WaitForSentinel, Returns, LoopTimer, LoopRestart,
           loopVars, storeVars
  <2> QED
    BY <2>2, <2>3, <2>4
<1> QED
  BY <1>1, LoopInvariantHolds, PTL DEF LoopSafeSpec, AppliedMovesForward
=============================================================================
