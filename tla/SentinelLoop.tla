---------------------------- MODULE SentinelLoop ----------------------------
(***************************************************************************)
(* One adapter process together with what it is there for: a user edits    *)
(* resources, Sentinel announces those that are not reconciled by          *)
(* publishing an event, and republishes ("Sentinel republishes events for  *)
(* unreconciled clusters", README.md), and a reconcile reads the spec in   *)
(* one call, applies what it read in a second and reports it in a third.   *)
(* A call that its caller has given up, because it failed or because the   *)
(* process is gone, may still have its effect later.                       *)
(*                                                                         *)
(* Composes AdapterProcess (subscriber, queue, workers, crashes) with a    *)
(* reconciler of three calls; what goes on between them among several      *)
(* adapters is Pipeline's subject. That it has to wait for another adapter *)
(* is a reconcile that may give up without an error, a few times.          *)
(***************************************************************************)
EXTENDS AdapterProcess

CONSTANTS
    MaxGeneration,  \* bound: generations of each resource
    MaxFailures     \* bound: reconciles that fail or wait while the context is alive

ASSUME LoopAssumption ==
    /\ MaxGeneration \in Nat \ {0} /\ MaxFailures \in Nat
    /\ \A k \in Key : \E m \in Msg : Payload[m] = k

VARIABLES
    wanted,     \* [Key -> the generation of the spec]
    applied,    \* [Key -> the generation that is applied], 0 before the first
    reported,   \* [Key -> the generation the adapter's status speaks of], 0 before
    announced,  \* [Key -> the generation when Sentinel last published an event]
    seen,       \* [Worker -> the generation its reconcile has read], 0 before it has
    wrote,      \* the workers whose reconcile has applied what it read
    inFlight,   \* the applies and reports given up by their callers that may still happen
    failures,   \* the failures and waits so far
    lost,       \* history: keys whose last announcement a crash or a wait has used up
    reached     \* history: [Key -> the highest generation that was ever applied]

worldVars == <<wanted, announced>>
storeVars == <<applied, reported, inFlight, reached>>
loopVars == <<worldVars, storeVars, seen, wrote, failures, lost>>

allVars == <<procVars, loopVars>>

LoopInit ==
    /\ ProcInit
    /\ wanted = [k \in Key |-> 1]
    /\ applied = [k \in Key |-> 0]
    /\ reported = [k \in Key |-> 0]
    /\ announced = [k \in Key |-> 1]
    /\ seen = [w \in Worker |-> 0]
    /\ wrote = {}
    /\ inFlight = {}
    /\ failures = 0
    /\ lost = {}
    /\ reached = [k \in Key |-> 0]

-----------------------------------------------------------------------------
(* The user, Sentinel, the API and Maestro (external)                       *)

Edit(k) ==
    /\ wanted[k] < MaxGeneration
    /\ wanted' = [wanted EXCEPT ![k] = @ + 1]
    /\ UNCHANGED <<procVars, storeVars, announced, seen, wrote, failures, lost>>

\* Sentinel publishes an event for a resource that is not reconciled: nobody has
\* reported the generation of its spec. A message that is settled stands for the next
\* one to be published.
Announce(m) ==
    LET k == Payload[m] IN
    /\ k \in Key
    /\ reported[k] # wanted[k]
    /\ m \in acked
    /\ \A c \in Callback : held[c] # m
    /\ acked' = acked \ {m}
    /\ fate' = [fate EXCEPT ![m] = "none"]
    /\ announced' = [announced EXCEPT ![k] = wanted[k]]
    /\ lost' = lost \ {k}
    /\ UNCHANGED <<vars, receiving, at, held, count, nackCount, faultVars, nacksLeft,
                   wanted, storeVars, seen, wrote, failures>>

\* Generation g is applied: from now on it is what is there.
Applied(k, g) ==
    /\ applied' = [applied EXCEPT ![k] = g]
    /\ reached' = [reached EXCEPT ![k] = IF @ < g THEN g ELSE @]

\* A call that its caller has given up happens after all, whatever happened since.
LateCall ==
    /\ \E x \in inFlight :
          /\ inFlight' = inFlight \ {x}
          /\ \/ x.call = "apply" /\ Applied(x.key, x.gen) /\ UNCHANGED reported
             \/ /\ x.call = "report"
                /\ reported' = [reported EXCEPT ![x.key] = x.gen]
                /\ UNCHANGED <<applied, reached>>
    /\ UNCHANGED <<procVars, worldVars, seen, wrote, failures, lost>>

-----------------------------------------------------------------------------
(* The workers, with a reconcile in three calls                             *)

\* GET the resource; once the context is cancelled this fails.
Read(w) ==
    /\ pc[w] = "reconcile"
    /\ seen[w] = 0
    /\ run = "running"
    /\ seen' = [seen EXCEPT ![w] = wanted[key[w]]]
    /\ UNCHANGED <<procVars, worldVars, storeVars, wrote, failures, lost>>

\* Apply what was read.
Apply(w) ==
    /\ seen[w] # 0 /\ w \notin wrote
    /\ Applied(key[w], seen[w])
    /\ wrote' = wrote \cup {w}
    /\ UNCHANGED <<procVars, worldVars, reported, inFlight, seen, failures, lost>>

\* The reconcile of w returns, and has nothing in its hands any more.
Returns(w) ==
    /\ Reconcile(w)
    /\ seen' = [seen EXCEPT ![w] = 0]
    /\ wrote' = wrote \ {w}
    /\ UNCHANGED <<subVars, faultVars, ghostVars, worldVars, applied, reached>>

\* Mutant of Report: the report has the spec's generation at this moment.
ReportCurrent(w) ==
    /\ w \in wrote
    /\ Returns(w)
    /\ pc'[w] # "addRateLimited"
    /\ reported' = [reported EXCEPT ![key[w]] = wanted[key[w]]]
    /\ UNCHANGED <<inFlight, failures, lost>>

\* Report what was applied, and return without an error.
Report(w) ==
    /\ w \in wrote
    /\ Returns(w)
    /\ pc'[w] # "addRateLimited"
    /\ reported' = [reported EXCEPT ![key[w]] = seen[w]]
    /\ UNCHANGED <<inFlight, failures, lost>>

\* The resource counts as reconciled already: hc leaves it alone.
PassOver(w) ==
    /\ seen[w] # 0 /\ w \notin wrote
    /\ reported[key[w]] = seen[w]
    /\ Returns(w)
    /\ pc'[w] = "addAfter"
    /\ UNCHANGED <<reported, inFlight, failures, lost>>

\* The call a reconcile would do next, if it has something to apply or to report.
NextCall(w) ==
    {[key |-> key[w], gen |-> g, call |-> IF w \in wrote THEN "report" ELSE "apply"] :
        g \in {seen[w]} \ {0}}

\* It returns an error, wherever it was: a call failed, or the context it was given is
\* cancelled, as it is while the queue is drained. The call may still happen.
FailReconcile(w) ==
    /\ Returns(w)
    /\ pc'[w] = "addRateLimited"
    /\ IF run = "running"
       THEN failures < MaxFailures /\ failures' = failures + 1
       ELSE UNCHANGED failures
    /\ inFlight' \in {inFlight, inFlight \cup NextCall(w)}
    /\ UNCHANGED <<reported, lost>>

\* It finds a dependency missing, a gate closed, a version that Cincinnati does not
\* know or feedback that is not there yet, and returns neither an error nor a requeue:
\* Sentinel's turn.
WaitForSentinel(w) ==
    /\ seen[w] # 0
    /\ Returns(w)
    /\ pc'[w] = "done"
    /\ failures < MaxFailures /\ failures' = failures + 1
    /\ lost' = lost \cup {k \in {key[w]} : seen[w] >= announced[k]}
    /\ UNCHANGED <<reported, inFlight>>

\* The steps of the worker loop around the reconcile.
LoopAround(w) ==
    /\ ProcWorkerStep(w)
    /\ pc[w] # "reconcile"
    /\ UNCHANGED loopVars

LoopWorker(w) ==
    LoopAround(w) \/ Read(w) \/ Apply(w) \/ Report(w) \/ PassOver(w)
        \/ FailReconcile(w) \/ WaitForSentinel(w)

\* The process is gone; any of the calls it was about to do may be on its way.
LoopRestart ==
    /\ Restart
    /\ seen' = [w \in Worker |-> 0]
    /\ wrote' = {}
    /\ \E sent \in SUBSET Worker : inFlight' = inFlight \cup UNION {NextCall(w) : w \in sent}
    /\ lost' = Key
    /\ UNCHANGED <<worldVars, applied, reported, reached, failures>>

LoopDeliver(c, m) == Deliver(c, m) /\ UNCHANGED loopVars

LoopCallback(c) == CallbackStep(c) /\ UNCHANGED loopVars

LoopTimer(k) == ProcTimer(k) /\ UNCHANGED loopVars

LoopNext ==
    \/ \E k \in Key : Edit(k)
    \/ \E m \in Msg : Announce(m)
    \/ LateCall
    \/ \E c \in Callback, m \in Msg : LoopDeliver(c, m)
    \/ \E c \in Callback : LoopCallback(c)
    \/ ReceiveFails /\ UNCHANGED loopVars
    \/ \E w \in Worker : LoopWorker(w)
    \/ \E k \in Key : LoopTimer(k)
    \/ ProcRun /\ UNCHANGED loopVars
    \/ LoopRestart
    \/ Terminated /\ UNCHANGED loopVars

\* As in AdapterProcess, and Sentinel goes on publishing for what is not
\* reconciled. Nothing forces an edit, a failure, a mishap, a crash or a late call.
LoopFairness ==
    /\ \A k \in Key : WF_allVars(\E m \in Msg : Payload[m] = k /\ Announce(m))
    /\ \A m \in Msg : WF_allVars(\E c \in Callback : LoopDeliver(c, m))
    /\ \A c \in Callback : WF_allVars(LoopCallback(c))
    /\ \A w \in Worker : WF_allVars(LoopWorker(w))
    /\ \A k \in Key : WF_allVars(LoopTimer(k))

LoopSafeSpec == LoopInit /\ [][LoopNext]_allVars

LoopSpec == LoopSafeSpec /\ LoopFairness

-----------------------------------------------------------------------------
(* Properties                                                               *)

\* A worker will still read the key's spec, or has read generation g or later.
Underway(k, g) ==
    \E w \in Worker :
        /\ key[w] = k
        /\ \/ pc[w] = "reconcile" /\ (seen[w] = 0 \/ seen[w] >= g)
           \/ pc[w] \in {"addRateLimited", "addAfter"}

\* The ack comes before the reconcile, events collapse and reconciles fail, but an
\* announced edit that was not applied is never forgotten: its event is with
\* Pub/Sub, its key is in the queue or delayed, or a reconcile that reads the spec
\* late enough is underway. Only a crash, the end of the process, or a reconcile that
\* waits breaks this, until Sentinel announces the resource again. (What a late call
\* puts back after it was applied is EditsAreApplied's subject.)
AnnouncedIsOnItsWay ==
    \A k \in Key \ lost : reached[k] < announced[k] =>
        \/ \E m \in Msg \ acked : Payload[m] = k
        \/ k \in dirty \cup waiting
        \/ Underway(k, announced[k])
        \/ ShuttingDown

\* A reconcile that read an older spec never applies it over a newer one: within a
\* process, reads and writes of one resource do not interleave, and after a restart no
\* reconcile still knows an older spec. What is left is a call that was given up.
AppliedMovesForward == [][\A k \in Key : applied'[k] >= applied[k] \/ LateCall]_allVars

LoopTypeOK ==
    /\ wanted \in [Key -> 1..MaxGeneration]
    /\ applied \in [Key -> 0..MaxGeneration]
    /\ reported \in [Key -> 0..MaxGeneration]
    /\ reached \in [Key -> 0..MaxGeneration]
    /\ announced \in [Key -> 1..MaxGeneration]
    /\ seen \in [Worker -> 0..MaxGeneration]
    /\ wrote \subseteq Worker
    /\ inFlight \subseteq [key : Key, gen : 1..MaxGeneration, call : {"apply", "report"}]
    /\ failures \in 0..MaxFailures
    /\ lost \subseteq Key

\* Nothing is announced or applied that is not wanted, nor will it be.
WantedIsLatest ==
    /\ \A k \in Key : announced[k] <= wanted[k] /\ reached[k] <= wanted[k]
    /\ \A x \in inFlight : x.gen <= wanted[x.key]

\* What is there, and what is reported or will be, was applied.
ReachedIsHighest ==
    /\ \A k \in Key : applied[k] <= reached[k] /\ reported[k] <= reached[k]
    /\ \A x \in inFlight : x.call = "report" => x.gen <= reached[x.key]

\* A worker carries a generation only through a reconcile, and no generation that was
\* applied meanwhile, or may still be by a late call, is newer.
SeenIsCurrent ==
    \A w \in Worker :
        /\ w \in wrote => seen[w] # 0
        /\ seen[w] # 0 =>
              /\ pc[w] = "reconcile"
              /\ reached[key[w]] <= seen[w] /\ seen[w] <= wanted[key[w]]
              /\ w \in wrote => reached[key[w]] = seen[w]
              /\ \A x \in inFlight : x.key = key[w] => x.gen <= seen[w]

\* An event for k that Pub/Sub will still deliver, or that a callback holds and has
\* not handed to the queue. An event that a callback is about to ack is none.
EventPending(k) ==
    \E m \in Msg \ acked :
        /\ Payload[m] = k
        /\ \A c \in Callback : held[c] = m => at[c] = "parse"

\* AnnouncedIsOnItsWay, made inductive: with an event that is still to come, not
\* one that is only still to be acked.
OnItsWay(k) ==
    EventPending(k) \/ k \in dirty \cup waiting \/ Underway(k, announced[k]) \/ ShuttingDown

AnnouncedIsHandled == \A k \in Key \ lost : reached[k] < announced[k] => OnItsWay(k)

\* The inductive invariant of the loop.
LoopInv ==
    /\ ProcInv
    /\ LoopTypeOK
    /\ WantedIsLatest
    /\ ReachedIsHighest
    /\ SeenIsCurrent
    /\ AnnouncedIsHandled

\* With coalescing, lost acks, duplicates, failed and waiting reconciles and crashes: if the
\* process stays up and receives from some time on, every resource's last edit is
\* applied in the end, and stays applied. The one exception is a late call that puts an
\* older spec over the last one after that was applied and reported: Sentinel is silent
\* then.
EditsAreApplied ==
    <>[](receiving /\ run = "running") =>
        \A k \in Key :
            <>[](\/ applied[k] = wanted[k]
                 \/ reported[k] = wanted[k] /\ applied[k] < reached[k])
=============================================================================
