------------------------- MODULE CoalescingExecutor -------------------------
(***************************************************************************)
(* What the README promises of the work queue and its workers, with no     *)
(* queue in sight: requests for a key collapse into one pending request, a *)
(* key is in the hands of at most one worker, nothing requested while the  *)
(* executor is open is dropped, and what was accepted is still served      *)
(* after it closes (README.md, "Kubernetes controller pattern").           *)
(***************************************************************************)
CONSTANTS
    Key,      \* the resource ids that can be requested
    Worker,   \* the goroutines that serve them
    NoKey     \* what a worker holds when it holds no key

VARIABLES
    pending,  \* keys requested since the last time a worker took them
    holding,  \* [Worker -> Key or NoKey], the key each worker is serving
    open      \* FALSE once new requests are refused

execVars == <<pending, holding, open>>

Init ==
    /\ pending = {}
    /\ holding = [w \in Worker |-> NoKey]
    /\ open = TRUE

Request(k) ==
    /\ open
    /\ pending' = pending \cup {k}
    /\ UNCHANGED <<holding, open>>

\* A request that arrives while the key is served stays pending and is served
\* again afterwards; it is never started next to the running one.
Begin(w, k) ==
    /\ k \in pending
    /\ holding[w] = NoKey
    /\ \A v \in Worker : holding[v] # k
    /\ pending' = pending \ {k}
    /\ holding' = [holding EXCEPT ![w] = k]
    /\ UNCHANGED open

End(w) ==
    /\ holding[w] # NoKey
    /\ holding' = [holding EXCEPT ![w] = NoKey]
    /\ UNCHANGED <<pending, open>>

Close ==
    /\ open
    /\ open' = FALSE
    /\ UNCHANGED <<pending, holding>>

Next ==
    \/ \E k \in Key : Request(k)
    \/ \E w \in Worker, k \in Key : Begin(w, k)
    \/ \E w \in Worker : End(w)
    \/ Close

SafeSpec == Init /\ [][Next]_execVars

Spec ==
    /\ SafeSpec
    /\ \A k \in Key : WF_execVars(\E w \in Worker : Begin(w, k))
    /\ \A w \in Worker : WF_execVars(End(w))
=============================================================================
