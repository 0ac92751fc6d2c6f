--------------------------- MODULE HyperFleetClient ---------------------------
(***************************************************************************)
(* doWithRetry (internal/common/hyperfleetapi/client.go), as the status    *)
(* PUTs of one resource use it: up to maxRetryAttempts requests, a backoff *)
(* between them, an end when the context is cancelled. A request that the  *)
(* client has given up on may still reach the API, and an answer may not   *)
(* reach the client.                                                       *)
(***************************************************************************)
EXTENDS Integers, FiniteSets

CONSTANTS
    LastCall,          \* bound: calls
    MaxRetryAttempts   \* maxRetryAttempts

ASSUME ClientAssumption == LastCall \in Nat /\ MaxRetryAttempts \in Nat \ {0}

VARIABLES
    pc,         \* idle, send, wait (in Do or reading the body), backoff
    call,       \* the calls so far; the last one is in progress unless pc is idle
    attempt,
    reply,      \* what has come back for the attempt: none, ok, notFound, rejected, error
    cancelled,  \* the caller's context
    requests,   \* the requests the API has not processed: [call, attempt, body]
    entry,      \* the payload the API stores, the number of its call
    result,     \* [1..LastCall -> what the call returned]
    landed,     \* history: the calls whose payload was stored
    doubtful    \* history: the calls with an attempt that got no answer or a 5xx

clientVars == <<pc, call, attempt, result>>
serverVars == <<entry, landed>>
vars == <<clientVars, reply, cancelled, requests, serverVars, doubtful>>

Call == 1..LastCall

\* The payload of call c; 0 is an empty body.
Request == [call : Call, attempt : 1..MaxRetryAttempts, body : 0..LastCall]

TypeOK ==
    /\ pc \in {"idle", "send", "wait", "backoff"}
    /\ call \in 0..LastCall
    /\ attempt \in 0..MaxRetryAttempts
    /\ reply \in {"none", "ok", "notFound", "rejected", "error"}
    /\ cancelled \in BOOLEAN
    /\ requests \subseteq Request
    /\ entry \in 0..LastCall
    /\ result \in [Call -> {"none", "ok", "notFound", "rejected", "failed", "cancelled"}]
    /\ landed \subseteq 0..LastCall
    /\ doubtful \subseteq Call

Init ==
    /\ pc = "idle" /\ call = 0 /\ attempt = 0 /\ reply = "none"
    /\ cancelled = FALSE
    /\ requests = {}
    /\ entry = 0
    /\ result = [c \in Call |-> "none"]
    /\ landed = {}
    /\ doubtful = {}

-----------------------------------------------------------------------------
(* The client                                                               *)

\* A reconcile gets to its PUT; the reconcile before it has returned.
Begin ==
    /\ pc = "idle"
    /\ call < LastCall
    /\ call' = call + 1
    /\ attempt' = 1
    /\ pc' = "send"
    /\ UNCHANGED <<reply, cancelled, requests, serverVars, result, doubtful>>

\* Mutant of Send: the reader of the body is shared by the attempts, and the
\* first one drains it.
SendDrained ==
    /\ pc = "send"
    /\ ~cancelled
    /\ requests' = requests \cup
          {[call |-> call, attempt |-> attempt, body |-> IF attempt = 1 THEN call ELSE 0]}
    /\ reply' = "none"
    /\ pc' = "wait"
    /\ UNCHANGED <<call, attempt, cancelled, serverVars, result, doubtful>>

\* c.httpClient.Do: the body is read from the marshalled bytes by every attempt.
Send ==
    /\ pc = "send"
    /\ ~cancelled
    /\ requests' = requests \cup {[call |-> call, attempt |-> attempt, body |-> call]}
    /\ reply' = "none"
    /\ pc' = "wait"
    /\ UNCHANGED <<call, attempt, cancelled, serverVars, result, doubtful>>

Return(answer) ==
    /\ result' = [result EXCEPT ![call] = answer]
    /\ pc' = "idle"
    /\ attempt' = 0

\* Mutant of Retry: the attempt is not counted.
RetryUncounted == pc' = "backoff" /\ UNCHANGED <<attempt, result>>

\* The attempt failed: back off, or give up after the last one.
Retry ==
    IF attempt < MaxRetryAttempts
    THEN pc' = "backoff" /\ attempt' = attempt + 1 /\ UNCHANGED result
    ELSE Return("failed")

\* Do or the body's reader returns an error: the connection breaks, the 10 s are
\* over, or the context is cancelled, before or after the request was sent. An
\* answer that was on its way is lost.
NoAnswer ==
    /\ pc = "wait" \/ (pc = "send" /\ cancelled)
    /\ Retry
    /\ doubtful' = IF pc = "wait" THEN doubtful \cup {call} ELSE doubtful
    /\ reply' = "none"
    /\ UNCHANGED <<call, cancelled, requests, serverVars>>

\* Mutant of Answer: every status that is not a success is final.
AnswerAllFinal ==
    /\ pc = "wait"
    /\ reply # "none"
    /\ Return(IF reply = "error" THEN "rejected" ELSE reply)
    /\ reply' = "none"
    /\ UNCHANGED <<call, cancelled, requests, serverVars, doubtful>>

\* Mutant of Answer: a 4xx other than 404 counts as done.
AnswerRejectedIsOK ==
    /\ pc = "wait"
    /\ reply # "none"
    /\ IF reply = "error"
       THEN Retry /\ doubtful' = doubtful \cup {call}
       ELSE Return(IF reply = "rejected" THEN "ok" ELSE reply) /\ UNCHANGED doubtful
    /\ reply' = "none"
    /\ UNCHANGED <<call, cancelled, requests, serverVars>>

\* The answer: 404 and other 4xx are errors at once, a 5xx is retried.
Answer ==
    /\ pc = "wait"
    /\ reply # "none"
    /\ IF reply = "error"
       THEN Retry /\ doubtful' = doubtful \cup {call}
       ELSE Return(reply) /\ UNCHANGED doubtful
    /\ reply' = "none"
    /\ UNCHANGED <<call, cancelled, requests, serverVars>>

\* select: ctx.Done() or time.After(backoff).
Backoff ==
    /\ pc = "backoff"
    /\ IF cancelled
       THEN Return("cancelled")
       ELSE pc' = "send" /\ UNCHANGED <<attempt, result>>
    /\ UNCHANGED <<call, reply, cancelled, requests, serverVars, doubtful>>

ClientStep == Send \/ NoAnswer \/ Answer \/ Backoff

\* The process is told to stop.
Cancel ==
    /\ ~cancelled
    /\ cancelled' = TRUE
    /\ UNCHANGED <<clientVars, reply, requests, serverVars, doubtful>>

-----------------------------------------------------------------------------
(* The API (external)                                                       *)

\* A request is processed. A 2xx has stored the payload, a 4xx has not; a 5xx
\* may come from something in front of the API that gave up on it. The answer
\* matters if the client still waits for it.
Serve(r) ==
    /\ requests' = requests \ {r}
    /\ \E answer \in {"ok", "notFound", "rejected", "error"} :
          /\ \/ /\ answer \in {"ok", "error"}
                /\ entry' = r.body
                /\ landed' = landed \cup {r.body}
             \/ /\ answer # "ok"
                /\ UNCHANGED serverVars
          /\ reply' = IF pc = "wait" /\ r.call = call /\ r.attempt = attempt
                      THEN answer
                      ELSE reply
    /\ UNCHANGED <<clientVars, cancelled, doubtful>>

\* A request is lost on its way.
Drop(r) ==
    /\ requests' = requests \ {r}
    /\ UNCHANGED <<clientVars, reply, cancelled, serverVars, doubtful>>

-----------------------------------------------------------------------------

\* All calls have returned, and nothing is in flight.
Finished == pc = "idle" /\ call = LastCall /\ requests = {} /\ UNCHANGED vars

Next ==
    \/ Begin
    \/ ClientStep
    \/ Cancel
    \/ \E r \in requests : Serve(r) \/ Drop(r)
    \/ Finished

\* The goroutine runs, its timers fire, and a request times out. Nothing makes
\* the API answer.
SafeSpec == Init /\ [][Next]_vars

Spec == SafeSpec /\ WF_vars(ClientStep)

-----------------------------------------------------------------------------
(* Properties                                                               *)

\* The client keeps what StatusPut promises: the attempts not yet made, while
\* the call goes on, and the requests in flight are the copies that may land.
Attempts(c) ==
    IF c # call \/ pc = "idle" THEN 0
    ELSE MaxRetryAttempts - attempt + (IF pc = "wait" THEN 0 ELSE 1)

InFlight(c) == {r \in requests : r.call = c}

Copies == [c \in Call |-> Attempts(c) + Cardinality(InFlight(c))]

Promise == INSTANCE StatusPut WITH copies <- Copies, MaxCopies <- MaxRetryAttempts

ImplementsPut == Promise!SafeSpec

\* A request carries its call's payload, and is older than the next attempt. One
\* whose call is not in doubt is the request the client waits for.
RequestsSound ==
    /\ IsFiniteSet(requests)
    /\ \A r \in requests :
          /\ r.body = r.call /\ r.call <= call
          /\ r.call = call /\ pc = "wait" => r.attempt <= attempt
          /\ r.call = call /\ pc \in {"send", "backoff"} => r.attempt < attempt
          /\ \/ r.call \in doubtful
             \/ r.call = call /\ r.attempt = attempt /\ pc = "wait" /\ reply = "none"

\* A call has its result once it has returned, and "ok" is the answer of an API
\* that has stored the payload.
ResultsSound ==
    /\ pc # "idle" => call > 0 /\ attempt > 0
    /\ \A c \in Call : result[c] = "none" <=> (c > call \/ (c = call /\ pc # "idle"))
    /\ \A c \in Call : result[c] = "ok" => c \in landed
    /\ reply # "none" => pc = "wait"
    /\ reply = "ok" => call \in landed

\* A payload that has landed is that of a call in doubt, of one that returned nil,
\* or of one whose answer the client is about to read.
LandedSound ==
    \A c \in landed :
        /\ 1 <= c /\ c <= call
        /\ \/ c \in doubtful
           \/ result[c] = "ok"
           \/ c = call /\ reply \in {"ok", "error"}

\* Without an earlier call in doubt, the last payload that landed stays.
EntryIsLast == doubtful \cap (1..call - 1) = {} /\ call \in landed => entry = call

\* The inductive invariant of the client.
ClientInv == TypeOK /\ RequestsSound /\ ResultsSound /\ LandedSound /\ EntryIsLast

\* After a call that returned nil the API stores its payload until the next call
\* begins, whatever its own earlier attempts still do: only a call before it that
\* left an attempt in doubt can have an older payload land on top.
LastAnsweredIsStored ==
    pc = "idle" /\ call > 0 /\ result[call] = "ok" /\ doubtful \cap (1..call - 1) = {}
        => entry = call

\* When a 404 or another 4xx is returned and no attempt of the call is in doubt,
\* its payload has not been stored, and will not be.
RefusalIsDefinite ==
    \A c \in Call : result[c] \in {"notFound", "rejected"} /\ c \notin doubtful =>
        c \notin landed /\ InFlight(c) = {}

\* However often attempts fail, the call returns, and its worker is free again.
CallReturns == (pc # "idle") ~> (pc = "idle")
=============================================================================
