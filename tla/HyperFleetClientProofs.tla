------------------------ MODULE HyperFleetClientProofs ------------------------
(***************************************************************************)
(* Proofs about HyperFleetClient, for any number of calls and of attempts: *)
(* what a call that returned nil or was refused stands for, and that the   *)
(* client keeps the promise of StatusPut.                                  *)
(***************************************************************************)
EXTENDS HyperFleetClient, FiniteSetTheorems, TLAPS

(* What the steps need of the types: the numbers they count with.           *)
LEMMA Numbers ==
  ASSUME TypeOK
  PROVE  /\ LastCall \in Nat /\ MaxRetryAttempts \in Nat \ {0}
         /\ call \in Nat /\ attempt \in Nat /\ call <= LastCall /\ attempt <= MaxRetryAttempts
         /\ call > 0 => call \in Call
BY ClientAssumption DEF TypeOK, Call

(* Initially nothing has been called, sent or stored.                       *)
LEMMA InitInv == Init => ClientInv
<1> SUFFICES ASSUME Init PROVE ClientInv
  OBVIOUS
<1> USE DEF Init
<1>1. TypeOK
  <2>1. result \in [Call -> {"none", "ok", "notFound", "rejected", "failed", "cancelled"}]
    OBVIOUS
  <2>2. call \in 0..LastCall /\ attempt \in 0..MaxRetryAttempts /\ entry \in 0..LastCall
    BY ClientAssumption
  <2>3. cancelled \in BOOLEAN
    OBVIOUS
  <2> QED
    BY <2>1, <2>2, <2>3, Zenon DEF TypeOK
<1>2. RequestsSound
  BY FS_EmptySet DEF RequestsSound
<1>3. ResultsSound
  BY ClientAssumption DEF ResultsSound, Call
<1>4. LandedSound /\ EntryIsLast
  BY DEF LandedSound, EntryIsLast
<1> QED
  BY <1>1, <1>2, <1>3, <1>4 DEF ClientInv

-----------------------------------------------------------------------------
(* The client                                                               *)

(* A new call has sent nothing, and every request in flight is an earlier   *)
(* call's.                                                                  *)
LEMMA BeginInv == ASSUME ClientInv, Begin PROVE ClientInv'
<1> USE DEF ClientInv
<1>1. /\ pc = "idle" /\ call < LastCall /\ call' = call + 1 /\ attempt' = 1 /\ pc' = "send"
      /\ UNCHANGED <<reply, cancelled, requests, entry, landed, result, doubtful>>
  BY DEF Begin, serverVars
<1>2. TypeOK'
  BY <1>1, Numbers DEF TypeOK
<1>3. RequestsSound'
  <2> SUFFICES ASSUME NEW r \in requests
               PROVE  /\ r.body = r.call /\ r.call <= call' /\ r.call # call'
                      /\ r.call \in doubtful
    BY <1>1 DEF RequestsSound
  <2>1. r.call \in Nat
    BY DEF TypeOK, Request, Call
  <2> QED
    BY <1>1, <2>1, Numbers DEF RequestsSound
<1>4. ResultsSound'
  BY <1>1, Numbers DEF ResultsSound, Call
<1>5. LandedSound'
  BY <1>1, Numbers DEF LandedSound, ResultsSound, TypeOK
<1>6. EntryIsLast'
  BY <1>1, Numbers DEF EntryIsLast, LandedSound
<1> QED
  BY <1>2, <1>3, <1>4, <1>5, <1>6

(* The request that is sent is the only one whose call need not be in doubt.*)
LEMMA SendInv == ASSUME ClientInv, Send PROVE ClientInv'
<1> USE DEF ClientInv
<1> DEFINE new == [call |-> call, attempt |-> attempt, body |-> call]
<1>1. /\ pc = "send" /\ requests' = requests \cup {new} /\ reply' = "none" /\ pc' = "wait"
      /\ UNCHANGED <<call, attempt, cancelled, entry, landed, result, doubtful>>
  BY DEF Send, serverVars
<1>2. call > 0 /\ attempt > 0
  BY <1>1 DEF ResultsSound
<1>3. new \in Request
  BY <1>2, Numbers DEF Request, Call
<1>4. TypeOK'
  BY <1>1, <1>3 DEF TypeOK
<1>5. RequestsSound'
  <2>1. IsFiniteSet(requests')
    BY <1>1, FS_AddElement DEF RequestsSound
  <2>2. \A r \in requests :
           r.call \in doubtful /\ (r.call = call => r.attempt < attempt) /\ r.attempt \in Nat
    BY <1>1 DEF RequestsSound, TypeOK, Request
  <2> QED
    BY <1>1, <2>1, <2>2, Numbers DEF RequestsSound
<1>6. ResultsSound' /\ LandedSound'
  BY <1>1 DEF ResultsSound, LandedSound
<1>7. EntryIsLast'
  BY <1>1 DEF EntryIsLast
<1> QED
  BY <1>4, <1>5, <1>6, <1>7

(* An attempt that failed leaves its call in doubt if it was sent, and is   *)
(* either repeated or the last one.                                         *)
LEMMA RetryInv ==
  ASSUME ClientInv, Retry, pc = "wait" \/ (pc = "send" /\ UNCHANGED doubtful),
         pc = "wait" => doubtful' = doubtful \cup {call},
         reply' = "none", UNCHANGED <<call, cancelled, requests, serverVars>>
  PROVE  ClientInv'
<1> USE DEF ClientInv, serverVars
<1>1. /\ call > 0 /\ call \in Call /\ attempt > 0
      /\ doubtful \subseteq doubtful' /\ doubtful' \subseteq doubtful \cup {call}
  BY Numbers DEF ResultsSound
<1>2. \A r \in requests : r.call \in doubtful'
  BY DEF RequestsSound
<1>3. /\ \A c \in landed : c \in doubtful' \/ result[c] = "ok"
      /\ result[call] = "none"
  BY <1>1 DEF LandedSound, ResultsSound
<1>4. EntryIsLast'
  BY <1>1 DEF EntryIsLast
<1>5. CASE attempt < MaxRetryAttempts
  <2>1. pc' = "backoff" /\ attempt' = attempt + 1 /\ result' = result
    BY <1>5 DEF Retry
  <2>2. TypeOK'
    BY <1>1, <1>5, <2>1, Numbers DEF TypeOK
  <2>3. RequestsSound'
    <3> SUFFICES ASSUME NEW r \in requests, r.call = call PROVE r.attempt < attempt + 1
      BY <1>2, <2>1 DEF RequestsSound
    <3>1. r.attempt \in Nat
      BY DEF TypeOK, Request
    <3>2. CASE pc = "send"
      BY <3>1, <3>2, Numbers DEF RequestsSound
    <3>3. CASE pc = "wait"
      BY <3>1, <3>3, Numbers DEF RequestsSound
    <3> QED
      BY <3>2, <3>3
  <2>4. ResultsSound'
    BY <1>1, <2>1, Numbers DEF ResultsSound
  <2>5. LandedSound'
    BY <1>3, <2>1 DEF LandedSound
  <2> QED
    BY <1>4, <2>2, <2>3, <2>4, <2>5
<1>6. CASE ~(attempt < MaxRetryAttempts)
  <2>1. pc' = "idle" /\ attempt' = 0 /\ result' = [result EXCEPT ![call] = "failed"]
    BY <1>6 DEF Retry, Return
  <2>2. TypeOK'
    BY <1>1, <2>1, Numbers DEF TypeOK
  <2>3. RequestsSound'
    BY <1>2, <2>1 DEF RequestsSound
  <2>4. ResultsSound'
    BY <1>1, <2>1 DEF ResultsSound, TypeOK
  <2>5. LandedSound'
    <3> SUFFICES ASSUME NEW c \in landed PROVE c \in doubtful' \/ result'[c] = "ok"
      BY DEF LandedSound
    <3> QED
      BY <1>3, <2>1 DEF TypeOK
  <2> QED
    BY <1>4, <2>2, <2>3, <2>4, <2>5
<1> QED
  BY <1>5, <1>6

(* Do fails: with or without a request on its way.                          *)
LEMMA NoAnswerInv == ASSUME ClientInv, NoAnswer PROVE ClientInv'
BY RetryInv DEF NoAnswer

(* A call that returns without being in doubt has no request left, and its  *)
(* payload has landed exactly if it returns nil.                            *)
LEMMA ReturnInv ==
  ASSUME ClientInv, NEW answer \in {"ok", "notFound", "rejected", "failed", "cancelled"},
         pc # "idle", Return(answer), reply' = "none",
         answer = "ok" => call \in landed,
         call \in doubtful \/ answer = "ok" \/ call \notin landed,
         \A r \in requests : r.call \in doubtful,
         UNCHANGED <<call, cancelled, requests, serverVars, doubtful>>
  PROVE  ClientInv'
<1> USE DEF ClientInv, serverVars
<1>1. /\ pc' = "idle" /\ attempt' = 0 /\ result' = [result EXCEPT ![call] = answer]
      /\ call > 0 /\ call \in Call
  BY Numbers DEF Return, ResultsSound
<1>2. TypeOK'
  BY <1>1, Numbers DEF TypeOK
<1>3. RequestsSound'
  BY <1>1 DEF RequestsSound
<1>4. ResultsSound'
  BY <1>1 DEF ResultsSound, TypeOK
<1>5. LandedSound'
  <2> SUFFICES ASSUME NEW c \in landed
               PROVE  c \in doubtful \/ result'[c] = "ok"
    BY DEF LandedSound
  <2>1. c \in Call
    BY Numbers DEF LandedSound, TypeOK, Call
  <2>2. CASE c = call
    BY <1>1, <2>1, <2>2 DEF TypeOK
  <2>3. CASE c # call
    BY <1>1, <2>1, <2>3 DEF LandedSound, TypeOK
  <2> QED
    BY <2>2, <2>3
<1>6. EntryIsLast'
  BY DEF EntryIsLast
<1> QED
  BY <1>2, <1>3, <1>4, <1>5, <1>6

(* The answer of the API ends the call, or is a 5xx.                        *)
LEMMA AnswerInv == ASSUME ClientInv, Answer PROVE ClientInv'
<1>1. CASE reply = "error"
  BY <1>1, RetryInv DEF Answer
<1>2. CASE reply # "error"
  <2>1. /\ pc = "wait" /\ reply \in {"ok", "notFound", "rejected"} /\ Return(reply)
        /\ reply' = "none"
        /\ UNCHANGED <<call, cancelled, requests, serverVars, doubtful>>
    BY <1>2 DEF Answer, ClientInv, TypeOK
  <2>2. /\ reply = "ok" => call \in landed
        /\ \A r \in requests : r.call \in doubtful
    BY <2>1 DEF ClientInv, ResultsSound, RequestsSound
  <2>3. call \in doubtful \/ reply = "ok" \/ call \notin landed
    BY <2>1, Numbers DEF ClientInv, LandedSound, ResultsSound
  <2> QED
    BY <2>1, <2>2, <2>3, ReturnInv
<1> QED
  BY <1>1, <1>2

(* A backoff is over, or the context is.                                    *)
LEMMA BackoffInv == ASSUME ClientInv, Backoff PROVE ClientInv'
<1>1. /\ pc = "backoff" /\ reply = "none"
      /\ UNCHANGED <<call, reply, cancelled, requests, serverVars, doubtful>>
  BY DEF Backoff, ClientInv, ResultsSound
<1>2. CASE cancelled
  <2>1. Return("cancelled")
    BY <1>2 DEF Backoff
  <2>2. \A r \in requests : r.call \in doubtful
    BY <1>1 DEF ClientInv, RequestsSound
  <2>3. call \in doubtful \/ call \notin landed
    BY <1>1, Numbers DEF ClientInv, LandedSound, ResultsSound
  <2> QED
    BY <1>1, <2>1, <2>2, <2>3, ReturnInv
<1>3. CASE ~cancelled
  <2>1. pc' = "send" /\ UNCHANGED <<attempt, result>>
    BY <1>3 DEF Backoff
  <2> QED
    BY <1>1, <2>1
    DEF ClientInv, TypeOK, RequestsSound, ResultsSound, LandedSound, EntryIsLast, serverVars
<1> QED
  BY <1>2, <1>3

-----------------------------------------------------------------------------
(* The API                                                                  *)

(* The request whose answer the client still waits for is the only one that *)
(* can put a call out of doubt; a late one lands under a call in doubt.     *)
LEMMA ServeInv == ASSUME ClientInv, NEW r \in requests, Serve(r) PROVE ClientInv'
<1> USE DEF ClientInv
<1> DEFINE waited == pc = "wait" /\ r.call = call /\ r.attempt = attempt
<1>1. PICK answer \in {"ok", "notFound", "rejected", "error"} :
         /\ \/ /\ answer \in {"ok", "error"}
               /\ entry' = r.body
               /\ landed' = landed \cup {r.body}
            \/ /\ answer # "ok"
               /\ UNCHANGED serverVars
         /\ reply' = IF waited THEN answer ELSE reply
  BY DEF Serve
<1>2. requests' = requests \ {r} /\ UNCHANGED <<pc, call, attempt, result, cancelled, doubtful>>
  BY DEF Serve, clientVars
<1>3. /\ r \in Request /\ r.call \in Nat /\ r.call >= 1 /\ r.call <= call /\ r.body = r.call
      /\ r.call \in Call
      /\ r.call \in doubtful \/ (waited /\ reply = "none")
  BY Numbers DEF RequestsSound, TypeOK, Request, Call
<1>4. \/ entry' = entry /\ landed' = landed
      \/ entry' = r.call /\ landed' = landed \cup {r.call}
  BY <1>1, <1>3 DEF serverVars
<1>5. TypeOK'
  <2>1. r.call \in 0..LastCall /\ reply' \in {"none", "ok", "notFound", "rejected", "error"}
    BY <1>1, <1>3 DEF TypeOK, Call
  <2> QED
    BY <1>2, <1>4, <2>1 DEF TypeOK
<1>6. RequestsSound'
  <2>1. IsFiniteSet(requests')
    BY <1>2, FS_Subset DEF RequestsSound
  <2>2. ASSUME NEW x \in requests', x.call \notin doubtful PROVE reply' = "none"
    <3>1. x.call = call /\ x.attempt = attempt /\ x.body = x.call /\ reply = "none"
      BY <1>2, <2>2 DEF RequestsSound
    <3>2. ~waited
      <4> SUFFICES ASSUME waited PROVE x = r
        BY <1>2
      <4> QED
        BY <1>2, <1>3, <3>1 DEF TypeOK, Request
    <3> QED
      BY <1>1, <3>1, <3>2
  <2> QED
    BY <1>2, <2>1, <2>2 DEF RequestsSound
<1>7. ResultsSound'
  <2>1. reply' # "none" => pc = "wait"
    BY <1>1 DEF ResultsSound
  <2>2. reply' = "ok" => call \in landed'
    BY <1>1, <1>3, <1>4 DEF ResultsSound, serverVars
  <2> QED
    BY <1>2, <1>4, <2>1, <2>2 DEF ResultsSound
<1>8. LandedSound'
  <2> SUFFICES ASSUME NEW c \in landed'
               PROVE  /\ 1 <= c /\ c <= call
                      /\ \/ c \in doubtful
                         \/ result[c] = "ok"
                         \/ c = call /\ reply' \in {"ok", "error"}
    BY <1>2 DEF LandedSound
  <2>1. CASE c \in landed
    <3>1. CASE c \in doubtful \/ result[c] = "ok"
      BY <2>1, <3>1 DEF LandedSound
    <3>2. CASE ~(c \in doubtful \/ result[c] = "ok")
      <4>1. 1 <= c /\ c <= call /\ c = call /\ reply \in {"ok", "error"}
        BY <2>1, <3>2 DEF LandedSound
      <4>2. ~waited
        BY <1>3, <3>2, <4>1
      <4> QED
        BY <1>1, <4>1, <4>2
    <3> QED
      BY <3>1, <3>2
  <2>2. CASE c \notin landed
    <3>1. c = r.call
      BY <1>4, <2>2
    <3>2. CASE r.call \in doubtful
      BY <1>3, <3>1, <3>2
    <3>3. CASE waited
      <4>1. answer \in {"ok", "error"}
        BY <1>1, <2>2 DEF serverVars
      <4> QED
        BY <1>1, <1>3, <3>1, <3>3, <4>1
    <3> QED
      BY <1>3, <3>2, <3>3
  <2> QED
    BY <2>1, <2>2
<1>9. EntryIsLast'
  <2> SUFFICES ASSUME doubtful \cap (1..call - 1) = {}, call \in landed' PROVE entry' = call
    BY <1>2 DEF EntryIsLast
  <2>1. r.call = call
    <3>1. CASE r.call \in doubtful
      BY <1>3, <3>1, Numbers
    <3>2. CASE waited
      BY <3>2
    <3> QED
      BY <1>3, <3>1, <3>2
  <2> QED
    BY <1>4, <2>1 DEF EntryIsLast
<1> QED
  BY <1>5, <1>6, <1>7, <1>8, <1>9

(* A request that is lost leaves the client waiting.                        *)
LEMMA DropInv == ASSUME ClientInv, NEW r \in requests, Drop(r) PROVE ClientInv'
<1> USE DEF ClientInv, Drop, clientVars, serverVars
<1>1. TypeOK'
  BY DEF TypeOK
<1>2. RequestsSound'
  BY FS_Subset DEF RequestsSound
<1>3. ResultsSound' /\ LandedSound' /\ EntryIsLast'
  BY DEF ResultsSound, LandedSound, EntryIsLast
<1> QED
  BY <1>1, <1>2, <1>3

(* The invariant is inductive: one case per disjunct of Next.               *)
LEMMA NextInv == ClientInv /\ [Next]_vars => ClientInv'
<1> SUFFICES ASSUME ClientInv, [Next]_vars PROVE ClientInv'
  OBVIOUS
<1>1. CASE Begin
  BY <1>1, BeginInv
<1>2. CASE ClientStep
  BY <1>2, SendInv, NoAnswerInv, AnswerInv, BackoffInv DEF ClientStep
<1>3. CASE Cancel
  BY <1>3
  DEF Cancel, clientVars, serverVars, ClientInv, TypeOK, RequestsSound, ResultsSound,
      LandedSound, EntryIsLast
<1>4. ASSUME NEW r \in requests, Serve(r) \/ Drop(r) PROVE ClientInv'
  BY <1>4, ServeInv, DropInv
<1>5. CASE Finished \/ UNCHANGED vars
  BY <1>5
  DEF Finished, vars, clientVars, serverVars, ClientInv, TypeOK, RequestsSound, ResultsSound,
      LandedSound, EntryIsLast
<1> QED
  BY <1>1, <1>2, <1>3, <1>4, <1>5 DEF Next

-----------------------------------------------------------------------------
(* Types, the bookkeeping of requests and answers, and what is stored, in   *)
(* every state of the client and the API.                                   *)
THEOREM ClientInvariantHolds == Spec => []ClientInv
BY InitInv, NextInv, PTL DEF Spec, SafeSpec

(* A PUT that returned nil is what the API stores until the next call       *)
(* begins, however requests are retried, late or lost: only a call before   *)
(* it that is in doubt can overwrite it.                                    *)
THEOREM AnsweredStays == Spec => []LastAnsweredIsStored
<1>1. ClientInv => LastAnsweredIsStored
  <2> SUFFICES ASSUME ClientInv, call > 0, result[call] = "ok",
                      doubtful \cap (1..call - 1) = {}
               PROVE  entry = call
    BY DEF LastAnsweredIsStored
  <2>1. call \in landed
    BY Numbers DEF ClientInv, ResultsSound
  <2> QED
    BY <2>1 DEF ClientInv, EntryIsLast
<1> QED
  BY <1>1, ClientInvariantHolds, PTL

(* A call that was refused, with no attempt in doubt, has not stored its    *)
(* payload and will not: no request of it is in flight.                     *)
THEOREM RefusedStaysOut == Spec => []RefusalIsDefinite
<1>1. ClientInv => RefusalIsDefinite
  <2> SUFFICES ASSUME ClientInv, NEW c \in Call,
                      result[c] \in {"notFound", "rejected"}, c \notin doubtful
               PROVE  c \notin landed /\ InFlight(c) = {}
    BY DEF RefusalIsDefinite
  <2>1. ~(c = call /\ pc # "idle")
    BY DEF ClientInv, ResultsSound
  <2>2. c \notin landed
    BY <2>1 DEF ClientInv, LandedSound, ResultsSound
  <2>3. InFlight(c) = {}
    BY <2>1 DEF ClientInv, RequestsSound, InFlight
  <2> QED
    BY <2>2, <2>3
<1> QED
  BY <1>1, ClientInvariantHolds, PTL

-----------------------------------------------------------------------------
(* The client implements StatusPut                                          *)

(* How many copies of a payload can still land is a natural number.         *)
LEMMA CopiesAre ==
  ASSUME ClientInv, NEW c \in Call
  PROVE  /\ Attempts(c) \in Nat
         /\ IsFiniteSet(InFlight(c)) /\ Cardinality(InFlight(c)) \in Nat
         /\ Copies[c] = Attempts(c) + Cardinality(InFlight(c))
<1>1. Attempts(c) \in Nat
  BY Numbers DEF ClientInv, Attempts
<1>2. IsFiniteSet(InFlight(c))
  BY FS_Subset DEF ClientInv, RequestsSound, InFlight
<1> QED
  BY <1>1, <1>2, FS_CardinalityType DEF Copies

(* Another call's copies do not change when the call goes on.               *)
LEMMA OthersKeepCopies ==
  ASSUME NEW c \in Call, c # call, UNCHANGED call, InFlight(c)' = InFlight(c)
  PROVE  Copies'[c] = Copies[c]
BY DEF Copies, Attempts

(* A request that is served or lost spends one copy of its call's payload.  *)
LEMMA RequestSpends ==
  ASSUME ClientInv, ClientInv', NEW r \in requests, requests' = requests \ {r},
         UNCHANGED <<pc, call, attempt>>
  PROVE  r.call \in Call /\ Promise!Spend(r.call)
<1> DEFINE c == r.call
<1>1. c \in Call
  BY DEF ClientInv, TypeOK, Request
<1>2. r \in InFlight(c) /\ InFlight(c)' = InFlight(c) \ {r}
  BY DEF InFlight
<1>3. \A d \in Call : Attempts(d)' = Attempts(d)
  BY DEF Attempts
<1>4. /\ Cardinality(InFlight(c)') = Cardinality(InFlight(c)) - 1
      /\ Cardinality(InFlight(c)') \in Nat
  BY <1>1, <1>2, CopiesAre, FS_RemoveElement, FS_CardinalityType
<1>5. Copies[c] > 0 /\ Copies'[c] = Copies[c] - 1
  BY <1>1, <1>3, <1>4, CopiesAre DEF Copies
<1>6. \A d \in Call : d # c => Copies'[d] = Copies[d]
  <2> SUFFICES ASSUME NEW d \in Call, d # c PROVE Copies'[d] = Copies[d]
    OBVIOUS
  <2>1. InFlight(d)' = InFlight(d)
    BY DEF InFlight
  <2> QED
    BY <1>3, <2>1 DEF Copies
<1>7. Copies' = [Copies EXCEPT ![c] = @ - 1]
  BY <1>1, <1>5, <1>6 DEF Copies
<1> QED
  BY <1>1, <1>5, <1>7 DEF Promise!Spend

(* A call that returns gives up the attempts it has not made.               *)
LEMMA ReturnKeeps ==
  ASSUME ClientInv, NEW answer \in {"ok", "notFound", "rejected", "failed", "cancelled"},
         pc # "idle", Return(answer), answer = "ok" => call \in landed,
         UNCHANGED <<call, requests, serverVars>>
  PROVE  call \in Call /\ Promise!Return(call, answer)
<1>1. call \in Call /\ result[call] = "none"
  BY Numbers DEF ClientInv, ResultsSound
<1>2. /\ pc' = "idle" /\ result' = [result EXCEPT ![call] = answer]
      /\ \A c \in Call : InFlight(c)' = InFlight(c)
  BY DEF Return, InFlight
<1>3. Copies'[call] = Cardinality(InFlight(call)) /\ Copies'[call] \in 0..Copies[call]
  <2>1. Attempts(call)' = 0
    BY <1>2 DEF Attempts
  <2>2. Copies'[call] = 0 + Cardinality(InFlight(call))
    BY <1>1, <1>2, <2>1 DEF Copies
  <2> QED
    BY <1>1, <2>2, CopiesAre
<1>4. Copies' = [Copies EXCEPT ![call] = Copies'[call]]
  BY <1>1, <1>2, OthersKeepCopies DEF Copies
<1> QED
  BY <1>1, <1>2, <1>3, <1>4 DEF Promise!Return, serverVars

(* Every step of the client and of the API is a step of StatusPut, or       *)
(* leaves what it shows unchanged.                                          *)
LEMMA StepKeepsPromise ==
  ClientInv /\ ClientInv' /\ [Next]_vars => [Promise!Next]_Promise!vars
<1> SUFFICES ASSUME ClientInv, ClientInv', [Next]_vars
             PROVE  Promise!Next \/ UNCHANGED Promise!vars
  OBVIOUS
<1>1. CASE Begin
  <2>1. /\ pc = "idle" /\ call < LastCall /\ call' = call + 1 /\ attempt' = 1
        /\ pc' = "send" /\ UNCHANGED <<requests, entry, landed, result>>
    BY <1>1 DEF Begin, serverVars
  <2>2. call + 1 \in Call /\ \A c \in Call : InFlight(c)' = InFlight(c)
    BY <2>1, Numbers DEF ClientInv, Call, InFlight
  <2>3. InFlight(call + 1) = {}
    <3> SUFFICES ASSUME NEW r \in requests PROVE r.call # call + 1
      BY DEF InFlight
    <3>1. r.call \in Nat /\ r.call <= call
      BY DEF ClientInv, TypeOK, RequestsSound, Request, Call
    <3> QED
      BY <3>1, Numbers DEF ClientInv
  <2>4. Copies'[call + 1] = MaxRetryAttempts
    BY <2>1, <2>2, <2>3, FS_EmptySet, Numbers DEF ClientInv, Copies, Attempts
  <2>5. \A c \in Call : c # call + 1 => Copies'[c] = Copies[c]
    BY <2>1, <2>2 DEF Copies, Attempts
  <2>6. Copies' = [Copies EXCEPT ![call + 1] = MaxRetryAttempts]
    BY <2>2, <2>4, <2>5 DEF Copies
  <2>7. call > 0 => result[call] # "none"
    BY <2>1, Numbers DEF ClientInv, ResultsSound
  <2> QED
    BY <2>1, <2>6, <2>7 DEF Promise!Begin, Promise!Next
<1>2. CASE Send
  <2> DEFINE new == [call |-> call, attempt |-> attempt, body |-> call]
  <2>1. /\ pc = "send" /\ pc' = "wait" /\ requests' = requests \cup {new}
        /\ UNCHANGED <<call, attempt, entry, landed, result>>
    BY <1>2 DEF Send, serverVars
  <2>2. call \in Call
    BY <2>1, Numbers DEF ClientInv, ResultsSound
  <2>3. new \notin InFlight(call) /\ InFlight(call)' = InFlight(call) \cup {new}
    <3>1. new \notin requests
      BY <2>1, Numbers DEF ClientInv, RequestsSound
    <3> QED
      BY <2>1, <3>1 DEF InFlight
  <2>4. Cardinality(InFlight(call)') = Cardinality(InFlight(call)) + 1
    BY <2>2, <2>3, CopiesAre, FS_AddElement
  <2>5. Attempts(call) = Attempts(call)' + 1 /\ Attempts(call)' \in Nat
    BY <2>1, Numbers DEF ClientInv, Attempts
  <2>6. Copies'[call] = Copies[call]
    BY <2>1, <2>2, <2>4, <2>5, CopiesAre DEF Copies
  <2>7. \A c \in Call : c # call => Copies'[c] = Copies[c]
    <3> SUFFICES ASSUME NEW c \in Call, c # call PROVE InFlight(c)' = InFlight(c)
      BY <2>1, OthersKeepCopies
    <3> QED
      BY <2>1 DEF InFlight
  <2>8. Copies' = Copies
    BY <2>6, <2>7 DEF Copies
  <2> QED
    BY <2>1, <2>8 DEF Promise!vars
<1>3. CASE (pc = "wait" \/ (pc = "send" /\ cancelled)) /\ Retry
           /\ UNCHANGED <<call, requests, serverVars>>
  <2>1. call \in Call
    BY <1>3, Numbers DEF ClientInv, ResultsSound
  <2>2. CASE attempt < MaxRetryAttempts
    <3>1. pc' = "backoff" /\ attempt' = attempt + 1 /\ UNCHANGED <<result, entry, landed>>
      BY <1>3, <2>2 DEF Retry, serverVars
    <3>2. \A c \in Call : InFlight(c)' = InFlight(c)
      BY <1>3 DEF InFlight
    <3>3. \A c \in Call : c # call => Copies'[c] = Copies[c]
      BY <1>3, <3>2, OthersKeepCopies
    <3>4. CASE pc = "wait"
      <4>1. Attempts(call)' = Attempts(call)
        BY <1>3, <3>1, <3>4, Numbers DEF ClientInv, Attempts
      <4>2. Copies' = Copies
        BY <1>3, <2>1, <3>2, <3>3, <4>1 DEF Copies
      <4> QED
        BY <1>3, <3>1, <4>2 DEF Promise!vars
    <3>5. CASE pc = "send"
      <4>1. Attempts(call) = Attempts(call)' + 1 /\ Attempts(call)' \in Nat
        BY <1>3, <2>2, <3>1, <3>5, Numbers DEF ClientInv, Attempts
      <4>2. Copies'[call] = Copies[call] - 1 /\ Copies[call] > 0
        BY <1>3, <2>1, <3>2, <4>1, CopiesAre DEF Copies
      <4>3. Copies' = [Copies EXCEPT ![call] = @ - 1]
        BY <2>1, <3>3, <4>2 DEF Copies
      <4>4. Promise!Lose(call)
        BY <1>3, <3>1, <4>2, <4>3 DEF Promise!Lose, Promise!Spend
      <4> QED
        BY <2>1, <4>4 DEF Promise!Next, Call
    <3> QED
      BY <1>3, <3>4, <3>5
  <2>3. CASE ~(attempt < MaxRetryAttempts)
    <3>1. Promise!Return(call, "failed")
      BY <1>3, <2>3, ReturnKeeps DEF Retry
    <3> QED
      BY <2>1, <3>1 DEF Promise!Next, Promise!Result, Call
  <2> QED
    BY <2>2, <2>3
<1>4. CASE NoAnswer
  BY <1>3, <1>4 DEF NoAnswer
<1>5. CASE Answer
  <2>1. CASE reply = "error"
    BY <1>3, <1>5, <2>1 DEF Answer
  <2>2. CASE reply # "error"
    <3>1. /\ pc = "wait" /\ reply \in {"ok", "notFound", "rejected"} /\ Return(reply)
          /\ UNCHANGED <<call, requests, serverVars>>
          /\ reply = "ok" => call \in landed
      BY <1>5, <2>2 DEF Answer, ClientInv, TypeOK, ResultsSound
    <3>2. call \in Call /\ Promise!Return(call, reply)
      BY <3>1, ReturnKeeps
    <3> QED
      BY <3>1, <3>2 DEF Promise!Next, Promise!Result, Call
  <2> QED
    BY <2>1, <2>2
<1>6. CASE Backoff
  <2>1. CASE cancelled
    <3>1. call \in Call /\ Promise!Return(call, "cancelled")
      BY <1>6, <2>1, ReturnKeeps DEF Backoff
    <3> QED
      BY <3>1 DEF Promise!Next, Promise!Result, Call
  <2>2. CASE ~cancelled
    <3>1. /\ pc = "backoff" /\ pc' = "send"
          /\ UNCHANGED <<attempt, result, call, requests, entry, landed>>
      BY <1>6, <2>2 DEF Backoff, serverVars
    <3>2. Copies' = Copies
      BY <3>1 DEF Copies, Attempts, InFlight
    <3> QED
      BY <3>1, <3>2 DEF Promise!vars
  <2> QED
    BY <2>1, <2>2
<1>7. CASE Cancel \/ Finished \/ UNCHANGED vars
  <2>1. UNCHANGED <<pc, call, attempt, result, requests, entry, landed>>
    BY <1>7 DEF Cancel, Finished, vars, clientVars, serverVars
  <2>2. Copies' = Copies
    BY <2>1 DEF Copies, Attempts, InFlight
  <2> QED
    BY <2>1, <2>2 DEF Promise!vars
<1>8. ASSUME NEW r \in requests, Serve(r) PROVE Promise!Next
  <2>1. requests' = requests \ {r} /\ UNCHANGED <<pc, call, attempt, result>>
    BY <1>8 DEF Serve, clientVars
  <2>2. r.call \in Call /\ Promise!Spend(r.call) /\ r.body = r.call
    BY <2>1, RequestSpends DEF ClientInv, RequestsSound
  <2>3. \/ entry' = r.call /\ landed' = landed \cup {r.call}
        \/ UNCHANGED <<entry, landed>>
    BY <1>8, <2>2 DEF Serve, serverVars
  <2>4. Promise!Land(r.call) \/ Promise!Lose(r.call)
    BY <2>1, <2>2, <2>3 DEF Promise!Land, Promise!Lose
  <2> QED
    BY <2>2, <2>4 DEF Promise!Next, Call
<1>9. ASSUME NEW r \in requests, Drop(r) PROVE Promise!Next
  <2>1. requests' = requests \ {r} /\ UNCHANGED <<pc, call, attempt, result, entry, landed>>
    BY <1>9 DEF Drop, clientVars, serverVars
  <2>2. r.call \in Call /\ Promise!Spend(r.call)
    BY <2>1, RequestSpends
  <2>3. Promise!Lose(r.call)
    BY <2>1, <2>2 DEF Promise!Lose
  <2> QED
    BY <2>2, <2>3 DEF Promise!Next, Call
<1> QED
  BY <1>1, <1>2, <1>4, <1>5, <1>6, <1>7, <1>8, <1>9 DEF Next, ClientStep

(* doWithRetry keeps what a caller of a status PUT may rely on: at most     *)
(* maxRetryAttempts copies of a payload can land, the calls return one      *)
(* after another, and nil means that the payload has landed.                *)
THEOREM ClientImplementsPut == Spec => ImplementsPut
<1>1. Init => Promise!Init
  <2> SUFFICES ASSUME Init PROVE Promise!Init
    OBVIOUS
  <2>1. \A c \in Call : InFlight(c) = {} /\ Attempts(c) = 0
    BY DEF Init, InFlight, Attempts
  <2>2. Copies = [c \in 1..LastCall |-> 0]
    BY <2>1, FS_EmptySet DEF Copies, Call
  <2> QED
    BY <2>2 DEF Init, Promise!Init, Call
<1> QED
  BY <1>1, StepKeepsPromise, ClientInvariantHolds, PTL
  DEF Spec, SafeSpec, ImplementsPut, Promise!SafeSpec
=============================================================================
