------------------------------ MODULE StatusPut ------------------------------
(***************************************************************************)
(* What a caller of PutClusterStatus may rely on, and no more: the payload *)
(* of a call lands in its entry a bounded number of times, any of them     *)
(* possibly after the call has returned; a call that returns nil has       *)
(* landed; one that returns an error may have. Calls for one entry come    *)
(* one after another (WorkQueue), and are numbered in that order.          *)
(***************************************************************************)
EXTENDS Naturals

CONSTANTS
    LastCall,   \* bound: calls
    MaxCopies   \* how often one call's payload can land

VARIABLES
    entry,    \* the call whose payload is stored; 0: none
    call,     \* the last call that began
    copies,   \* [1..LastCall -> how often the payload can still land]
    landed,   \* the calls that have landed
    result    \* [1..LastCall -> Result]

vars == <<entry, call, copies, landed, result>>

Result == {"none", "ok", "notFound", "rejected", "failed", "cancelled"}

Init ==
    /\ entry = 0
    /\ call = 0
    /\ copies = [c \in 1..LastCall |-> 0]
    /\ landed = {}
    /\ result = [c \in 1..LastCall |-> "none"]

Begin ==
    /\ call < LastCall
    /\ call > 0 => result[call] # "none"
    /\ call' = call + 1
    /\ copies' = [copies EXCEPT ![call + 1] = MaxCopies]
    /\ UNCHANGED <<entry, landed, result>>

\* One copy of c's payload lands, or turns out not to.
Spend(c) == copies[c] > 0 /\ copies' = [copies EXCEPT ![c] = @ - 1]

Land(c) ==
    /\ Spend(c)
    /\ entry' = c
    /\ landed' = landed \cup {c}
    /\ UNCHANGED <<call, result>>

Lose(c) == Spend(c) /\ UNCHANGED <<entry, call, landed, result>>

\* The call returns; what it did not send does not land any more.
Return(c, answer) ==
    /\ call = c
    /\ result[c] = "none"
    /\ answer = "ok" => c \in landed
    /\ result' = [result EXCEPT ![c] = answer]
    /\ \E n \in 0..copies[c] : copies' = [copies EXCEPT ![c] = n]
    /\ UNCHANGED <<entry, call, landed>>

Next ==
    \/ Begin
    \/ \E c \in 1..LastCall :
          Land(c) \/ Lose(c) \/ \E answer \in Result \ {"none"} : Return(c, answer)

SafeSpec == Init /\ [][Next]_vars
=============================================================================
