------------------------- MODULE ManifestWorksProofs -------------------------
(***************************************************************************)
(* Proofs about ManifestWorks, for every set of callers and ManifestWorks: *)
(* what Maestro has under a generation is that generation's, and an apply  *)
(* or delete that succeeded was true at some moment of its call.           *)
(***************************************************************************)
EXTENDS ManifestWorks, TLAPS

Stage == {"idle", "get", "create", "patch", "delete"}

Outcome == {"none", "create", "skip", "update", "deleted", "error"}

CallType == [at : Stage, request : Request, result : Outcome]

(* The part of the type invariant that is about what Maestro has. *)
StoreOK ==
    store # NoWork =>
        /\ store.generation \in Annotation
        /\ \A i \in DOMAIN store.manifests : ValidGeneration(store.manifests[i].generation)

-----------------------------------------------------------------------------
(* What single operations do                                                *)

(* A request is a delete, or the apply of one of the ManifestWorks. *)
LEMMA RequestKinds ==
  ASSUME NEW r \in Request
  PROVE  /\ r.op \in {"apply", "delete"}
         /\ r.op = "apply" => r.work \in Work
         /\ r.op = "delete" => r = Delete
BY DEF Request, Delete

(* A patch replaces the generation, the manifests unless the new ManifestWork has *)
(* none, and the labels the new one names.                                   *)
LEMMA PatchReplaces ==
  ASSUME NEW old, NEW w
  PROVE  /\ Patched(old, w) # NoWork
         /\ Patched(old, w).generation = w.generation
         /\ w.manifests # <<>> => Patched(old, w).manifests = w.manifests
         /\ w.manifests = <<>> => Patched(old, w).manifests = old.manifests
         /\ \A k \in DOMAIN w.labels :
               k \in DOMAIN Patched(old, w).labels /\ Patched(old, w).labels[k] = w.labels[k]
<1> DEFINE none == <<>>
           labels == IF DOMAIN w.labels = {} THEN none ELSE Merged(old.labels, w.labels)
           manifests == IF w.manifests = none THEN old.manifests ELSE w.manifests
<1> HIDE DEF none
<1>1. Patched(old, w) = [generation |-> w.generation, manifests |-> manifests, labels |-> labels]
  BY DEF Patched, none
<1>2. \A k \in DOMAIN w.labels : k \in DOMAIN labels /\ labels[k] = w.labels[k]
  BY DEF Merged
<1> HIDE DEF labels
<1>3. Patched(old, w) # NoWork
  BY <1>1 DEF NoWork
<1> QED
  BY <1>1, <1>2, <1>3 DEF none

(* A ManifestWork with the generation and the labels of a valid one of Work, and   *)
(* with its manifests or, if it has none, those of another valid one, leaves       *)
(* Maestro sound.                                                            *)
LEMMA MatchingIsSound ==
  ASSUME NEW w \in Work, ValidWork(w), NEW v \in Work, ValidWork(v),
         store'.generation = w.generation,
         w.manifests # <<>> => store'.manifests = w.manifests,
         \A k \in DOMAIN w.labels : k \in DOMAIN store'.labels /\ store'.labels[k] = w.labels[k],
         store'.manifests = v.manifests
  PROVE  StoreOK' /\ NoMixture'
<1>1. StoreOK'
  BY WorkAssumption DEF StoreOK, ValidWork
<1>2. NoMixture'
  BY DEF NoMixture, Labelled
<1> QED
  BY <1>1, <1>2

(* A write that has its effect leaves Maestro sound, and makes the wish of the  *)
(* one who asked for it reality.                                             *)
LEMMA EffectIsSound ==
  ASSUME WorksInv, NEW x, x.request \in Request, AsAsked(x),
         x.at \in {"create", "patch", "delete"},
         Possible(x), store' = Effect(x)
  PROVE  StoreOK' /\ NoMixture' /\ Wish(x.request, store')
<1>1. CASE x.at = "delete"
  BY <1>1 DEF AsAsked, Delete, Effect, StoreOK, NoMixture, Wish
<1>2. CASE x.at = "create"
  <2>1. x.request.op = "apply" /\ x.request.work \in Work /\ ValidWork(x.request.work)
    BY <1>2, RequestKinds DEF AsAsked
  <2>2. store' = x.request.work
    BY <1>2 DEF Effect
  <2>3. store' # NoWork
    BY <2>1, <2>2, WorkAssumption
  <2>4. StoreOK' /\ NoMixture'
    BY <2>1, <2>2, MatchingIsSound
  <2> QED
    BY <2>1, <2>2, <2>3, <2>4 DEF Wish
<1>3. CASE x.at = "patch"
  <2>1. x.request.op = "apply" /\ x.request.work \in Work /\ ValidWork(x.request.work)
    BY <1>3, RequestKinds DEF AsAsked
  <2>2. store' = Patched(store, x.request.work) /\ store # NoWork
    BY <1>3 DEF Effect, Possible
  <2>3. PICK v \in Work : ValidWork(v) /\ store.manifests = v.manifests
    BY <2>2 DEF WorksInv, NoMixture
  <2>4. \E u \in Work : ValidWork(u) /\ store'.manifests = u.manifests
    BY <2>1, <2>2, <2>3, PatchReplaces
  <2>5. StoreOK' /\ NoMixture'
    BY <2>1, <2>2, <2>4, MatchingIsSound, PatchReplaces
  <2>6. store' # NoWork
    BY <2>2, PatchReplaces
  <2> QED
    BY <2>1, <2>2, <2>5, <2>6, PatchReplaces DEF Wish
<1> QED
  BY <1>1, <1>2, <1>3

(* Where nothing is written, Maestro stays sound. *)
LEMMA SameStoreIsSound ==
  ASSUME WorksInv, store' = store
  PROVE  StoreOK' /\ NoMixture'
BY DEF WorksInv, WorksTypeOK, StoreOK, NoMixture, Labelled

(* The history variable keeps its type. *)
LEMMA WatchTyped ==
  ASSUME WorksInv, Watch
  PROVE  met' \in [Caller -> BOOLEAN]
BY DEF Watch, WorksInv, WorksTypeOK, Wish, NoWork

(* A call that ends, or goes on, or begins keeps the calls well-typed. *)
LEMMA CallsTyped ==
  ASSUME WorksInv, NEW c \in Caller, NEW x \in CallType, AsAsked(x),
         call' = [call EXCEPT ![c] = x]
  PROVE  call' \in [Caller -> CallType] /\ \A d \in Caller : AsAsked(call'[d])
BY DEF WorksInv, WorksTypeOK, CallType, Stage, Outcome

(* The invariant from its parts. *)
LEMMA InvFromParts ==
  ASSUME StoreOK', NoMixture',
         call' \in [Caller -> CallType], \A c \in Caller : AsAsked(call'[c]),
         late' \subseteq [at : {"create", "patch", "delete"}, request : Request],
         \A x \in late' : AsAsked(x),
         met' \in [Caller -> BOOLEAN]
  PROVE  WorksInv'
BY DEF WorksInv, WorksTypeOK, StoreOK, CallType, Stage, Outcome

-----------------------------------------------------------------------------
(* The invariant                                                            *)

LEMMA InitInv == Init => WorksInv
<1> SUFFICES ASSUME Init PROVE WorksInv
  OBVIOUS
<1>1. Delete \in Request
  BY DEF Request
<1>2. WorksTypeOK
  BY <1>1 DEF Init, WorksTypeOK, AsAsked
<1>3. NoMixture
  BY DEF Init, NoMixture
<1> QED
  BY <1>2, <1>3 DEF WorksInv

LEMMA BeginApplyInv ==
  ASSUME WorksInv, NEW c \in Caller, NEW r \in Request, BeginApply(c, r)
  PROVE  WorksInv'
<1> DEFINE x == IF ValidWork(r.work)
                THEN [at |-> "get", request |-> r, result |-> "none"]
                ELSE [at |-> "idle", request |-> r, result |-> "error"]
<1>1. /\ r.op = "apply" /\ call' = [call EXCEPT ![c] = x]
      /\ UNCHANGED <<store, late>> /\ Watch
  BY DEF BeginApply
<1>2. x \in CallType /\ AsAsked(x)
  BY <1>1 DEF CallType, Stage, Outcome, AsAsked
<1> HIDE DEF x
<1>3. call' \in [Caller -> CallType] /\ \A d \in Caller : AsAsked(call'[d])
  BY <1>1, <1>2, CallsTyped
<1>4. StoreOK' /\ NoMixture' /\ met' \in [Caller -> BOOLEAN]
  BY <1>1, SameStoreIsSound, WatchTyped
<1> QED
  BY <1>1, <1>3, <1>4, InvFromParts DEF WorksInv, WorksTypeOK

LEMMA BeginDeleteInv ==
  ASSUME WorksInv, NEW c \in Caller, BeginDelete(c)
  PROVE  WorksInv'
<1> DEFINE x == [at |-> "delete", request |-> Delete, result |-> "none"]
<1>1. call' = [call EXCEPT ![c] = x] /\ UNCHANGED <<store, late>> /\ Watch
  BY DEF BeginDelete
<1>2. x \in CallType /\ AsAsked(x)
  BY DEF CallType, Stage, Outcome, AsAsked, Request
<1> HIDE DEF x
<1>3. call' \in [Caller -> CallType] /\ \A d \in Caller : AsAsked(call'[d])
  BY <1>1, <1>2, CallsTyped
<1>4. StoreOK' /\ NoMixture' /\ met' \in [Caller -> BOOLEAN]
  BY <1>1, SameStoreIsSound, WatchTyped
<1> QED
  BY <1>1, <1>3, <1>4, InvFromParts DEF WorksInv, WorksTypeOK

(* An answer ends the call, whatever it is. *)
LEMMA AnswerTyped ==
  ASSUME WorksInv, NEW c \in Caller, NEW result \in Outcome, Answer(c, result)
  PROVE  /\ call' \in [Caller -> CallType]
         /\ \A d \in Caller : AsAsked(call'[d])
BY DEF WorksInv, WorksTypeOK, Answer, CallType, Stage, Outcome, AsAsked

LEMMA GetInv ==
  ASSUME WorksInv, NEW c \in Caller, Get(c)
  PROVE  WorksInv'
<1>1. call[c].at = "get" /\ UNCHANGED <<store, late>> /\ Watch
  BY DEF Get
<1>2. MoveTo(c, "create") \/ Answer(c, "skip") \/ MoveTo(c, "patch")
  BY DEF Get, CompareGenerations
<1>3. ASSUME NEW at \in {"create", "patch"}, MoveTo(c, at)
      PROVE  call' \in [Caller -> CallType] /\ \A d \in Caller : AsAsked(call'[d])
  BY <1>1, <1>3 DEF MoveTo, WorksInv, WorksTypeOK, CallType, Stage, Outcome, AsAsked
<1>4. call' \in [Caller -> CallType] /\ \A d \in Caller : AsAsked(call'[d])
  BY <1>2, <1>3, AnswerTyped DEF Outcome
<1>5. StoreOK' /\ NoMixture' /\ met' \in [Caller -> BOOLEAN]
  BY <1>1, SameStoreIsSound, WatchTyped
<1> QED
  BY <1>1, <1>4, <1>5, InvFromParts DEF WorksInv, WorksTypeOK

LEMMA WriteInv ==
  ASSUME WorksInv, NEW c \in Caller, Write(c)
  PROVE  WorksInv'
<1>1. call[c].at \in {"create", "patch", "delete"} /\ UNCHANGED late /\ Watch
  BY DEF Write
<1>2. call[c].request \in Request /\ AsAsked(call[c])
  BY DEF WorksInv, WorksTypeOK
<1>3. Result(call[c].at) \in Outcome
  BY <1>1 DEF Result, Outcome
<1>4. call' \in [Caller -> CallType] /\ \A d \in Caller : AsAsked(call'[d])
  BY <1>3, AnswerTyped DEF Write, Outcome
<1>5. StoreOK' /\ NoMixture'
  BY <1>1, <1>2, EffectIsSound, SameStoreIsSound DEF Write
<1>6. met' \in [Caller -> BOOLEAN]
  BY <1>1, WatchTyped
<1> QED
  BY <1>1, <1>4, <1>5, <1>6, InvFromParts DEF WorksInv, WorksTypeOK

LEMMA FailInv ==
  ASSUME WorksInv, NEW c \in Caller, Fail(c)
  PROVE  WorksInv'
<1>1. call[c].at # "idle" /\ Answer(c, "error") /\ UNCHANGED store /\ Watch
  BY DEF Fail
<1>2. call' \in [Caller -> CallType] /\ \A d \in Caller : AsAsked(call'[d])
  BY <1>1, AnswerTyped DEF Outcome
<1>3. /\ late' \subseteq [at : {"create", "patch", "delete"}, request : Request]
      /\ \A x \in late' : AsAsked(x)
  <2>1. CASE UNCHANGED late
    BY <2>1 DEF WorksInv, WorksTypeOK
  <2>2. CASE call[c].at # "get"
            /\ late' = late \cup {[at |-> call[c].at, request |-> call[c].request]}
    <3>1. call[c].at \in {"create", "patch", "delete"} /\ call[c].request \in Request
      BY <1>1, <2>2 DEF WorksInv, WorksTypeOK
    <3>2. AsAsked([at |-> call[c].at, request |-> call[c].request])
      BY DEF WorksInv, WorksTypeOK, AsAsked
    <3> QED
      BY <2>2, <3>1, <3>2 DEF WorksInv, WorksTypeOK
  <2> QED
    BY <2>1, <2>2 DEF Fail
<1>4. StoreOK' /\ NoMixture' /\ met' \in [Caller -> BOOLEAN]
  BY <1>1, SameStoreIsSound, WatchTyped
<1> QED
  BY <1>2, <1>3, <1>4, InvFromParts

LEMMA LandInv ==
  ASSUME WorksInv, Land
  PROVE  WorksInv'
<1>1. UNCHANGED call /\ Watch
  BY DEF Land
<1>2. PICK x \in late : /\ late' = late \ {x}
                       /\ store' = IF Possible(x) THEN Effect(x) ELSE store
  BY DEF Land
<1>3. x.request \in Request /\ AsAsked(x) /\ x.at \in {"create", "patch", "delete"}
  BY DEF WorksInv, WorksTypeOK
<1>4. StoreOK' /\ NoMixture'
  BY <1>2, <1>3, EffectIsSound, SameStoreIsSound
<1>5. met' \in [Caller -> BOOLEAN]
  BY <1>1, WatchTyped
<1>6. call' \in [Caller -> CallType] /\ \A c \in Caller : AsAsked(call'[c])
  BY <1>1 DEF WorksInv, WorksTypeOK, CallType, Stage, Outcome
<1>7. /\ late' \subseteq [at : {"create", "patch", "delete"}, request : Request]
      /\ \A y \in late' : AsAsked(y)
  BY <1>2 DEF WorksInv, WorksTypeOK
<1> QED
  BY <1>4, <1>5, <1>6, <1>7, InvFromParts

(* An annotation that is gone cannot label anything. *)
LEMMA TamperInv ==
  ASSUME WorksInv, Tamper
  PROVE  WorksInv'
<1>1. UNCHANGED <<call, late>> /\ Watch
  BY DEF Tamper
<1>2. /\ store # NoWork
      /\ store' = [store EXCEPT !.generation = [form |-> "missing", value |-> 0]]
  BY DEF Tamper
<1>3. ~ValidGeneration(store'.generation) /\ store'.generation \in Annotation
  BY <1>2 DEF ValidGeneration, Annotation, WorksInv, WorksTypeOK
<1>4. store'.manifests = store.manifests
  BY <1>2
<1>5. StoreOK' /\ NoMixture'
  BY <1>2, <1>3, <1>4 DEF StoreOK, NoMixture, WorksInv, WorksTypeOK
<1>6. call' \in [Caller -> CallType] /\ \A c \in Caller : AsAsked(call'[c])
  BY <1>1 DEF WorksInv, WorksTypeOK, CallType, Stage, Outcome
<1>7. met' \in [Caller -> BOOLEAN]
  BY <1>1, WatchTyped
<1> QED
  BY <1>1, <1>5, <1>6, <1>7, InvFromParts DEF WorksInv, WorksTypeOK

LEMMA NextInv == WorksInv /\ [Next]_vars => WorksInv'
<1> SUFFICES ASSUME WorksInv, [Next]_vars PROVE WorksInv'
  OBVIOUS
<1>1. ASSUME NEW c \in Caller, NEW r \in Request, BeginApply(c, r) PROVE WorksInv'
  BY <1>1, BeginApplyInv
<1>2. ASSUME NEW c \in Caller, BeginDelete(c) \/ Get(c) \/ Write(c) \/ Fail(c) PROVE WorksInv'
  BY <1>2, BeginDeleteInv, GetInv, WriteInv, FailInv
<1>3. CASE Land
  BY <1>3, LandInv
<1>4. CASE Tamper
  BY <1>4, TamperInv
<1>5. CASE UNCHANGED vars
  BY <1>5 DEF vars, WorksInv, WorksTypeOK, NoMixture, Labelled
<1> QED
  BY <1>1, <1>2, <1>3, <1>4, <1>5 DEF Next

(* A generation never labels another one's manifests, unless what was applied with *)
(* it has none, and nothing unvalidated gets to Maestro: ApplyManifestWork, for any *)
(* callers and ManifestWorks, those without manifests included.                  *)
THEOREM InvariantHolds == Spec => []WorksInv
<1>1. Init => WorksInv
  BY InitInv
<1>2. WorksInv /\ [Next]_vars => WorksInv'
  BY NextInv
<1> QED
  BY <1>1, <1>2, PTL DEF Spec

-----------------------------------------------------------------------------
(* What success means                                                       *)

(* If only one call moves, and it does not end in success unless its wish is     *)
(* reality at that moment, then every success so far was true at some moment.    *)
LEMMA OneCallMoves ==
  ASSUME WorksInv, SucceededHeld, Watch, NEW c \in Caller,
         \A d \in Caller \ {c} : call'[d] = call[d],
         call'[c].at = "idle" /\ call'[c].result \notin {"none", "error"}
           => call[c].at # "idle" /\ Wish(call'[c].request, store')
  PROVE  SucceededHeld'
<1> SUFFICES ASSUME NEW d \in Caller,
                    call'[d].at = "idle", call'[d].result \notin {"none", "error"}
             PROVE  met'[d]
  BY DEF SucceededHeld
<1>1. met'[d] = IF call[d].at = "idle" /\ call'[d].at = "idle" THEN met[d]
                ELSE (call[d].at # "idle" /\ met[d]) \/ Wish(call'[d].request, store')
  BY DEF Watch
<1>2. CASE d = c
  BY <1>1, <1>2
<1>3. CASE d # c
  <2>1. call'[d] = call[d] /\ met[d]
    BY <1>3 DEF SucceededHeld
  <2> QED
    BY <1>1, <2>1
<1> QED
  BY <1>2, <1>3

(* An equal generation is read off a ManifestWork that has this generation.      *)
LEMMA SkippedIsThere ==
  ASSUME WorksInv, NEW w \in Work, ValidWork(w),
         CompareGenerations(GetGeneration(w.generation), ExistingGeneration,
                            store # NoWork) = "skip"
  PROVE  store # NoWork /\ store.generation = w.generation
<1>1. store # NoWork /\ GetGeneration(store.generation) = GetGeneration(w.generation)
  BY DEF CompareGenerations, ExistingGeneration
<1>2. store.generation \in Annotation /\ w.generation \in Annotation
  BY <1>1, WorkAssumption DEF WorksInv, WorksTypeOK
<1>3. w.generation.form = "number" /\ w.generation.value > 0
  BY DEF ValidWork, ValidGeneration
<1>4. store.generation.form = "number" /\ store.generation.value = w.generation.value
  BY <1>1, <1>2, <1>3 DEF GetGeneration, Annotation
<1> QED
  BY <1>1, <1>2, <1>3, <1>4 DEF Annotation

LEMMA GetHeld ==
  ASSUME WorksInv, SucceededHeld, NEW c \in Caller, Get(c)
  PROVE  SucceededHeld'
<1> DEFINE r == call[c].request
           decision == CompareGenerations(GetGeneration(r.work.generation),
                                          ExistingGeneration, store # NoWork)
<1>1. call[c].at = "get" /\ UNCHANGED store /\ Watch
  BY DEF Get
<1>2. r \in Request /\ r.op = "apply" /\ ValidWork(r.work) /\ r.work \in Work
  BY <1>1, RequestKinds DEF WorksInv, WorksTypeOK, AsAsked
<1>3. \/ MoveTo(c, "create") \/ MoveTo(c, "patch")
      \/ decision = "skip" /\ Answer(c, "skip")
  <2>1. decision \in {"create", "skip", "update"}
    BY DEF CompareGenerations
  <2> QED
    BY <2>1 DEF Get
<1> HIDE DEF decision
<1>4. CASE MoveTo(c, "create") \/ MoveTo(c, "patch")
  <2>1. call'[c].at # "idle" /\ \A d \in Caller \ {c} : call'[d] = call[d]
    BY <1>4 DEF MoveTo, WorksInv, WorksTypeOK
  <2> QED
    BY <1>1, <2>1, OneCallMoves
<1>5. CASE decision = "skip" /\ Answer(c, "skip")
  <2>1. call'[c].request = r /\ \A d \in Caller \ {c} : call'[d] = call[d]
    BY <1>5 DEF Answer, WorksInv, WorksTypeOK
  <2>2. Wish(r, store')
    BY <1>1, <1>2, <1>5, SkippedIsThere DEF Wish, decision
  <2> QED
    BY <1>1, <2>1, <2>2, OneCallMoves
<1> QED
  BY <1>3, <1>4, <1>5

LEMMA WriteHeld ==
  ASSUME WorksInv, SucceededHeld, NEW c \in Caller, Write(c)
  PROVE  SucceededHeld'
<1>1. call[c].at \in {"create", "patch", "delete"} /\ Watch
  BY DEF Write
<1>2. call[c].request \in Request /\ AsAsked(call[c])
  BY DEF WorksInv, WorksTypeOK
<1>3. CASE Possible(call[c])
  <2>1. store' = Effect(call[c]) /\ Answer(c, Result(call[c].at))
    BY <1>3 DEF Write
  <2>2. Wish(call[c].request, store')
    BY <1>1, <1>2, <1>3, <2>1, EffectIsSound
  <2>3. /\ call'[c].request = call[c].request
        /\ \A d \in Caller \ {c} : call'[d] = call[d]
    BY <2>1 DEF Answer, WorksInv, WorksTypeOK
  <2> QED
    BY <1>1, <2>2, <2>3, OneCallMoves
<1>4. CASE ~Possible(call[c])
  <2>1. call'[c].result = "error" /\ \A d \in Caller \ {c} : call'[d] = call[d]
    BY <1>4 DEF Write, Answer, WorksInv, WorksTypeOK
  <2> QED
    BY <1>1, <2>1, OneCallMoves
<1> QED
  BY <1>3, <1>4

(* Steps of no call only let a wish come true, or leave the record of it.         *)
LEMMA NoCallMoves ==
  ASSUME SucceededHeld, Watch, UNCHANGED call
  PROVE  SucceededHeld'
BY DEF SucceededHeld, Watch

LEMMA NextHeld == WorksInv /\ SucceededHeld /\ [Next]_vars => SucceededHeld'
<1> SUFFICES ASSUME WorksInv, SucceededHeld, [Next]_vars PROVE SucceededHeld'
  OBVIOUS
<1>1. ASSUME NEW c \in Caller, NEW r \in Request, BeginApply(c, r) PROVE SucceededHeld'
  <2>1. Watch /\ \A d \in Caller \ {c} : call'[d] = call[d]
    BY <1>1 DEF BeginApply, WorksInv, WorksTypeOK
  <2>2. call'[c].at = "get" \/ call'[c].result = "error"
    BY <1>1 DEF BeginApply, WorksInv, WorksTypeOK
  <2> QED
    BY <2>1, <2>2, OneCallMoves
<1>2. ASSUME NEW c \in Caller, BeginDelete(c) PROVE SucceededHeld'
  <2>1. /\ Watch
        /\ call'[c].at = "delete"
        /\ \A d \in Caller \ {c} : call'[d] = call[d]
    BY <1>2 DEF BeginDelete, WorksInv, WorksTypeOK
  <2> QED
    BY <2>1, OneCallMoves
<1>3. ASSUME NEW c \in Caller, Get(c) \/ Write(c) PROVE SucceededHeld'
  BY <1>3, GetHeld, WriteHeld
<1>4. ASSUME NEW c \in Caller, Fail(c) PROVE SucceededHeld'
  <2>1. /\ Watch
        /\ call'[c].result = "error"
        /\ \A d \in Caller \ {c} : call'[d] = call[d]
    BY <1>4 DEF Fail, Answer, WorksInv, WorksTypeOK
  <2> QED
    BY <2>1, OneCallMoves
<1>5. CASE Land \/ Tamper
  BY <1>5, NoCallMoves DEF Land, Tamper
<1>6. CASE UNCHANGED vars
  BY <1>6 DEF vars, SucceededHeld
<1> QED
  BY <1>1, <1>2, <1>3, <1>4, <1>5, <1>6 DEF Next

(* An apply or delete that returned nil met a moment at which Maestro was as it     *)
(* was asked to be, for any callers, ManifestWorks, lost answers and late writes.   *)
THEOREM SuccessWasTrue == Spec => []SucceededHeld
<1>1. Init => WorksInv /\ SucceededHeld
  BY InitInv DEF Init, SucceededHeld
<1>2. (WorksInv /\ SucceededHeld) /\ [Next]_vars => (WorksInv /\ SucceededHeld)'
  BY NextInv, NextHeld
<1> QED
  BY <1>1, <1>2, PTL DEF Spec
=============================================================================
