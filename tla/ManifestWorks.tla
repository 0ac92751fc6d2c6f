---------------------------- MODULE ManifestWorks ----------------------------
(***************************************************************************)
(* ApplyManifestWork and DeleteManifestWork of                             *)
(* internal/maestroclient, as several callers use them on one ManifestWork *)
(* of one consumer. Applying is a get, a comparison of generations, and a  *)
(* create or a merge patch, with nothing to hold the ManifestWork still in *)
(* between. Maestro (external) does one request at a time; a request whose *)
(* answer was lost may have had its effect, or have it later. Somebody     *)
(* else may remove the generation annotation.                              *)
(***************************************************************************)
EXTENDS Generations

CONSTANTS
    Caller,    \* goroutines that apply or delete the ManifestWork
    Work,      \* the ManifestWorks they apply: [generation, manifests, labels]
    Options    \* the values of ApplyOptions.RecreateOnChange they pass

\* Maestro has no such ManifestWork.
NoWork == [found |-> FALSE]

ASSUME WorkAssumption ==
    /\ NoWork \notin Work
    /\ \A w \in Work : w.generation \in Annotation
    /\ Options \subseteq BOOLEAN

VARIABLES
    store,   \* the ManifestWork as Maestro has it, or NoWork
    call,    \* [Caller -> what the caller asked, where its call is, what it answered]
    late,    \* the writes whose answer was lost and that may still happen
    met      \* history: was there a moment in the call when its wish was reality

vars == <<store, call, late, met>>

Delete == [op |-> "delete"]

Request == [op : {"apply"}, work : Work, recreate : Options] \cup {Delete}

\* What a call and a given-up write are there for: applies have passed the first
\* check, which only annotated ManifestWorks do.
AsAsked(x) ==
    /\ x.at \in {"get", "create", "patch"} => x.request.op = "apply" /\ ValidWork(x.request.work)
    /\ x.at = "delete" => x.request = Delete

\* Types, and: none of Maestro's manifests lacks its generation.
WorksTypeOK ==
    /\ store # NoWork =>
          /\ store.generation \in Annotation
          /\ \A i \in DOMAIN store.manifests : ValidGeneration(store.manifests[i].generation)
    /\ call \in [Caller -> [at : {"idle", "get", "create", "patch", "delete"},
                            request : Request,
                            result : {"none", "create", "skip", "update", "deleted", "error"}]]
    /\ \A c \in Caller : AsAsked(call[c])
    /\ late \subseteq [at : {"create", "patch", "delete"}, request : Request]
    /\ \A x \in late : AsAsked(x)
    /\ met \in [Caller -> BOOLEAN]

Init ==
    /\ store = NoWork
    /\ call = [c \in Caller |-> [at |-> "idle", request |-> Delete, result |-> "none"]]
    /\ late = {}
    /\ met = [c \in Caller |-> FALSE]

-----------------------------------------------------------------------------
(* The history variable                                                     *)

\* What a caller wants to be so: the ManifestWork has the generation it applies,
\* or there is none.
Wish(r, s) ==
    IF r.op = "delete" THEN s = NoWork
    ELSE s # NoWork /\ s.generation = r.work.generation

Watch ==
    met' = [c \in Caller |->
               IF call[c].at = "idle" /\ call'[c].at = "idle" THEN met[c]
               ELSE (call[c].at # "idle" /\ met[c]) \/ Wish(call'[c].request, store')]

-----------------------------------------------------------------------------
(* Maestro (external)                                                       *)

\* A JSON object patched by another.
Merged(old, new) ==
    [k \in DOMAIN old \cup DOMAIN new |-> IF k \in DOMAIN new THEN new[k] ELSE old[k]]

\* createManifestWorkPatch as a JSON merge patch: the annotation is replaced, and the
\* manifests (and what else the spec has: all of it is left out of the patch when it is
\* empty) unless the new ManifestWork has none, which keeps the old ones; labels the
\* new one does not name stay, but one without labels patches them with null, which
\* removes them.
Patched(old, work) ==
    [generation |-> work.generation,
     manifests |-> IF work.manifests = <<>> THEN old.manifests ELSE work.manifests,
     labels |-> IF DOMAIN work.labels = {} THEN <<>> ELSE Merged(old.labels, work.labels)]

\* Whether Maestro can do what a call at this point asks for.
Possible(x) ==
    \/ x.at = "create" /\ store = NoWork
    \/ x.at = "patch" /\ store # NoWork
    \/ x.at = "delete"

Effect(x) ==
    CASE x.at = "create" -> x.request.work
      [] x.at = "patch" -> Patched(store, x.request.work)
      [] OTHER -> NoWork

\* A write given up by its caller happens, or turns out not to be possible.
Land ==
    /\ \E x \in late :
          /\ late' = late \ {x}
          /\ store' = IF Possible(x) THEN Effect(x) ELSE store
    /\ UNCHANGED call
    /\ Watch

\* Somebody removes the annotation.
Tamper ==
    /\ store # NoWork
    /\ store.generation.form = "number"
    /\ store' = [store EXCEPT !.generation = [form |-> "missing", value |-> 0]]
    /\ UNCHANGED <<call, late>>
    /\ Watch

-----------------------------------------------------------------------------
(* The client                                                               *)

MoveTo(c, at) == call' = [call EXCEPT ![c].at = at]

Answer(c, result) == call' = [call EXCEPT ![c].at = "idle", ![c].result = result]

\* Mutant of BeginApply: the annotations are not validated.
BeginApplyUnchecked(c, r) ==
    /\ call[c].at = "idle"
    /\ r.op = "apply"
    /\ call' = [call EXCEPT ![c] = [at |-> "get", request |-> r, result |-> "none"]]
    /\ UNCHANGED <<store, late>>
    /\ Watch

\* ApplyResource, or Apply of the transport: a ManifestWork whose annotations are
\* not valid is refused before anything is asked of Maestro. RecreateOnChange is
\* not looked at.
BeginApply(c, r) ==
    /\ call[c].at = "idle"
    /\ r.op = "apply"
    /\ call' = [call EXCEPT ![c] =
                   IF ValidWork(r.work)
                   THEN [at |-> "get", request |-> r, result |-> "none"]
                   ELSE [at |-> "idle", request |-> r, result |-> "error"]]
    /\ UNCHANGED <<store, late>>
    /\ Watch

\* DeleteResource, or Delete of the transport.
BeginDelete(c) ==
    /\ call[c].at = "idle"
    /\ call' = [call EXCEPT ![c] = [at |-> "delete", request |-> Delete, result |-> "none"]]
    /\ UNCHANGED <<store, late>>
    /\ Watch

\* The generation GetManifestWork finds: 0 if there is no ManifestWork, or none
\* with an annotation that can be read.
ExistingGeneration == IF store = NoWork THEN 0 ELSE GetGeneration(store.generation)

\* GetManifestWork and CompareGenerations: not found is no error here.
Get(c) ==
    LET decision == CompareGenerations(GetGeneration(call[c].request.work.generation),
                                       ExistingGeneration, store # NoWork)
    IN  /\ call[c].at = "get"
        /\ CASE decision = "create" -> MoveTo(c, "create")
             [] decision = "skip" -> Answer(c, "skip")
             [] decision = "update" -> MoveTo(c, "patch")
        /\ UNCHANGED <<store, late>>
        /\ Watch

Result(at) ==
    CASE at = "create" -> "create" [] at = "patch" -> "update" [] at = "delete" -> "deleted"

\* CreateManifestWork, PatchManifestWork or DeleteManifestWork. Creating what is
\* there by now and patching what is gone are errors; deleting what is gone is not.
Write(c) ==
    /\ call[c].at \in {"create", "patch", "delete"}
    /\ IF Possible(call[c])
       THEN store' = Effect(call[c]) /\ Answer(c, Result(call[c].at))
       ELSE UNCHANGED store /\ Answer(c, "error")
    /\ UNCHANGED late
    /\ Watch

\* A request fails (the consumer is not registered, the connection breaks, the
\* context is cancelled), or only its answer is lost.
Fail(c) ==
    /\ call[c].at # "idle"
    /\ Answer(c, "error")
    /\ \/ UNCHANGED late
       \/ /\ call[c].at # "get"
          /\ late' = late \cup {[at |-> call[c].at, request |-> call[c].request]}
    /\ UNCHANGED store
    /\ Watch

-----------------------------------------------------------------------------

Next ==
    \/ \E c \in Caller, r \in Request \ {Delete} : BeginApply(c, r)
    \/ \E c \in Caller : BeginDelete(c) \/ Get(c) \/ Write(c) \/ Fail(c)
    \/ Land
    \/ Tamper

Spec == Init /\ [][Next]_vars

-----------------------------------------------------------------------------
(* Properties                                                               *)

\* An apply that returns nil, whether it created, patched or skipped, met a moment
\* at which Maestro had the generation it was given, and a delete one at which
\* Maestro had nothing, whatever other callers, late writes and a lost annotation
\* do in between. The adapters report ObservedGeneration on the strength of it.
SucceededHeld ==
    \A c \in Caller :
        call[c].at = "idle" /\ call[c].result \notin {"none", "error"} => met[c]

\* Whether what Maestro has under its generation comes from this ManifestWork.
Labelled(w) ==
    /\ ValidWork(w)
    /\ store.generation = w.generation
    /\ w.manifests # <<>> => store.manifests = w.manifests
    /\ \A k \in DOMAIN w.labels : k \in DOMAIN store.labels /\ store.labels[k] = w.labels[k]

\* What Maestro has under a generation is all of one ManifestWork applied with it, and
\* its manifests are in any case those of one ManifestWork that passed the validation.
\* They need not be of this generation only where the one applied with it has none:
\* such a patch leaves the older manifests under the new generation.
NoMixture ==
    store # NoWork =>
        /\ ValidGeneration(store.generation) => \E w \in Work : Labelled(w)
        /\ \E w \in Work : ValidWork(w) /\ store.manifests = w.manifests

\* Get and write are not atomic, patches merge and given-up writes land late, but a
\* generation never labels another one's manifests (a ManifestWork without any apart),
\* manifests of two are never mixed, and no manifest without a valid
\* generation of its own gets to Maestro by any of these ways: the validation in
\* front of them is the only one there is. With the typing this is inductive.
WorksInv == WorksTypeOK /\ NoMixture

\* "RecreateOnChange forces delete+create instead of update when resource exists
\* and generation has changed." (transportclient/types.go): nothing of the older
\* ManifestWork is left when such an apply has changed the generation.
RecreateHonoured ==
    [][\A c \in Caller :
          /\ call[c].at # "idle" /\ call'[c].at = "idle"
          /\ call[c].request.op = "apply" /\ call[c].request.recreate
          /\ call'[c].result = "update"
          => store'.labels = call[c].request.work.labels]_vars
=============================================================================
