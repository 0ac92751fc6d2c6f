------------------------------ MODULE Selector ------------------------------
(***************************************************************************)
(* How the placement adapter's workers select a management cluster and a   *)
(* base domain: selector.go (static candidates) and dynamic_selector.go    *)
(* (discovery in Secret Manager and Maestro). Workers select concurrently  *)
(* and share only the selector's counters; a reconcile that fails is run   *)
(* again (WorkQueue), a cluster that is placed is not selected for again.  *)
(***************************************************************************)
EXTENDS Naturals, Sequences, FiniteSets, Lists

CONSTANTS
    Cluster, Worker, MC, Domain,
    NoCluster, NoMC, NoDomain,
    Candidates,   \* --candidates with --base-domains: Seq([name, domain])
    SecretMCs,    \* the MC names Secret Manager lists, in its order
    Consumers,    \* the consumers registered in Maestro at first, in its order
    Domains,      \* meta_hc_dns_domains
    PageSize,     \* ?size=100 of the consumers request
    MaxFailures,  \* bound: failed lookups and PUTs
    MaxChanges    \* bound: consumers that come or go

ASSUME ListAssumption ==
    /\ Candidates \in Seq([name : MC, domain : Domain \cup {NoDomain}])
    /\ SecretMCs \in Seq(MC) /\ Consumers \in Seq(MC) /\ Domains \in Seq(Domain)
    /\ Candidates # <<>> /\ Domains # <<>>
    /\ NoMC \notin MC /\ NoDomain \notin Domain /\ NoCluster \notin Cluster

VARIABLES
    mode,        \* which selector the command made: static or dynamic
    consumers,   \* the consumers registered now
    counter,     \* RoundRobinSelector.counter
    mcCounter, domCounter,   \* DynamicSelector's counters
    job,         \* what each worker does: at, cluster, eligible, mc
    placed,      \* the management cluster recorded for each cluster
    failures, changes        \* the bounded faults and changes so far

counters == <<counter, mcCounter, domCounter>>
vars == <<mode, consumers, counters, job, placed, failures, changes>>

Prefix(s, n) == SubSeq(s, 1, IF n < Len(s) THEN n ELSE Len(s))

Job == [at : {"idle", "discover", "pick", "domains", "put"}, cluster : Cluster \cup {NoCluster},
        eligible : Seq(MC), mc : MC \cup {NoMC}]

Idle == [at |-> "idle", cluster |-> NoCluster, eligible |-> <<>>, mc |-> NoMC]

TypeOK ==
    /\ mode \in {"static", "dynamic"}
    /\ consumers \in Seq(MC)
    /\ counter \in Nat /\ mcCounter \in Nat /\ domCounter \in Nat
    /\ job \in [Worker -> Job]
    /\ placed \in [Cluster -> MC \cup {NoMC}]
    /\ failures \in 0..MaxFailures
    /\ changes \in 0..MaxChanges

Init ==
    /\ mode \in {"static", "dynamic"}
    /\ consumers = Consumers
    /\ counter = 0 /\ mcCounter = 0 /\ domCounter = 0
    /\ job = [w \in Worker |-> Idle]
    /\ placed = [c \in Cluster |-> NoMC]
    /\ failures = 0 /\ changes = 0

JobIs(w, j) == job' = [job EXCEPT ![w] = j]

-----------------------------------------------------------------------------
(* The reconcile around Select                                              *)

\* A worker takes a cluster nobody holds and finds it is not placed.
Start(w, c) ==
    /\ job[w].at = "idle"
    /\ placed[c] = NoMC
    /\ \A v \in Worker : job[v].cluster # c
    /\ JobIs(w, [Idle EXCEPT !.at = "discover", !.cluster = c])
    /\ UNCHANGED <<mode, consumers, counters, placed, failures, changes>>

\* The status PUT that records what was selected.
Place(w) ==
    /\ job[w].at = "put"
    /\ placed' = [placed EXCEPT ![job[w].cluster] = job[w].mc]
    /\ JobIs(w, Idle)
    /\ UNCHANGED <<mode, consumers, counters, failures, changes>>

\* A lookup or the PUT fails: the reconcile returns the error.
Fail(w) ==
    /\ job[w].at \in {"domains", "put"} \/ (job[w].at = "discover" /\ mode = "dynamic")
    /\ failures < MaxFailures
    /\ failures' = failures + 1
    /\ JobIs(w, Idle)
    /\ UNCHANGED <<mode, consumers, counters, placed, changes>>

-----------------------------------------------------------------------------
(* RoundRobinSelector.Select                                                *)

\* Mutant of SelectStatic: only a successful selection takes a turn.
SelectStaticOnSuccess(w) ==
    LET candidate == Candidates[(counter % Len(Candidates)) + 1] IN
    /\ job[w].at = "discover" /\ mode = "static"
    /\ IF candidate.domain = NoDomain
       THEN JobIs(w, Idle) /\ UNCHANGED counter
       ELSE /\ JobIs(w, [job[w] EXCEPT !.at = "put", !.mc = candidate.name])
            /\ counter' = counter + 1
    /\ UNCHANGED <<mode, consumers, mcCounter, domCounter, placed, failures, changes>>

\* One turn, under the lock: a candidate without a base domain is an error, and
\* has had its turn.
SelectStatic(w) ==
    LET candidate == Candidates[(counter % Len(Candidates)) + 1] IN
    /\ job[w].at = "discover" /\ mode = "static"
    /\ counter' = counter + 1
    /\ JobIs(w, IF candidate.domain = NoDomain
                THEN Idle
                ELSE [job[w] EXCEPT !.at = "put", !.mc = candidate.name])
    /\ UNCHANGED <<mode, consumers, mcCounter, domCounter, placed, failures, changes>>

-----------------------------------------------------------------------------
(* DynamicSelector.Select                                                   *)

\* A consumer is registered in Maestro, or removed (external).
ConsumersChange ==
    /\ mode = "dynamic"
    /\ changes < MaxChanges
    /\ changes' = changes + 1
    /\ \E m \in MC :
          consumers' = IF m \in Elements(consumers)
                       THEN Selected(consumers, MC \ {m})
                       ELSE Append(consumers, m)
    /\ UNCHANGED <<mode, counters, job, placed, failures>>

\* The MCs that have a secret and are on the one page of consumers asked for.
EligibleAmong(registered) ==
    Selected(SecretMCs, Elements(Prefix(registered, PageSize)))

Eligible == EligibleAmong(consumers)

\* Nothing eligible is an error.
Discover(w) ==
    /\ job[w].at = "discover" /\ mode = "dynamic"
    /\ JobIs(w, IF Eligible = <<>>
                THEN Idle
                ELSE [job[w] EXCEPT !.at = "pick", !.eligible = Eligible])
    /\ UNCHANGED <<mode, consumers, counters, placed, failures, changes>>

\* s.mcCounter.Add(1) % len(eligible): the turn is taken before the domains are
\* known.
PickMC(w) ==
    LET eligible == job[w].eligible IN
    /\ job[w].at = "pick"
    /\ mcCounter' = mcCounter + 1
    /\ JobIs(w, [job[w] EXCEPT !.at = "domains", !.eligible = <<>>,
                               !.mc = eligible[(mcCounter' % Len(eligible)) + 1]])
    /\ UNCHANGED <<mode, consumers, counter, domCounter, placed, failures, changes>>

\* Mutant of PickDomain: both selections share one counter.
PickDomainSharedCounter(w) ==
    /\ job[w].at = "domains"
    /\ mcCounter' = mcCounter + 1
    /\ JobIs(w, [job[w] EXCEPT !.at = "put"])
    /\ UNCHANGED <<mode, consumers, counter, domCounter, placed, failures, changes>>

\* s.domCounter.Add(1) % len(domains). Which domain goes with the MC plays no
\* role below.
PickDomain(w) ==
    /\ job[w].at = "domains"
    /\ domCounter' = domCounter + 1
    /\ JobIs(w, [job[w] EXCEPT !.at = "put"])
    /\ UNCHANGED <<mode, consumers, counter, mcCounter, placed, failures, changes>>

SelectStep(w) ==
    SelectStatic(w) \/ Discover(w) \/ PickMC(w) \/ PickDomain(w) \/ Place(w)

\* Every cluster is placed.
Finished == (\A c \in Cluster : placed[c] # NoMC) /\ UNCHANGED vars

Next ==
    \/ \E w \in Worker, c \in Cluster : Start(w, c)
    \/ \E w \in Worker : SelectStep(w) \/ Fail(w)
    \/ ConsumersChange
    \/ Finished

\* Events keep coming for a cluster that is not placed, and a worker that has
\* taken one goes on.
Fairness ==
    /\ \A c \in Cluster : SF_vars(\E w \in Worker : Start(w, c))
    /\ \A w \in Worker : WF_vars(SelectStep(w))

SafeSpec == Init /\ [][Next]_vars

Spec == SafeSpec /\ Fairness

-----------------------------------------------------------------------------
(* Properties                                                               *)

PlacedOn(m) == Cardinality({c \in Cluster : placed[c] = m})

Holding(m) == Cardinality({w \in Worker : job[w].mc = m})

\* The management clusters the selector goes round, and the turns it has given.
Round ==
    IF mode = "static" THEN [i \in 1..Len(Candidates) |-> Candidates[i].name] ELSE Eligible

Taken == IF mode = "static" THEN counter ELSE mcCounter

\* A static candidate without a base domain has turns and gets nothing.
Usable(i) == mode = "static" => Candidates[i].domain # NoDomain

Undisturbed == changes = 0

\* While the registry does not change, however workers interleave, no management
\* cluster gets ahead of another that can be selected by more than one turn, the
\* turns that failed and those still in progress. This goes for both selectors.
EvenPlacement ==
    Undisturbed =>
        \A i, j \in 1..Len(Round) :
            Usable(j) =>
                PlacedOn(Round[i]) <= PlacedOn(Round[j]) + 1 + failures + Holding(Round[j])

\* A worker is about a cluster of its own that is not placed, and has a management
\* cluster once it has taken its turn.
JobsHold ==
    \A w \in Worker :
        LET j == job[w] IN
        /\ j.mc = NoMC <=> j.at \in {"idle", "discover", "pick"}
        /\ j.at = "idle" => j.cluster = NoCluster
        /\ j.at # "idle" => j.cluster \in Cluster /\ placed[j.cluster] = NoMC
        /\ \A v \in Worker \ {w} : j.at # "idle" => job[v].cluster # j.cluster
        /\ j.at = "pick" => j.eligible = Eligible /\ Eligible # <<>>
        /\ j.at \in {"pick", "domains"} => mode = "dynamic"

\* How often position i has had its turn, after q full rounds. The static selector
\* adds to its counter after it has used it, the dynamic one before: there the
\* first position is the last of a round.
Turns(i, q) ==
    LET place == IF mode = "static" THEN i ELSE i - 1
    IN  IF place \in 1..(Taken % Len(Round)) THEN q + 1 ELSE q

\* Every turn is a placement, a selection in progress or a failure, or it was that
\* of a candidate without a base domain.
TurnsAreKept ==
    Round # <<>> =>
        \E q \in 0..Taken : \A i \in 1..Len(Round) :
            LET load == PlacedOn(Round[i]) + Holding(Round[i]) IN
            load <= Turns(i, q) /\ (Usable(i) => Turns(i, q) <= load + failures)

FinitelyMany ==
    \A m \in MC :
        /\ IsFiniteSet({c \in Cluster : placed[c] = m})
        /\ IsFiniteSet({w \in Worker : job[w].mc = m})

Shared ==
    /\ consumers = Consumers
    /\ mode \in {"static", "dynamic"}
    /\ counter \in Nat /\ mcCounter \in Nat /\ failures \in Nat
    /\ job \in [Worker -> Job]
    /\ placed \in [Cluster -> MC \cup {NoMC}]
    /\ JobsHold
    /\ FinitelyMany
    /\ TurnsAreKept

\* The inductive invariant behind EvenPlacement.
SelectorInv == changes \in Nat /\ (Undisturbed => Shared)

\* A management cluster that may be given to a cluster: a candidate with a base
\* domain, or one that has a secret.
Suitable(m) ==
    IF mode = "static"
    THEN \E i \in 1..Len(Candidates) :
            Candidates[i].name = m /\ Candidates[i].domain # NoDomain
    ELSE m \in Elements(SecretMCs)

\* However selections fail and the registry changes under them, a cluster is only
\* ever placed on a management cluster that may be given to it.
PlacedWhereListed == \A c \in Cluster : placed[c] # NoMC => Suitable(placed[c])

\* A selection that is still going on when its cluster is placed would move it.
PlacementsStay ==
    [][\A c \in Cluster : placed[c] # NoMC => placed'[c] = placed[c]]_vars

\* What a selection has in hand may be given, and its cluster has no placement: a
\* part of JobsHold that a change of the registry leaves alone.
SelectionsSound ==
    \A w \in Worker :
        LET j == job[w] IN
        /\ j.mc # NoMC => Suitable(j.mc)
        /\ j.at \in {"pick", "domains"} => mode = "dynamic"
        /\ j.at = "pick" =>
              j.eligible # <<>> /\ Elements(j.eligible) \subseteq Elements(SecretMCs)
        /\ j.at # "idle" => j.cluster \in Cluster /\ placed[j.cluster] = NoMC
        /\ \A v \in Worker \ {w} : j.at # "idle" => job[v].cluster # j.cluster

\* The inductive invariant behind PlacedWhereListed and PlacementsStay.
WhereInv ==
    /\ mode \in {"static", "dynamic"}
    /\ consumers \in Seq(MC)
    /\ counter \in Nat /\ mcCounter \in Nat /\ domCounter \in Nat
    /\ job \in [Worker -> Job]
    /\ placed \in [Cluster -> MC \cup {NoMC}]
    /\ SelectionsSound
    /\ PlacedWhereListed

\* No management cluster is listed twice: Secret Manager has one secret for each,
\* and --candidates names each once. The code checks neither.
ListedOnce ==
    /\ \A i, j \in 1..Len(SecretMCs) : SecretMCs[i] = SecretMCs[j] => i = j
    /\ \A i, j \in 1..Len(Candidates) : Candidates[i].name = Candidates[j].name => i = j

\* Every cluster is placed in the end: concurrent workers do not keep handing
\* one cluster the turns of the candidates that have no base domain.
EveryClusterPlaced == \A c \in Cluster : <>[](placed[c] # NoMC)

\* "2. List Maestro consumers -> registered MC names, 3. Eligible = intersection
\* of the two sets" (dynamic_selector.go, comment of DynamicSelector).
EligibleIsIntersection ==
    \A w \in Worker : job[w].at = "pick" /\ changes = 0 =>
        Elements(job[w].eligible) = Elements(SecretMCs) \cap Elements(consumers)
=============================================================================
