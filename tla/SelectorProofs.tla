--------------------------- MODULE SelectorProofs ---------------------------
(***************************************************************************)
(* Proofs about Selector: however many workers select concurrently, fail   *)
(* and try again, the management clusters get the same number of hosted    *)
(* clusters, up to one turn, the failures and the selections in progress;  *)
(* and however the registry changes, a cluster is placed where it may be,  *)
(* once.                                                                   *)
(***************************************************************************)
EXTENDS Selector, ListProofs, FiniteSetTheorems

-----------------------------------------------------------------------------
(* Counting in rounds                                                       *)

(* What is left of d rounds of n and c more is c.                           *)
LEMMA Residue ==
  ASSUME NEW n \in Nat, NEW d \in Nat, NEW c \in 0..(n - 1)
  PROVE  (d * n + c) % n = c
OBVIOUS

(* The residue goes up by one, and back to 0 after n - 1.                   *)
LEMMA NextResidue ==
  ASSUME NEW n \in Nat, n > 0, NEW k \in Nat
  PROVE  /\ k % n \in 0..(n - 1)
         /\ (k + 1) % n = IF (k % n) + 1 < n THEN (k % n) + 1 ELSE 0
<1> DEFINE c == k % n
           d == k \div n
<1>1. c \in 0..(n - 1) /\ d \in Nat /\ k = d * n + c
  OBVIOUS
<1> HIDE DEF c, d
<1>2. CASE c + 1 < n
  <2>1. c + 1 \in 0..(n - 1) /\ k + 1 = d * n + (c + 1)
    BY <1>1, <1>2
  <2>2. (k + 1) % n = c + 1
    BY <1>1, <2>1, Residue
  <2> QED
    BY <1>1, <1>2, <2>2 DEF c
<1>3. CASE ~(c + 1 < n)
  <2>1. c + 1 = n /\ 0 \in 0..(n - 1) /\ d + 1 \in Nat
    BY <1>1, <1>3
  <2>2. k + 1 = (d + 1) * n + 0
    BY <1>1, <2>1
  <2>3. (k + 1) % n = 0
    BY <2>1, <2>2, Residue
  <2> QED
    BY <1>1, <1>3, <2>3 DEF c
<1> QED
  BY <1>2, <1>3

\* The position whose turn it is when the counter is added to.
NextPosition ==
    IF mode = "static" THEN (Taken % Len(Round)) + 1 ELSE ((Taken + 1) % Len(Round)) + 1

(* Adding to the counter gives that position a turn, and no other.          *)
LEMMA NextTurn ==
  ASSUME NEW n \in Nat, n = Len(Round), n > 0, UNCHANGED <<mode, Round>>,
         Taken \in Nat, Taken' = Taken + 1, NEW q \in 0..Taken
  PROVE  /\ NextPosition \in 1..n
         /\ \E r \in 0..Taken' : \A i \in 1..n :
               Turns(i, r)' = IF i = NextPosition THEN Turns(i, q) + 1 ELSE Turns(i, q)
<1> DEFINE c == Taken % n
           e == Taken' % n
           place(i) == IF mode = "static" THEN i ELSE i - 1
           p == NextPosition
<1>1. c \in 0..(n - 1) /\ e = IF c + 1 < n THEN c + 1 ELSE 0
  BY NextResidue
<1>2. \A i : Turns(i, q) = IF place(i) \in 1..c THEN q + 1 ELSE q
  BY DEF Turns
<1>3. \A i, r : Turns(i, r)' = IF place(i) \in 1..e THEN r + 1 ELSE r
  BY DEF Turns
<1>4. p = IF mode = "static" THEN c + 1 ELSE e + 1
  BY DEF NextPosition
<1> HIDE DEF c, e, p
<1>5. p \in 1..n
  BY <1>1, <1>4
<1>6. CASE c + 1 < n
  <2>1. e = c + 1 /\ q \in 0..Taken'
    BY <1>1, <1>6
  <2>2. \A i \in 1..n : place(i) \in 1..e <=> (place(i) \in 1..c \/ i = p)
    BY <1>1, <1>4, <2>1
  <2>3. \A i \in 1..n : i = p => place(i) \notin 1..c
    BY <1>1, <1>4, <2>1
  <2>4. \A i \in 1..n : Turns(i, q)' = IF i = p THEN Turns(i, q) + 1 ELSE Turns(i, q)
    <3> HIDE DEF place
    <3> QED
      BY <1>2, <1>3, <2>2, <2>3
  <2> QED
    BY <1>5, <2>1, <2>4 DEF p
<1>7. CASE ~(c + 1 < n)
  <2>1. e = 0 /\ c = n - 1 /\ q + 1 \in 0..Taken'
    BY <1>1, <1>7
  <2>2. \A i \in 1..n : place(i) \notin 1..e /\ (place(i) \in 1..c <=> i # p)
    BY <1>1, <1>4, <2>1
  <2>3. \A i \in 1..n : Turns(i, q + 1)' = IF i = p THEN Turns(i, q) + 1 ELSE Turns(i, q)
    <3> HIDE DEF place
    <3> QED
      BY <1>2, <1>3, <2>2
  <2> QED
    BY <1>5, <2>1, <2>3 DEF p
<1> QED
  BY <1>6, <1>7

-----------------------------------------------------------------------------
(* What a management cluster has had of its turns                           *)

PlacedSet(m) == {c \in Cluster : placed[c] = m}
HoldingSet(m) == {w \in Worker : job[w].mc = m}
Load(m) == PlacedOn(m) + Holding(m)

(* Loads are numbers.                                                       *)
LEMMA LoadType ==
  ASSUME FinitelyMany, NEW m \in MC
  PROVE  /\ IsFiniteSet(PlacedSet(m)) /\ IsFiniteSet(HoldingSet(m))
         /\ PlacedOn(m) = Cardinality(PlacedSet(m)) /\ PlacedOn(m) \in Nat
         /\ Holding(m) = Cardinality(HoldingSet(m)) /\ Holding(m) \in Nat
         /\ Load(m) = PlacedOn(m) + Holding(m) /\ Load(m) \in Nat
<1>1. IsFiniteSet(PlacedSet(m)) /\ IsFiniteSet(HoldingSet(m))
  BY DEF FinitelyMany, PlacedSet, HoldingSet
<1>2. PlacedOn(m) = Cardinality(PlacedSet(m)) /\ Holding(m) = Cardinality(HoldingSet(m))
  BY DEF PlacedOn, Holding, PlacedSet, HoldingSet
<1>3. Cardinality(PlacedSet(m)) \in Nat /\ Cardinality(HoldingSet(m)) \in Nat
  BY <1>1, FS_CardinalityType
<1> QED
  BY <1>1, <1>2, <1>3 DEF Load

LEMMA LoadsAreNumbers == FinitelyMany => \A m \in MC : Load(m) \in Nat
BY LoadType

(* They stay numbers.                                                       *)
LEMMA LoadTypeNext == FinitelyMany' => (\A m \in MC : Load(m) \in Nat)'
BY LoadsAreNumbers, PTL

(* The static candidates are management clusters, and there is one.        *)
LEMMA CandidatesAreListed ==
  /\ Len(Candidates) \in Nat /\ Len(Candidates) > 0
  /\ \A i \in 1..Len(Candidates) : Candidates[i].name \in MC
<1> DEFINE C == [name : MC, domain : Domain \cup {NoDomain}]
<1>1. Candidates \in Seq(C) /\ Candidates # <<>>
  BY ListAssumption
<1>2. \A c \in C : c.name \in MC
  OBVIOUS
<1> HIDE DEF C
<1> QED
  BY <1>1, <1>2

(* What the selector goes round, while the registry does not change.        *)
LEMMA RoundFacts ==
  ASSUME ListedOnce, consumers = Consumers, mode \in {"static", "dynamic"}
  PROVE  /\ Round \in Seq(MC) /\ Len(Round) \in Nat
         /\ \A i \in 1..Len(Round) : Round[i] \in MC
         /\ \A i, j \in 1..Len(Round) : Round[i] = Round[j] => i = j
         /\ Round # <<>> => Len(Round) > 0
         /\ mode = "dynamic" => Round = Eligible
         /\ mode = "static" => /\ Len(Round) = Len(Candidates) /\ Round # <<>>
                               /\ \A i \in 1..Len(Round) : Round[i] = Candidates[i].name
<1>1. CASE mode = "dynamic"
  <2> DEFINE registered == Elements(Prefix(Consumers, PageSize))
  <2>1. SecretMCs \in Seq(MC) /\ Distinct(SecretMCs)
    BY ListAssumption DEF ListedOnce, Distinct
  <2>2. Selected(SecretMCs, registered) \in Seq(MC)
    BY <2>1, SelectedElements
  <2>3. Distinct(Selected(SecretMCs, registered))
    BY <2>1, SelectedDistinct
  <2>4. Round = Eligible /\ Eligible = Selected(SecretMCs, registered)
    BY <1>1 DEF Round, Eligible, EligibleAmong
  <2> HIDE DEF registered
  <2>5. Round \in Seq(MC) /\ \A i, j \in 1..Len(Round) : Round[i] = Round[j] => i = j
    BY <2>2, <2>3, <2>4 DEF Distinct
  <2> QED
    BY <1>1, <2>4, <2>5
<1>2. CASE mode = "static"
  <2>1. /\ Candidates # <<>>
        /\ \A i, j \in 1..Len(Candidates) : Candidates[i].name = Candidates[j].name => i = j
    BY ListAssumption DEF ListedOnce
  <2>2. /\ Len(Candidates) \in Nat /\ Len(Candidates) > 0
        /\ \A i \in 1..Len(Candidates) : Candidates[i].name \in MC
    BY CandidatesAreListed
  <2>3. Round = [i \in 1..Len(Candidates) |-> Candidates[i].name]
    BY <1>2 DEF Round
  <2>4. Round \in Seq(MC) /\ Len(Round) = Len(Candidates)
    BY <2>2, <2>3
  <2>5. \A i \in 1..Len(Round) : Round[i] = Candidates[i].name
    BY <2>3, <2>4
  <2> QED
    BY <1>2, <2>1, <2>2, <2>4, <2>5
<1> QED
  BY <1>1, <1>2

(* It is the same in the next state, and so is who can be selected.         *)
LEMMA RoundStays ==
  ASSUME UNCHANGED <<mode, consumers>>
  PROVE  /\ UNCHANGED <<Eligible, Round>>
         /\ \A i : Usable(i)' <=> Usable(i)
BY DEF Round, Eligible, Usable

(* A step in which no turn is taken: a load that goes down is a failure.    *)
LEMMA NoTurnTaken ==
  ASSUME ListedOnce, Shared, FinitelyMany', UNCHANGED <<mode, consumers, counter, mcCounter>>,
         failures' \in Nat,
         \A m \in MC : Load(m)' <= Load(m) /\ Load(m) + failures <= Load(m)' + failures'
  PROVE  TurnsAreKept'
<1>1. UNCHANGED <<Round, Taken>> /\ \A i : Usable(i)' <=> Usable(i)
  BY RoundStays DEF Taken
<1> SUFFICES ASSUME Round # <<>>
             PROVE  \E q \in 0..Taken' : \A i \in 1..Len(Round) :
                       LET load == (PlacedOn(Round[i]) + Holding(Round[i]))' IN
                       load <= Turns(i, q)' /\ (Usable(i)' => Turns(i, q)' <= load + failures')
  BY <1>1 DEF TurnsAreKept
<1>2. PICK q \in 0..Taken : \A i \in 1..Len(Round) :
         LET load == PlacedOn(Round[i]) + Holding(Round[i]) IN
         load <= Turns(i, q) /\ (Usable(i) => Turns(i, q) <= load + failures)
  BY DEF Shared, TurnsAreKept
<1>3. \A i : Turns(i, q)' = Turns(i, q) /\ Turns(i, q) \in Nat
  <2>1. Taken \in Nat
    BY DEF Shared, Taken
  <2> QED
    BY <1>1, <2>1 DEF Turns
<1>4. ASSUME NEW i \in 1..Len(Round)
      PROVE  LET load == (PlacedOn(Round[i]) + Holding(Round[i]))' IN
             load <= Turns(i, q)' /\ (Usable(i)' => Turns(i, q)' <= load + failures')
  <2>1. PICK m \in MC : m = Round[i]
    BY RoundFacts DEF Shared
  <2>2. Load(m) \in Nat /\ Load(m)' \in Nat /\ failures \in Nat
    BY LoadType, LoadTypeNext DEF Shared
  <2>3. Load(m) <= Turns(i, q) /\ (Usable(i) => Turns(i, q) <= Load(m) + failures)
    BY <1>2, <2>1 DEF Load
  <2>4. Load(m)' <= Turns(i, q) /\ (Usable(i) => Turns(i, q) <= Load(m)' + failures')
    BY <1>3, <2>2, <2>3
  <2>5. (PlacedOn(Round[i]) + Holding(Round[i]))' = Load(m)'
    BY <1>1, <2>1 DEF Load, PlacedOn, Holding
  <2> QED
    BY <1>1, <1>3, <2>4, <2>5
<1> QED
  BY <1>1, <1>2, <1>4

(* A turn is taken: the management cluster at the next position gets a      *)
(* selection in progress, unless it is a candidate without a base domain.   *)
LEMMA TurnTaken ==
  ASSUME ListedOnce, Shared, FinitelyMany', UNCHANGED <<mode, consumers, failures>>,
         Round # <<>>, Taken' = Taken + 1, NEW p, p = NextPosition,
         \A i \in 1..Len(Round) :
            Load(Round[i])' = IF i = p /\ Usable(p) THEN Load(Round[i]) + 1 ELSE Load(Round[i])
  PROVE  TurnsAreKept'
<1> DEFINE n == Len(Round)
<1>1. UNCHANGED Round /\ \A i : Usable(i)' <=> Usable(i)
  BY RoundStays
<1>2. /\ n \in Nat /\ n > 0 /\ Taken \in Nat /\ failures \in Nat
      /\ \A i \in 1..n : Round[i] \in MC
  BY RoundFacts DEF Shared, Taken
<1>3. PICK q \in 0..Taken : \A i \in 1..n :
         LET load == PlacedOn(Round[i]) + Holding(Round[i]) IN
         load <= Turns(i, q) /\ (Usable(i) => Turns(i, q) <= load + failures)
  BY DEF Shared, TurnsAreKept
<1>4. PICK r \in 0..Taken' : \A i \in 1..n :
         Turns(i, r)' = IF i = p THEN Turns(i, q) + 1 ELSE Turns(i, q)
  BY <1>1, <1>2, NextTurn
<1>5. \A i : Turns(i, q) \in Nat
  BY <1>2 DEF Turns
<1>6. ASSUME NEW i \in 1..n
      PROVE  /\ Load(Round[i])' <= Turns(i, r)'
             /\ Usable(i)' => Turns(i, r)' <= Load(Round[i])' + failures'
  <2>1. Load(Round[i]) \in Nat
    BY <1>2, LoadType DEF Shared
  <2>2. Load(Round[i]) <= Turns(i, q) /\ (Usable(i) => Turns(i, q) <= Load(Round[i]) + failures)
    BY <1>3 DEF Load
  <2> DEFINE l == Load(Round[i])
             m == Load(Round[i])'
  <2>3. m = IF i = p /\ Usable(p) THEN l + 1 ELSE l
    OBVIOUS
  <2> HIDE DEF l, m
  <2>4. l \in Nat /\ l <= Turns(i, q) /\ (Usable(i) => Turns(i, q) <= l + failures)
    BY <2>1, <2>2 DEF l
  <2>5. m <= Turns(i, r)' /\ (Usable(i) => Turns(i, r)' <= m + failures)
    BY <1>2, <1>4, <1>5, <2>3, <2>4
  <2> QED
    BY <1>1, <2>5 DEF m
<1>7. \A i \in 1..n :
         LET load == (PlacedOn(Round[i]) + Holding(Round[i]))' IN
         load <= Turns(i, r)' /\ (Usable(i)' => Turns(i, r)' <= load + failures')
  BY <1>1, <1>6 DEF Load
<1> QED
  BY <1>1, <1>7 DEF TurnsAreKept

(* The selections that go on, and what is placed, keep their loads.         *)
LEMMA LoadsStay ==
  ASSUME FinitelyMany, UNCHANGED placed, \A w \in Worker : job'[w].mc = job[w].mc
  PROVE  FinitelyMany' /\ \A m \in MC : Load(m)' = Load(m)
<1>1. \A m : HoldingSet(m)' = HoldingSet(m) /\ PlacedSet(m)' = PlacedSet(m)
  BY DEF HoldingSet, PlacedSet
<1>2. FinitelyMany'
  BY <1>1 DEF FinitelyMany, HoldingSet, PlacedSet
<1>3. \A m : Load(m)' = Load(m)
  BY <1>1 DEF Load, PlacedOn, Holding, HoldingSet, PlacedSet
<1> QED
  BY <1>2, <1>3

(* One more set of workers holds m, or one fewer.                           *)
LEMMA TakesHold ==
  ASSUME FinitelyMany, NEW w \in Worker, NEW m \in MC, job[w].mc \notin MC,
         \A v \in Worker : job'[v].mc = IF v = w THEN m ELSE job[v].mc
  PROVE  /\ \A a \in MC : IsFiniteSet(HoldingSet(a)')
         /\ Holding(m)' = Holding(m) + 1
         /\ \A a \in MC \ {m} : Holding(a)' = Holding(a)
<1>1. HoldingSet(m)' = HoldingSet(m) \cup {w} /\ w \notin HoldingSet(m)
  BY DEF HoldingSet
<1>2. \A a \in MC \ {m} : HoldingSet(a)' = HoldingSet(a)
  BY DEF HoldingSet
<1>3. /\ IsFiniteSet(HoldingSet(m)')
      /\ Cardinality(HoldingSet(m)') = Cardinality(HoldingSet(m)) + 1
  BY <1>1, LoadType, FS_AddElement
<1>4. \A a \in MC \ {m} : IsFiniteSet(HoldingSet(a)')
  BY <1>2, LoadType
<1>5. \A a : Holding(a) = Cardinality(HoldingSet(a)) /\ Holding(a)' = Cardinality(HoldingSet(a)')
  BY DEF Holding, HoldingSet
<1> QED
  BY <1>2, <1>3, <1>4, <1>5

LEMMA LetsGo ==
  ASSUME FinitelyMany, NEW w \in Worker, NEW m \in MC, job[w].mc = m, job'[w].mc \notin MC,
         \A v \in Worker \ {w} : job'[v].mc = job[v].mc
  PROVE  /\ \A a \in MC : IsFiniteSet(HoldingSet(a)')
         /\ Holding(m)' = Holding(m) - 1
         /\ \A a \in MC \ {m} : Holding(a)' = Holding(a)
<1>1. HoldingSet(m)' = HoldingSet(m) \ {w} /\ w \in HoldingSet(m)
  BY DEF HoldingSet
<1>2. \A a \in MC \ {m} : HoldingSet(a)' = HoldingSet(a)
  BY DEF HoldingSet
<1>3. /\ IsFiniteSet(HoldingSet(m)')
      /\ Cardinality(HoldingSet(m)') = Cardinality(HoldingSet(m)) - 1
  BY <1>1, LoadType, FS_RemoveElement
<1>4. \A a \in MC \ {m} : IsFiniteSet(HoldingSet(a)')
  BY <1>2, LoadType
<1>5. \A a : Holding(a) = Cardinality(HoldingSet(a)) /\ Holding(a)' = Cardinality(HoldingSet(a)')
  BY DEF Holding, HoldingSet
<1> QED
  BY <1>2, <1>3, <1>4, <1>5

-----------------------------------------------------------------------------
(* One lemma per action                                                     *)

\* What the actions below start from.
Before == ListedOnce /\ Shared /\ Undisturbed

(* The job that moves, and those that do not.                               *)
LEMMA JobMoves ==
  ASSUME Shared, NEW w \in Worker, NEW j \in Job, JobIs(w, j)
  PROVE  /\ job' \in [Worker -> Job]
         /\ \A v \in Worker : job'[v] = IF v = w THEN j ELSE job[v]
BY DEF Shared, JobIs

LEMMA IdleIsJob ==
  /\ Idle \in Job
  /\ Idle.at = "idle" /\ Idle.cluster = NoCluster /\ Idle.mc = NoMC
BY DEF Idle, Job

\* What JobsHold says of one worker's job.
JobHolds(w, j) ==
    /\ j.mc = NoMC <=> j.at \in {"idle", "discover", "pick"}
    /\ j.at = "idle" => j.cluster = NoCluster
    /\ j.at # "idle" => j.cluster \in Cluster /\ placed[j.cluster] = NoMC
    /\ \A v \in Worker \ {w} : j.at # "idle" => job[v].cluster # j.cluster
    /\ j.at = "pick" => j.eligible = Eligible /\ Eligible # <<>>
    /\ j.at \in {"pick", "domains"} => mode = "dynamic"

LEMMA JobsHoldEach == JobsHold <=> \A w \in Worker : JobHolds(w, job[w])
BY DEF JobsHold, JobHolds

(* One job moves on, and has its cluster to itself or none.                 *)
LEMMA JobsHoldKept ==
  ASSUME JobsHold, UNCHANGED <<mode, consumers>>, NEW w \in Worker, NEW j,
         \A v \in Worker : job'[v] = IF v = w THEN j ELSE job[v],
         \A v \in Worker \ {w} :
            job[v].at # "idle" => placed'[job[v].cluster] = placed[job[v].cluster],
         JobHolds(w, j)'
  PROVE  JobsHold'
<1>1. UNCHANGED Eligible
  BY DEF Eligible
<1> SUFFICES ASSUME NEW v \in Worker
             PROVE  JobHolds(v, job[v])'
  BY DEF JobsHold, JobHolds
<1>2. CASE v = w
  BY <1>2 DEF JobHolds
<1>3. CASE v # w
  <2> DEFINE k == job[v]
  <2>1. JobHolds(v, k) /\ job'[v] = k
    BY <1>3, JobsHoldEach
  <2>2. /\ k.mc = NoMC <=> k.at \in {"idle", "discover", "pick"}
        /\ k.at = "idle" => k.cluster = NoCluster
        /\ k.at # "idle" => k.cluster \in Cluster /\ placed'[k.cluster] = NoMC
        /\ k.at = "pick" => k.eligible = Eligible' /\ Eligible' # <<>>
        /\ k.at \in {"pick", "domains"} => mode' = "dynamic"
    BY <1>1, <1>3, <2>1 DEF JobHolds
  <2>3. ASSUME k.at # "idle", NEW u \in Worker \ {v}
        PROVE  job'[u].cluster # k.cluster
    <3>1. CASE u = w
      BY <1>3, <2>2, <2>3, <3>1, ListAssumption DEF JobHolds
    <3>2. CASE u # w
      BY <2>1, <2>3, <3>2 DEF JobHolds
    <3> QED
      BY <3>1, <3>2
  <2> QED
    BY <2>1, <2>2, <2>3 DEF JobHolds
<1> QED
  BY <1>2, <1>3

(* A worker takes a cluster that no worker has.                             *)
LEMMA StartKeeps ==
  ASSUME Before, NEW w \in Worker, NEW c \in Cluster, Start(w, c)
  PROVE  Shared'
<1> DEFINE j == [Idle EXCEPT !.at = "discover", !.cluster = c]
<1>1. /\ JobIs(w, j) /\ job[w].at = "idle" /\ placed[c] = NoMC
      /\ \A v \in Worker : job[v].cluster # c
      /\ UNCHANGED <<mode, consumers, counter, mcCounter, placed, failures>>
  BY DEF Start, counters
<1>2. /\ j \in Job /\ j.at = "discover" /\ j.cluster = c /\ j.mc = NoMC
  BY IdleIsJob DEF Job
<1> HIDE DEF j
<1>3. /\ job' \in [Worker -> Job]
      /\ \A v \in Worker : job'[v] = IF v = w THEN j ELSE job[v]
  BY <1>1, <1>2, JobMoves DEF Before
<1>4. JobsHold /\ FinitelyMany
  BY DEF Before, Shared
<1>5. JobHolds(w, job[w])
  BY <1>4, JobsHoldEach
<1>6. \A v \in Worker : job'[v].mc = job[v].mc
  BY <1>1, <1>2, <1>3, <1>5 DEF JobHolds
<1>7. JobHolds(w, j)'
  BY <1>1, <1>2, <1>3 DEF JobHolds
<1>8. JobsHold'
  BY <1>1, <1>3, <1>4, <1>7, JobsHoldKept
<1>9. FinitelyMany' /\ \A m \in MC : Load(m)' = Load(m)
  BY <1>1, <1>4, <1>6, LoadsStay
<1>10. TurnsAreKept'
  BY <1>1, <1>4, <1>9, LoadsAreNumbers, NoTurnTaken DEF Before, Shared
<1> QED
  BY <1>1, <1>3, <1>8, <1>9, <1>10 DEF Before, Shared

(* The eligible ones are the same for every worker.                         *)
LEMMA DiscoverKeeps ==
  ASSUME Before, NEW w \in Worker, Discover(w)
  PROVE  Shared'
<1> DEFINE k == [job[w] EXCEPT !.at = "pick", !.eligible = Eligible]
<1>1. /\ job[w].at = "discover" /\ mode = "dynamic" /\ job[w] \in Job
      /\ JobIs(w, IF Eligible = <<>> THEN Idle ELSE k)
      /\ UNCHANGED <<mode, consumers, counter, mcCounter, placed, failures>>
  BY DEF Discover, Before, Shared, counters
<1>2. /\ k \in Job /\ k.at = "pick" /\ k.cluster = job[w].cluster /\ k.mc = job[w].mc
      /\ k.eligible = Eligible
  <2>1. Eligible \in Seq(MC)
    BY <1>1, RoundFacts DEF Before, Shared
  <2> QED
    BY <1>1, <2>1 DEF Job
<1> HIDE DEF k
<1>3. PICK j \in Job : /\ JobIs(w, j)
                       /\ IF Eligible = <<>> THEN j = Idle ELSE j = k
  BY <1>1, <1>2, IdleIsJob
<1>4. /\ job' \in [Worker -> Job]
      /\ \A v \in Worker : job'[v] = IF v = w THEN j ELSE job[v]
  BY <1>3, JobMoves DEF Before
<1>5. JobsHold /\ FinitelyMany
  BY DEF Before, Shared
<1>6. JobHolds(w, job[w])
  BY <1>5, JobsHoldEach
<1>7. \A v \in Worker : job'[v].mc = job[v].mc
  BY <1>1, <1>2, <1>3, <1>4, <1>6, IdleIsJob DEF JobHolds
<1>8. JobHolds(w, j)'
  <2>1. UNCHANGED Eligible
    BY <1>1 DEF Eligible
  <2> QED
    BY <1>1, <1>2, <1>3, <1>4, <1>6, <2>1, IdleIsJob DEF JobHolds
<1>9. JobsHold'
  BY <1>1, <1>4, <1>5, <1>8, JobsHoldKept
<1>10. FinitelyMany' /\ \A m \in MC : Load(m)' = Load(m)
  BY <1>1, <1>5, <1>7, LoadsStay
<1>11. TurnsAreKept'
  BY <1>1, <1>5, <1>10, LoadsAreNumbers, NoTurnTaken DEF Before, Shared
<1> QED
  BY <1>1, <1>4, <1>9, <1>10, <1>11 DEF Before, Shared

(* The domain takes no turn of the management clusters.                     *)
LEMMA PickDomainKeeps ==
  ASSUME Before, NEW w \in Worker, PickDomain(w)
  PROVE  Shared'
<1>1. /\ job[w].at = "domains" /\ job[w] \in Job
      /\ JobIs(w, [job[w] EXCEPT !.at = "put"])
      /\ UNCHANGED <<mode, consumers, counter, mcCounter, placed, failures>>
  BY DEF PickDomain, Before, Shared
<1>2. PICK k \in Job : /\ k = [job[w] EXCEPT !.at = "put"]
                       /\ k.at = "put" /\ k.cluster = job[w].cluster /\ k.mc = job[w].mc
  BY <1>1 DEF Job
<1>3. /\ job' \in [Worker -> Job]
      /\ \A v \in Worker : job'[v] = IF v = w THEN k ELSE job[v]
  BY <1>1, <1>2, JobMoves DEF Before
<1>4. JobsHold /\ FinitelyMany
  BY DEF Before, Shared
<1>5. JobsHold'
  <2>1. JobHolds(w, job[w])
    BY <1>4, JobsHoldEach
  <2>2. JobHolds(w, k)'
    BY <1>1, <1>2, <1>3, <2>1 DEF JobHolds
  <2> QED
    BY <1>1, <1>3, <1>4, <2>2, JobsHoldKept
<1>6. \A v \in Worker : job'[v].mc = job[v].mc
  BY <1>2, <1>3
<1>7. FinitelyMany' /\ \A m \in MC : Load(m)' = Load(m)
  BY <1>1, <1>4, <1>6, LoadsStay
<1>8. TurnsAreKept'
  BY <1>1, <1>4, <1>7, LoadsAreNumbers, NoTurnTaken DEF Before, Shared
<1> QED
  BY <1>1, <1>3, <1>5, <1>7, <1>8 DEF Before, Shared

(* A worker gets the management cluster whose turn it is.                   *)
LEMMA TurnGivenKeeps ==
  ASSUME Before, NEW w \in Worker, NEW k \in Job, NEW m \in MC, NEW p,
         UNCHANGED <<mode, consumers, placed, failures>>, Round # <<>>,
         counter' \in Nat, mcCounter' \in Nat, Taken' = Taken + 1, p = NextPosition,
         JobIs(w, k), job[w].mc = NoMC, k.mc = m, JobHolds(w, k)',
         \A i \in 1..Len(Round) : Round[i] = m <=> i = p /\ Usable(p)
  PROVE  Shared'
<1>1. JobsHold /\ FinitelyMany /\ failures \in Nat /\ consumers = Consumers
  BY DEF Before, Shared
<1>2. /\ job' \in [Worker -> Job]
      /\ \A v \in Worker : job'[v] = IF v = w THEN k ELSE job[v]
  BY JobMoves DEF Before
<1>3. JobsHold'
  BY <1>1, <1>2, JobsHoldKept
<1>4. /\ \A a \in MC : IsFiniteSet(HoldingSet(a)')
      /\ Holding(m)' = Holding(m) + 1
      /\ \A a \in MC \ {m} : Holding(a)' = Holding(a)
  <2>1. job[w].mc \notin MC
    BY ListAssumption
  <2>2. \A v \in Worker : job'[v].mc = IF v = w THEN m ELSE job[v].mc
    BY <1>2
  <2> QED
    BY <1>1, <2>1, <2>2, TakesHold
<1>5. \A a \in MC : PlacedSet(a)' = PlacedSet(a) /\ PlacedOn(a)' = PlacedOn(a)
  BY DEF PlacedSet, PlacedOn
<1>6. FinitelyMany'
  BY <1>1, <1>4, <1>5, LoadType DEF FinitelyMany, PlacedSet, HoldingSet
<1>7. \A a \in MC : Load(a)' = IF a = m THEN Load(a) + 1 ELSE Load(a)
  <2> SUFFICES ASSUME NEW a \in MC
               PROVE  Load(a)' = IF a = m THEN Load(a) + 1 ELSE Load(a)
    OBVIOUS
  <2>1. PlacedOn(a) \in Nat /\ Holding(a) \in Nat
    BY <1>1, LoadType
  <2>2. PlacedOn(a)' = PlacedOn(a) /\ Holding(a)' = IF a = m THEN Holding(a) + 1 ELSE Holding(a)
    BY <1>4, <1>5
  <2>3. PlacedOn(a)' + Holding(a)'
           = IF a = m THEN PlacedOn(a) + Holding(a) + 1 ELSE PlacedOn(a) + Holding(a)
    BY <2>1, <2>2
  <2> QED
    BY <2>3 DEF Load
<1>8. \A i \in 1..Len(Round) :
         Load(Round[i])' = IF i = p /\ Usable(p) THEN Load(Round[i]) + 1 ELSE Load(Round[i])
  <2> SUFFICES ASSUME NEW i \in 1..Len(Round)
               PROVE  Load(Round[i])' = IF i = p /\ Usable(p) THEN Load(Round[i]) + 1
                                        ELSE Load(Round[i])
    OBVIOUS
  <2>1. PICK a \in MC : a = Round[i]
    BY <1>1, RoundFacts DEF Before, Shared
  <2>2. UNCHANGED Round
    BY RoundStays
  <2>3. Load(Round[i])' = Load(a)'
    BY <2>1, <2>2 DEF Load, PlacedOn, Holding
  <2>4. a = m <=> i = p /\ Usable(p)
    BY <2>1
  <2> QED
    BY <1>7, <2>1, <2>3, <2>4
<1>9. TurnsAreKept'
  BY <1>6, <1>8, TurnTaken DEF Before
<1> QED
  BY <1>1, <1>2, <1>3, <1>6, <1>9 DEF Before, Shared

(* A management cluster's turn is taken when it is picked.                  *)
LEMMA PickMCKeeps ==
  ASSUME Before, NEW w \in Worker, PickMC(w)
  PROVE  Shared'
<1> DEFINE n == Len(Eligible)
           p == (mcCounter' % n) + 1
<1>1. /\ JobsHold /\ FinitelyMany /\ counter \in Nat /\ mcCounter \in Nat /\ failures \in Nat
      /\ job[w] \in Job /\ consumers = Consumers /\ mode \in {"static", "dynamic"}
  BY DEF Before, Shared
<1>2. /\ job[w].at = "pick" /\ job[w].eligible = Eligible /\ Eligible # <<>>
      /\ mode = "dynamic" /\ job[w].mc = NoMC /\ JobHolds(w, job[w])
      /\ mcCounter' = mcCounter + 1
      /\ UNCHANGED <<mode, consumers, counter, placed, failures>>
  BY <1>1, JobsHoldEach DEF PickMC, JobHolds
<1>3. /\ Round = Eligible /\ n \in Nat /\ n > 0 /\ \A i \in 1..n : Eligible[i] \in MC
      /\ \A i, j \in 1..n : Eligible[i] = Eligible[j] => i = j
  BY <1>1, <1>2, RoundFacts DEF Before
<1>4. Taken = mcCounter /\ Taken' = Taken + 1 /\ p = NextPosition
  BY <1>2, <1>3 DEF Taken, NextPosition
<1>5. p \in 1..n
  <2>1. mcCounter' % n \in 0..(n - 1)
    BY <1>1, <1>2, <1>3, NextResidue
  <2> QED
    BY <1>3, <2>1
<1>6. PICK m \in MC : m = Eligible[p]
  BY <1>3, <1>5
<1>7. PICK k \in Job : /\ JobIs(w, k)
                       /\ k.at = "domains" /\ k.cluster = job[w].cluster /\ k.mc = m
  <2>1. JobIs(w, [job[w] EXCEPT !.at = "domains", !.eligible = <<>>, !.mc = m])
    BY <1>2, <1>6 DEF PickMC
  <2>2. [job[w] EXCEPT !.at = "domains", !.eligible = <<>>, !.mc = m] \in Job
    <3>1. <<>> \in Seq(MC)
      OBVIOUS
    <3> DEFINE e == <<>>
    <3>2. e \in Seq(MC)
      BY <3>1
    <3> HIDE DEF e
    <3>3. [job[w] EXCEPT !.at = "domains", !.eligible = e, !.mc = m] \in Job
      BY <1>1, <1>6, <3>2 DEF Job
    <3> QED
      BY <3>3 DEF e
  <2>3. PICK k \in Job : k = [job[w] EXCEPT !.at = "domains", !.eligible = <<>>, !.mc = m]
    BY <2>2
  <2>4. k.at = "domains" /\ k.cluster = job[w].cluster /\ k.mc = m
    BY <1>1, <2>3 DEF Job
  <2> QED
    BY <2>1, <2>3, <2>4
<1>8. JobHolds(w, k)'
  <2>1. /\ job' \in [Worker -> Job]
        /\ \A v \in Worker : job'[v] = IF v = w THEN k ELSE job[v]
    BY <1>7, JobMoves DEF Before
  <2> QED
    BY <1>2, <1>7, <2>1, ListAssumption DEF JobHolds
<1> HIDE DEF n, p
<1>9. \A i \in 1..Len(Round) : Round[i] = m <=> i = p /\ Usable(p)
  BY <1>2, <1>3, <1>5, <1>6 DEF n, Usable
<1>10. Round # <<>>
  BY <1>2, <1>3
<1> QED
  BY <1>1, <1>2, <1>4, <1>7, <1>8, <1>9, <1>10, TurnGivenKeeps

(* The static selector gives a turn also to a candidate without a base      *)
(* domain: that selection fails, and the job is idle again.                 *)
LEMMA SelectStaticKeeps ==
  ASSUME Before, NEW w \in Worker, SelectStatic(w)
  PROVE  Shared'
<1> DEFINE p == (counter % Len(Candidates)) + 1
           candidate == Candidates[p]
<1>1. /\ JobsHold /\ FinitelyMany /\ counter \in Nat /\ mcCounter \in Nat /\ failures \in Nat
      /\ job[w] \in Job /\ consumers = Consumers /\ mode = "static"
  BY DEF Before, Shared, SelectStatic
<1>2. /\ job[w].at = "discover" /\ job[w].mc = NoMC /\ JobHolds(w, job[w])
      /\ counter' = counter + 1
      /\ UNCHANGED <<mode, consumers, mcCounter, placed, failures>>
  BY <1>1, JobsHoldEach DEF SelectStatic, JobHolds
<1>3. /\ Round # <<>> /\ Len(Round) = Len(Candidates)
      /\ Len(Round) \in Nat /\ Len(Round) > 0
      /\ \A i \in 1..Len(Round) : Round[i] = Candidates[i].name
      /\ \A i \in 1..Len(Round) : Round[i] \in MC
      /\ \A i, j \in 1..Len(Round) : Round[i] = Round[j] => i = j
  BY <1>1, RoundFacts DEF Before
<1>4. Taken = counter /\ Taken' = Taken + 1 /\ p = NextPosition
  BY <1>1, <1>2, <1>3 DEF Taken, NextPosition
<1>5. p \in 1..Len(Round)
  <2>1. counter % Len(Round) \in 0..(Len(Round) - 1)
    BY <1>1, <1>3, NextResidue
  <2> QED
    BY <1>3, <2>1
<1>6. JobIs(w, IF candidate.domain = NoDomain
               THEN Idle
               ELSE [job[w] EXCEPT !.at = "put", !.mc = candidate.name])
  BY DEF SelectStatic
<1>7. Usable(p) <=> candidate.domain # NoDomain
  BY <1>1 DEF Usable
<1>8. candidate.name = Round[p] /\ Round[p] \in MC
  BY <1>3, <1>5
<1> HIDE DEF p, candidate
<1>9. CASE candidate.domain # NoDomain
  <2>1. PICK m \in MC : m = Round[p]
    BY <1>8
  <2>2. [job[w] EXCEPT !.at = "put", !.mc = m] \in Job
    BY <1>1 DEF Job
  <2>3. PICK k \in Job : k = [job[w] EXCEPT !.at = "put", !.mc = m]
    BY <2>2
  <2>4. k.at = "put" /\ k.cluster = job[w].cluster /\ k.mc = m
    BY <1>1, <2>3 DEF Job
  <2>5. JobIs(w, k)
    BY <1>6, <1>8, <1>9, <2>1, <2>3
  <2>6. JobHolds(w, k)'
    <3>1. /\ job' \in [Worker -> Job]
          /\ \A v \in Worker : job'[v] = IF v = w THEN k ELSE job[v]
      BY <2>5, JobMoves DEF Before
    <3> QED
      BY <1>2, <2>4, <3>1, ListAssumption DEF JobHolds
  <2>7. \A i \in 1..Len(Round) : Round[i] = m <=> i = p /\ Usable(p)
    BY <1>3, <1>5, <1>7, <1>9, <2>1
  <2> QED
    BY <1>1, <1>2, <1>3, <1>4, <2>1, <2>4, <2>5, <2>6, <2>7, TurnGivenKeeps
<1>10. CASE candidate.domain = NoDomain
  <2>1. JobIs(w, Idle)
    BY <1>6, <1>10
  <2>2. /\ job' \in [Worker -> Job]
        /\ \A v \in Worker : job'[v] = IF v = w THEN Idle ELSE job[v]
    BY <2>1, IdleIsJob, JobMoves DEF Before
  <2>3. JobHolds(w, Idle)'
    BY IdleIsJob DEF JobHolds
  <2>4. JobsHold'
    BY <1>1, <1>2, <2>2, <2>3, JobsHoldKept
  <2>5. \A v \in Worker : job'[v].mc = job[v].mc
    BY <1>2, <2>2, IdleIsJob
  <2>6. FinitelyMany' /\ \A m \in MC : Load(m)' = Load(m)
    BY <1>1, <1>2, <2>5, LoadsStay
  <2>7. \A i \in 1..Len(Round) :
           Load(Round[i])' = IF i = p /\ Usable(p) THEN Load(Round[i]) + 1 ELSE Load(Round[i])
    <3>1. UNCHANGED Round
      BY <1>2, RoundStays
    <3> QED
      BY <1>3, <1>7, <1>10, <2>6, <3>1 DEF Load, PlacedOn, Holding
  <2>8. TurnsAreKept'
    BY <1>2, <1>3, <1>4, <2>6, <2>7, TurnTaken DEF Before
  <2> QED
    BY <1>1, <1>2, <2>2, <2>4, <2>6, <2>8 DEF Before, Shared
<1> QED
  BY <1>9, <1>10

(* Recording a placement turns a selection in progress into a placement.    *)
LEMMA PlaceKeeps ==
  ASSUME Before, NEW w \in Worker, Place(w)
  PROVE  Shared'
<1>1. /\ JobsHold /\ FinitelyMany /\ mcCounter \in Nat /\ failures \in Nat
      /\ job[w] \in Job /\ placed \in [Cluster -> MC \cup {NoMC}] /\ JobHolds(w, job[w])
  BY JobsHoldEach DEF Before, Shared
<1>2. /\ job[w].at = "put" /\ JobIs(w, Idle)
      /\ placed' = [placed EXCEPT ![job[w].cluster] = job[w].mc]
      /\ UNCHANGED <<mode, consumers, counter, mcCounter, failures>>
  BY DEF Place, counters
<1>3. PICK c \in Cluster, m \in MC : c = job[w].cluster /\ m = job[w].mc /\ placed[c] = NoMC
  BY <1>1, <1>2 DEF JobHolds, Job
<1>4. /\ job' \in [Worker -> Job]
      /\ \A v \in Worker : job'[v] = IF v = w THEN Idle ELSE job[v]
  BY <1>2, IdleIsJob, JobMoves DEF Before
<1>5. /\ placed' \in [Cluster -> MC \cup {NoMC}]
      /\ \A d \in Cluster : placed'[d] = IF d = c THEN m ELSE placed[d]
  BY <1>1, <1>2, <1>3
<1>6. JobsHold'
  <2>1. JobHolds(w, Idle)'
    BY IdleIsJob DEF JobHolds
  <2>2. \A v \in Worker \ {w} :
           job[v].at # "idle" => placed'[job[v].cluster] = placed[job[v].cluster]
    BY <1>1, <1>2, <1>3, <1>5, JobsHoldEach DEF JobHolds
  <2> QED
    BY <1>1, <1>2, <1>4, <2>1, <2>2, JobsHoldKept
<1>7. /\ \A a \in MC : IsFiniteSet(HoldingSet(a)')
      /\ Holding(m)' = Holding(m) - 1
      /\ \A a \in MC \ {m} : Holding(a)' = Holding(a)
  BY <1>1, <1>3, <1>4, IdleIsJob, ListAssumption, LetsGo
<1>8. /\ \A a \in MC : IsFiniteSet(PlacedSet(a)')
      /\ PlacedOn(m)' = PlacedOn(m) + 1
      /\ \A a \in MC \ {m} : PlacedOn(a)' = PlacedOn(a)
  <2>1. PlacedSet(m)' = PlacedSet(m) \cup {c} /\ c \notin PlacedSet(m)
    BY <1>3, <1>5, ListAssumption DEF PlacedSet
  <2>2. \A a \in MC \ {m} : PlacedSet(a)' = PlacedSet(a)
    BY <1>3, <1>5, ListAssumption DEF PlacedSet
  <2>3. /\ IsFiniteSet(PlacedSet(m)')
        /\ Cardinality(PlacedSet(m)') = Cardinality(PlacedSet(m)) + 1
    BY <1>1, <2>1, LoadType, FS_AddElement
  <2>4. \A a \in MC \ {m} : IsFiniteSet(PlacedSet(a)')
    BY <1>1, <2>2, LoadType
  <2>5. \A a : PlacedOn(a) = Cardinality(PlacedSet(a)) /\ PlacedOn(a)' = Cardinality(PlacedSet(a)')
    BY DEF PlacedOn, PlacedSet
  <2> QED
    BY <2>2, <2>3, <2>4, <2>5
<1>9. FinitelyMany'
  BY <1>7, <1>8 DEF FinitelyMany, PlacedSet, HoldingSet
<1>10. \A a \in MC : Load(a)' = Load(a) /\ Load(a) \in Nat
  <2> SUFFICES ASSUME NEW a \in MC PROVE Load(a)' = Load(a) /\ Load(a) \in Nat
    OBVIOUS
  <2>1. PlacedOn(a) \in Nat /\ Holding(a) \in Nat /\ Load(a) \in Nat
    BY <1>1, LoadType
  <2>2. PlacedOn(a)' + Holding(a)' = PlacedOn(a) + Holding(a)
    BY <1>7, <1>8, <2>1
  <2> QED
    BY <2>1, <2>2 DEF Load
<1>11. TurnsAreKept'
  BY <1>1, <1>2, <1>9, <1>10, NoTurnTaken DEF Before
<1> QED
  BY <1>1, <1>2, <1>4, <1>5, <1>6, <1>9, <1>11 DEF Before, Shared

(* A turn that fails is counted as a failure.                               *)
LEMMA FailKeeps ==
  ASSUME Before, NEW w \in Worker, Fail(w)
  PROVE  Shared'
<1>1. /\ JobsHold /\ FinitelyMany /\ mcCounter \in Nat /\ failures \in Nat
      /\ job[w] \in Job /\ JobHolds(w, job[w])
  BY JobsHoldEach DEF Before, Shared
<1>2. /\ JobIs(w, Idle) /\ failures' = failures + 1
      /\ UNCHANGED <<mode, consumers, counter, mcCounter, placed>>
  BY DEF Fail, counters
<1>3. /\ job' \in [Worker -> Job]
      /\ \A v \in Worker : job'[v] = IF v = w THEN Idle ELSE job[v]
  BY <1>2, IdleIsJob, JobMoves DEF Before
<1>4. JobsHold'
  <2>1. JobHolds(w, Idle)'
    BY IdleIsJob DEF JobHolds
  <2> QED
    BY <1>1, <1>2, <1>3, <2>1, JobsHoldKept
<1>5. \A a \in MC : PlacedSet(a)' = PlacedSet(a) /\ PlacedOn(a)' = PlacedOn(a)
  BY <1>2 DEF PlacedSet, PlacedOn
<1>6. /\ \A a \in MC : IsFiniteSet(HoldingSet(a)')
      /\ \A a \in MC : Holding(a)' = Holding(a) \/ Holding(a)' = Holding(a) - 1
  <2>1. CASE job[w].mc \in MC
    BY <1>1, <1>3, <2>1, IdleIsJob, ListAssumption, LetsGo
  <2>2. CASE job[w].mc \notin MC
    <3>1. \A a \in MC : HoldingSet(a)' = HoldingSet(a)
      BY <1>3, <2>2, IdleIsJob, ListAssumption DEF HoldingSet
    <3>2. \A a : Holding(a) = Cardinality(HoldingSet(a)) /\ Holding(a)' = Cardinality(HoldingSet(a)')
      BY DEF Holding, HoldingSet
    <3> QED
      BY <1>1, <3>1, <3>2, LoadType
  <2> QED
    BY <2>1, <2>2
<1>7. FinitelyMany'
  BY <1>1, <1>5, <1>6, LoadType DEF FinitelyMany, PlacedSet, HoldingSet
<1>8. \A a \in MC : Load(a)' <= Load(a) /\ Load(a) + failures <= Load(a)' + failures'
  <2> SUFFICES ASSUME NEW a \in MC
               PROVE  Load(a)' <= Load(a) /\ Load(a) + failures <= Load(a)' + failures'
    OBVIOUS
  <2>1. PlacedOn(a) \in Nat /\ Holding(a) \in Nat
    BY <1>1, LoadType
  <2>2. PlacedOn(a)' = PlacedOn(a) /\ (Holding(a)' = Holding(a) \/ Holding(a)' = Holding(a) - 1)
    BY <1>5, <1>6
  <2>3. /\ PlacedOn(a)' + Holding(a)' <= PlacedOn(a) + Holding(a)
        /\ PlacedOn(a) + Holding(a) + failures <= PlacedOn(a)' + Holding(a)' + failures'
    BY <1>1, <1>2, <2>1, <2>2
  <2> QED
    BY <2>3 DEF Load
<1>9. TurnsAreKept'
  BY <1>1, <1>2, <1>7, <1>8, NoTurnTaken DEF Before
<1> QED
  BY <1>1, <1>2, <1>3, <1>4, <1>7, <1>9 DEF Before, Shared

-----------------------------------------------------------------------------
(* The invariant, and what follows from it                                  *)

LEMMA SelectorInitInv == ListedOnce /\ Init => SelectorInv
<1> SUFFICES ASSUME ListedOnce, Init PROVE SelectorInv
  OBVIOUS
<1>1. job \in [Worker -> Job] /\ placed \in [Cluster -> MC \cup {NoMC}]
  BY IdleIsJob DEF Init
<1>2. JobsHold
  BY IdleIsJob DEF Init, JobsHold
<1>3. \A m \in MC : /\ {c \in Cluster : placed[c] = m} = {}
                    /\ {w \in Worker : job[w].mc = m} = {}
  BY IdleIsJob, ListAssumption DEF Init
<1>4. FinitelyMany
  BY <1>3, FS_EmptySet DEF FinitelyMany
<1>5. \A m \in MC : PlacedOn(m) = 0 /\ Holding(m) = 0
  BY <1>3, FS_EmptySet DEF PlacedOn, Holding
<1>6. TurnsAreKept
  <2> SUFFICES ASSUME Round # <<>>
               PROVE  \A i \in 1..Len(Round) :
                         LET load == PlacedOn(Round[i]) + Holding(Round[i]) IN
                         load <= Turns(i, 0) /\ (Usable(i) => Turns(i, 0) <= load + failures)
    BY DEF TurnsAreKept, Taken, Init
  <2>1. /\ Len(Round) \in Nat /\ Len(Round) > 0 /\ Taken = 0 /\ failures = 0
        /\ \A i \in 1..Len(Round) : Round[i] \in MC
    BY RoundFacts DEF Init, Taken
  <2>2. 0 \in 0..(Len(Round) - 1) /\ 0 * Len(Round) + 0 = 0
    BY <2>1
  <2>3. Taken % Len(Round) = 0
    BY <2>1, <2>2, Residue
  <2>4. \A i : Turns(i, 0) = 0
    BY <2>3 DEF Turns
  <2>5. \A i \in 1..Len(Round) : PlacedOn(Round[i]) = 0 /\ Holding(Round[i]) = 0
    BY <1>5, <2>1
  <2> QED
    BY <2>1, <2>4, <2>5
<1> QED
  BY <1>1, <1>2, <1>4, <1>6 DEF Init, SelectorInv, Shared

LEMMA SelectorNextInv == ListedOnce /\ SelectorInv /\ [Next]_vars => SelectorInv'
<1> SUFFICES ASSUME ListedOnce, SelectorInv, [Next]_vars PROVE SelectorInv'
  OBVIOUS
<1>1. changes \in Nat
  BY DEF SelectorInv
<1>2. CASE ConsumersChange
  <2>1. changes' = changes + 1
    BY <1>2, Zenon DEF ConsumersChange
  <2> QED
    BY <1>1, <2>1 DEF SelectorInv, Undisturbed
<1>3. CASE UNCHANGED vars
  <2>1. UNCHANGED <<mode, consumers, counter, mcCounter, job, placed, failures, changes>>
    BY <1>3 DEF vars, counters
  <2>2. /\ UNCHANGED <<Eligible, Round, Taken>> /\ (\A i : Usable(i)' <=> Usable(i))
        /\ (Undisturbed' => Undisturbed)
    BY <2>1, RoundStays DEF Taken, Undisturbed
  <2>3. JobsHold => JobsHold'
    BY <2>1, <2>2 DEF JobsHold
  <2>4. FinitelyMany => FinitelyMany'
    BY <2>1 DEF FinitelyMany
  <2>5. TurnsAreKept => TurnsAreKept'
    BY <2>1, <2>2 DEF TurnsAreKept, Turns, PlacedOn, Holding
  <2> QED
    BY <2>1, <2>2, <2>3, <2>4, <2>5 DEF SelectorInv, Shared
<1>4. ASSUME NEW w \in Worker,
             SelectStep(w) \/ Fail(w) \/ \E c \in Cluster : Start(w, c)
      PROVE  SelectorInv'
  <2>1. UNCHANGED <<mode, changes>>
    BY <1>4 DEF SelectStep, SelectStatic, Discover, PickMC, PickDomain, Place, Fail, Start
  <2> SUFFICES ASSUME Undisturbed'
               PROVE  Shared'
    BY <1>1, <2>1 DEF SelectorInv
  <2>2. Before
    BY <2>1 DEF Before, SelectorInv, Undisturbed
  <2> QED
    BY <1>4, <2>2, StartKeeps, SelectStaticKeeps, DiscoverKeeps, PickMCKeeps, PickDomainKeeps,
       PlaceKeeps, FailKeeps DEF SelectStep
<1> QED
  BY <1>2, <1>3, <1>4 DEF Next, Finished

(* The hypothesis is about constants, and stays.                            *)
LEMMA InvariantAndHypothesis ==
  SafeSpec /\ ListedOnce => [](ListedOnce /\ SelectorInv)
<1> DEFINE Inv == ListedOnce /\ SelectorInv
<1>1. ListedOnce /\ Init => Inv
  BY SelectorInitInv
<1>2. Inv /\ [Next]_vars => Inv'
  BY SelectorNextInv DEF ListedOnce
<1> HIDE DEF Inv
<1>3. SafeSpec /\ ListedOnce => []Inv
  BY <1>1, <1>2, PTL DEF SafeSpec
<1> QED
  BY <1>3 DEF Inv

(* The inductive invariant: with q full rounds behind them, every position  *)
(* has had its q or q + 1 turns, each of them a placement, a selection in   *)
(* progress or one of the failures.                                         *)
THEOREM SelectorInvariantHolds == SafeSpec /\ ListedOnce => []SelectorInv
BY InvariantAndHypothesis, PTL

(* Turns that differ by one, and what is not yet placed or has failed.      *)
LEMMA Slack ==
  ASSUME NEW x \in Nat, NEW y \in Nat, x <= y + 1,
         NEW m \in Nat, NEW h \in Nat, m + h <= x,
         NEW n \in Nat, NEW k \in Nat, NEW f \in Nat, y <= n + k + f
  PROVE  m <= n + 1 + f + k
OBVIOUS

(* While the registry stands, no eligible management cluster gets ahead of  *)
(* another by more than one turn, the failures and the selections in        *)
(* progress: the selector counts its turns when they are taken, before it   *)
(* is known whether they succeed.                                           *)
THEOREM PlacementIsEven == SafeSpec /\ ListedOnce => []EvenPlacement
<1>1. ListedOnce /\ SelectorInv => EvenPlacement
  <2> SUFFICES ASSUME ListedOnce, SelectorInv, Undisturbed,
                      NEW i \in 1..Len(Round), NEW j \in 1..Len(Round), Usable(j)
               PROVE  PlacedOn(Round[i]) <= PlacedOn(Round[j]) + 1 + failures + Holding(Round[j])
    BY DEF EvenPlacement
  <2>1. Shared /\ FinitelyMany
    BY DEF SelectorInv, Shared
  <2>2. /\ Len(Round) \in Nat /\ Round # <<>>
        /\ \E a, b \in MC : a = Round[i] /\ b = Round[j]
    BY <2>1, RoundFacts DEF Shared
  <2>3. PICK a \in MC, b \in MC : a = Round[i] /\ b = Round[j]
    BY <2>2
  <2>4. PICK q \in 0..Taken : \A k \in 1..Len(Round) :
          LET load == PlacedOn(Round[k]) + Holding(Round[k]) IN
          load <= Turns(k, q) /\ (Usable(k) => Turns(k, q) <= load + failures)
    BY <2>1, <2>2 DEF Shared, TurnsAreKept
  <2>5. PICK x \in Nat, y \in Nat : x = Turns(i, q) /\ y = Turns(j, q) /\ x <= y + 1
    <3>1. q \in Nat
      BY <2>1 DEF Shared, Taken
    <3> QED
      BY <3>1 DEF Turns
  <2>6. PlacedOn(a) + Holding(a) <= x /\ y <= PlacedOn(b) + Holding(b) + failures
    BY <2>3, <2>4, <2>5
  <2>7. /\ PlacedOn(a) \in Nat /\ Holding(a) \in Nat
        /\ PlacedOn(b) \in Nat /\ Holding(b) \in Nat /\ failures \in Nat
    BY <2>1, LoadType DEF Shared
  <2> QED
    BY <2>3, <2>5, <2>6, <2>7, Slack
<1> QED
  BY <1>1, InvariantAndHypothesis, PTL

-----------------------------------------------------------------------------
(* Where clusters are placed, also while the registry changes               *)

\* SelectionsSound for one worker.
SelectionSound(w, j) ==
    /\ j.mc # NoMC => Suitable(j.mc)
    /\ j.at \in {"pick", "domains"} => mode = "dynamic"
    /\ j.at = "pick" =>
          j.eligible # <<>> /\ Elements(j.eligible) \subseteq Elements(SecretMCs)
    /\ j.at # "idle" => j.cluster \in Cluster /\ placed[j.cluster] = NoMC
    /\ \A v \in Worker \ {w} : j.at # "idle" => job[v].cluster # j.cluster

LEMMA SelectionsSoundEach == SelectionsSound <=> \A w \in Worker : SelectionSound(w, job[w])
BY DEF SelectionsSound, SelectionSound

(* One job moves on, and nothing is placed but the cluster it has had.      *)
LEMMA SelectionsKept ==
  ASSUME WhereInv, UNCHANGED <<mode, consumers>>, NEW w \in Worker, NEW j \in Job, JobIs(w, j),
         counter' \in Nat, mcCounter' \in Nat, domCounter' \in Nat,
         placed' \in [Cluster -> MC \cup {NoMC}],
         \A c \in Cluster : placed'[c] = placed[c] \/ (c = job[w].cluster /\ job[w].at # "idle"),
         PlacedWhereListed',
         \A v \in Worker \ {w} : job[v].at # "idle" => j.cluster # job[v].cluster,
         j.mc # NoMC => Suitable(j.mc),
         j.at \in {"pick", "domains"} => mode = "dynamic",
         j.at = "pick" =>
            j.eligible # <<>> /\ Elements(j.eligible) \subseteq Elements(SecretMCs),
         j.at # "idle" =>
            /\ j.cluster \in Cluster /\ placed'[j.cluster] = NoMC
            /\ \A v \in Worker \ {w} : job[v].cluster # j.cluster
  PROVE  WhereInv'
<1>1. /\ job' \in [Worker -> Job] /\ SelectionsSound
      /\ \A v \in Worker : job'[v] = IF v = w THEN j ELSE job[v]
  BY DEF WhereInv, JobIs
<1>2. \A m : Suitable(m)' <=> Suitable(m)
  BY DEF Suitable
<1>3. ASSUME NEW v \in Worker, v # w PROVE SelectionSound(v, job[v])'
  <2>1. SelectionSound(v, job[v]) /\ job'[v] = job[v] /\ job'[w] = j
    BY <1>1, <1>3, SelectionsSoundEach
  <2>2. job[v].at # "idle" => placed'[job[v].cluster] = NoMC
    BY <1>1, <1>3, <2>1 DEF SelectionSound
  <2>3. \A u \in Worker \ {v} : job[v].at # "idle" => job'[u].cluster # job[v].cluster
    BY <1>1, <1>3, <2>1 DEF SelectionSound
  <2> QED
    BY <1>2, <2>1, <2>2, <2>3 DEF SelectionSound
<1>4. SelectionSound(w, job[w])'
  BY <1>1, <1>2 DEF SelectionSound
<1>5. (\A v \in Worker : SelectionSound(v, job[v]))'
  BY <1>3, <1>4
<1>6. SelectionsSound'
  BY <1>5 DEF SelectionsSound, SelectionSound
<1> QED
  BY <1>1, <1>6 DEF WhereInv

(* The eligible ones have a secret, whatever is registered.                 *)
LEMMA EligibleHaveSecrets ==
  consumers \in Seq(MC) => Eligible \in Seq(MC) /\ Elements(Eligible) \subseteq Elements(SecretMCs)
<1>1. SecretMCs \in Seq(MC)
  BY ListAssumption
<1> QED
  BY <1>1, SelectedElements DEF Eligible, EligibleAmong

(* A step of a selection or of the reconcile around it.                     *)
LEMMA WhereStepKeeps ==
  ASSUME WhereInv, NEW w \in Worker, SelectStep(w) \/ Fail(w) \/ \E c \in Cluster : Start(w, c)
  PROVE  WhereInv'
<1>1. /\ job[w] \in Job /\ SelectionSound(w, job[w]) /\ PlacedWhereListed
      /\ \A v \in Worker \ {w} : job[v] \in Job /\ SelectionSound(v, job[v])
      /\ counter \in Nat /\ mcCounter \in Nat /\ domCounter \in Nat
      /\ consumers \in Seq(MC) /\ mode \in {"static", "dynamic"}
      /\ placed \in [Cluster -> MC \cup {NoMC}]
  BY SelectionsSoundEach DEF WhereInv
<1>2. /\ UNCHANGED <<mode, placed>> => PlacedWhereListed'
      /\ \A v \in Worker \ {w} : job[v].at # "idle" => job[v].cluster \in Cluster
      /\ NoCluster \notin Cluster /\ NoMC \notin MC
  BY <1>1, ListAssumption DEF PlacedWhereListed, Suitable, SelectionSound
<1>3. ASSUME UNCHANGED <<mode, consumers, placed>>, JobIs(w, Idle),
             counter' \in Nat, mcCounter' \in Nat, domCounter' \in Nat
      PROVE  WhereInv'
  BY <1>1, <1>2, <1>3, IdleIsJob, SelectionsKept
<1>4. ASSUME UNCHANGED <<mode, consumers, placed>>, NEW j \in Job, JobIs(w, j),
             counter' \in Nat, mcCounter' \in Nat, domCounter' \in Nat,
             job[w].at # "idle", j.cluster = job[w].cluster,
             j.mc # NoMC => Suitable(j.mc),
             j.at \in {"pick", "domains"} => mode = "dynamic",
             j.at = "pick" =>
                j.eligible # <<>> /\ Elements(j.eligible) \subseteq Elements(SecretMCs)
      PROVE  WhereInv'
  <2>1. /\ j.cluster \in Cluster /\ placed'[j.cluster] = NoMC
        /\ \A v \in Worker \ {w} : job[v].cluster # j.cluster
    BY <1>1, <1>4 DEF SelectionSound
  <2> QED
    BY <1>1, <1>2, <1>4, <2>1, SelectionsKept
<1>5. CASE \E c \in Cluster : Start(w, c)
  <2>1. PICK c \in Cluster : Start(w, c)
    BY <1>5
  <2> DEFINE j == [Idle EXCEPT !.at = "discover", !.cluster = c]
  <2>2. /\ j \in Job /\ j.at = "discover" /\ j.cluster = c /\ j.mc = NoMC
    BY IdleIsJob DEF Job
  <2>3. /\ JobIs(w, j) /\ UNCHANGED <<mode, consumers, counter, mcCounter, domCounter, placed>>
        /\ placed[c] = NoMC /\ \A v \in Worker : job[v].cluster # c
    BY <2>1 DEF Start, counters
  <2> HIDE DEF j
  <2> QED
    BY <1>1, <1>2, <2>2, <2>3, SelectionsKept
<1>6. CASE SelectStatic(w)
  <2> DEFINE p == (counter % Len(Candidates)) + 1
             j == [job[w] EXCEPT !.at = "put", !.mc = Candidates[p].name]
  <2>1. /\ job[w].at = "discover" /\ mode = "static" /\ counter' \in Nat
        /\ JobIs(w, IF Candidates[p].domain = NoDomain THEN Idle ELSE j)
        /\ UNCHANGED <<mode, consumers, mcCounter, domCounter, placed>>
    BY <1>1, <1>6 DEF SelectStatic
  <2>2. p \in 1..Len(Candidates) /\ Candidates[p].name \in MC
    <3>1. counter % Len(Candidates) \in 0..(Len(Candidates) - 1)
      BY <1>1, CandidatesAreListed, NextResidue
    <3>2. p \in 1..Len(Candidates)
      BY <3>1, CandidatesAreListed
    <3> QED
      BY <3>2, CandidatesAreListed
  <2>3. /\ j \in Job /\ j.at = "put" /\ j.cluster = job[w].cluster /\ j.mc = Candidates[p].name
    BY <1>1, <2>2 DEF Job
  <2>4. Candidates[p].domain # NoDomain => Suitable(j.mc)
    BY <2>1, <2>2, <2>3 DEF Suitable
  <2> HIDE DEF j, p
  <2>5. CASE Candidates[p].domain = NoDomain
    BY <1>1, <1>3, <2>1, <2>5
  <2>6. CASE Candidates[p].domain # NoDomain
    BY <1>1, <1>4, <2>1, <2>3, <2>4, <2>6
  <2> QED
    BY <2>5, <2>6
<1>7. CASE Discover(w)
  <2> DEFINE j == [job[w] EXCEPT !.at = "pick", !.eligible = Eligible]
  <2>1. /\ job[w].at = "discover" /\ mode = "dynamic"
        /\ JobIs(w, IF Eligible = <<>> THEN Idle ELSE j)
        /\ UNCHANGED <<mode, consumers, counter, mcCounter, domCounter, placed>>
    BY <1>7 DEF Discover, counters
  <2>2. Eligible \in Seq(MC) /\ Elements(Eligible) \subseteq Elements(SecretMCs)
    BY <1>1, EligibleHaveSecrets
  <2>3. /\ j \in Job /\ j.at = "pick" /\ j.cluster = job[w].cluster /\ j.mc = job[w].mc
        /\ j.eligible = Eligible
    BY <1>1, <2>2 DEF Job
  <2>4. j.mc # NoMC => Suitable(j.mc)
    BY <1>1, <2>3 DEF SelectionSound
  <2> HIDE DEF j
  <2>5. CASE Eligible = <<>>
    BY <1>1, <1>3, <2>1, <2>5
  <2>6. CASE Eligible # <<>>
    BY <1>1, <1>4, <2>1, <2>2, <2>3, <2>4, <2>6
  <2> QED
    BY <2>5, <2>6
<1>8. CASE PickMC(w)
  <2> DEFINE eligible == job[w].eligible
             p == (mcCounter' % Len(eligible)) + 1
             j == [job[w] EXCEPT !.at = "domains", !.eligible = <<>>, !.mc = eligible[p]]
  <2>1. /\ job[w].at = "pick" /\ mcCounter' \in Nat
        /\ JobIs(w, j)
        /\ UNCHANGED <<mode, consumers, counter, domCounter, placed>>
    BY <1>1, <1>8 DEF PickMC
  <2>2. /\ eligible \in Seq(MC) /\ eligible # <<>> /\ mode = "dynamic"
        /\ Elements(eligible) \subseteq Elements(SecretMCs)
    BY <1>1, <2>1 DEF SelectionSound, Job
  <2>3. p \in 1..Len(eligible)
    <3>1. Len(eligible) \in Nat /\ Len(eligible) > 0
      BY <2>2
    <3>2. mcCounter' % Len(eligible) \in 0..(Len(eligible) - 1)
      BY <2>1, <3>1, NextResidue
    <3> QED
      BY <3>1, <3>2
  <2>4. eligible[p] \in MC /\ eligible[p] \in Elements(SecretMCs)
    <3>1. \A i \in 1..Len(eligible) : eligible[i] \in MC /\ eligible[i] \in Elements(eligible)
      BY <2>2 DEF Elements
    <3> QED
      BY <2>2, <2>3, <3>1
  <2>5. /\ j \in Job /\ j.at = "domains" /\ j.cluster = job[w].cluster /\ j.mc = eligible[p]
    <3>1. <<>> \in Seq(MC)
      OBVIOUS
    <3> DEFINE none == <<>>
               m == eligible[p]
    <3>2. none \in Seq(MC) /\ m \in MC
      BY <2>4, <3>1
    <3> HIDE DEF none, m
    <3>3. /\ [job[w] EXCEPT !.at = "domains", !.eligible = none, !.mc = m] \in Job
          /\ [job[w] EXCEPT !.at = "domains", !.eligible = none, !.mc = m].at = "domains"
          /\ [job[w] EXCEPT !.at = "domains", !.eligible = none, !.mc = m].mc = m
          /\ [job[w] EXCEPT !.at = "domains", !.eligible = none, !.mc = m].cluster
                = job[w].cluster
      BY <1>1, <3>2 DEF Job
    <3> QED
      BY <3>3 DEF none, m
  <2>6. Suitable(j.mc)
    BY <2>2, <2>4, <2>5 DEF Suitable
  <2> HIDE DEF j, p, eligible
  <2> QED
    BY <1>1, <1>4, <2>1, <2>2, <2>5, <2>6
<1>9. CASE PickDomain(w)
  <2> DEFINE j == [job[w] EXCEPT !.at = "put"]
  <2>1. /\ job[w].at = "domains" /\ domCounter' \in Nat /\ JobIs(w, j)
        /\ UNCHANGED <<mode, consumers, counter, mcCounter, placed>>
    BY <1>1, <1>9 DEF PickDomain
  <2>2. /\ j \in Job /\ j.at = "put" /\ j.cluster = job[w].cluster /\ j.mc = job[w].mc
    BY <1>1 DEF Job
  <2>3. j.mc # NoMC => Suitable(j.mc)
    BY <1>1, <2>2 DEF SelectionSound
  <2> HIDE DEF j
  <2> QED
    BY <1>1, <1>4, <2>1, <2>2, <2>3
<1>10. CASE Place(w)
  <2>1. /\ job[w].at = "put" /\ JobIs(w, Idle)
        /\ placed' = [placed EXCEPT ![job[w].cluster] = job[w].mc]
        /\ UNCHANGED <<mode, consumers, counter, mcCounter, domCounter>>
    BY <1>10 DEF Place, counters
  <2>2. job[w].mc \in MC \cup {NoMC} /\ (job[w].mc # NoMC => Suitable(job[w].mc))
    BY <1>1 DEF Job, SelectionSound
  <2>3. /\ placed' \in [Cluster -> MC \cup {NoMC}]
        /\ \A c \in Cluster : placed'[c] = IF c = job[w].cluster THEN job[w].mc ELSE placed[c]
    BY <1>1, <2>1, <2>2
  <2>4. PlacedWhereListed'
    BY <1>1, <2>1, <2>2, <2>3 DEF PlacedWhereListed, Suitable
  <2> QED
    BY <1>1, <1>2, <2>1, <2>3, <2>4, IdleIsJob, SelectionsKept
<1>11. CASE Fail(w)
  <2>1. JobIs(w, Idle) /\ UNCHANGED <<mode, consumers, counter, mcCounter, domCounter, placed>>
    BY <1>11 DEF Fail, counters
  <2> QED
    BY <1>1, <1>3, <2>1
<1> QED
  BY <1>5, <1>6, <1>7, <1>8, <1>9, <1>10, <1>11 DEF SelectStep

LEMMA WhereInitInv == Init => WhereInv
<1> SUFFICES ASSUME Init PROVE WhereInv
  OBVIOUS
<1>1. /\ mode \in {"static", "dynamic"} /\ counter = 0 /\ mcCounter = 0 /\ domCounter = 0
      /\ consumers \in Seq(MC)
  BY ListAssumption DEF Init
<1>2. job \in [Worker -> Job] /\ placed \in [Cluster -> MC \cup {NoMC}]
  BY IdleIsJob DEF Init
<1>3. SelectionsSound /\ PlacedWhereListed
  BY IdleIsJob DEF Init, SelectionsSound, PlacedWhereListed
<1> QED
  BY <1>1, <1>2, <1>3 DEF WhereInv

LEMMA WhereNextInv == WhereInv /\ [Next]_vars => WhereInv'
<1> SUFFICES ASSUME WhereInv, [Next]_vars PROVE WhereInv'
  OBVIOUS
<1>1. CASE ConsumersChange
  <2>1. UNCHANGED <<mode, counter, mcCounter, domCounter, job, placed>>
    BY <1>1 DEF ConsumersChange, counters
  <2>2. consumers' \in Seq(MC)
    <3>1. PICK m \in MC : consumers' = IF m \in Elements(consumers)
                                       THEN Selected(consumers, MC \ {m})
                                       ELSE Append(consumers, m)
      BY <1>1 DEF ConsumersChange
    <3>2. consumers \in Seq(MC)
      BY DEF WhereInv
    <3>3. Selected(consumers, MC \ {m}) \in Seq(MC)
      BY <3>2, SelectedElements
    <3> QED
      BY <3>1, <3>2, <3>3
  <2>3. SelectionsSound' /\ PlacedWhereListed'
    BY <2>1 DEF WhereInv, SelectionsSound, PlacedWhereListed, Suitable
  <2> QED
    BY <2>1, <2>2, <2>3 DEF WhereInv
<1>2. CASE UNCHANGED vars
  BY <1>2 DEF vars, counters, WhereInv, SelectionsSound, PlacedWhereListed, Suitable
<1> QED
  BY <1>1, <1>2, WhereStepKeeps DEF Next, Finished

LEMMA WhereInvariantHolds == SafeSpec => []WhereInv
BY WhereInitInv, WhereNextInv, PTL DEF SafeSpec

(* No hypothesis on the lists, and the registry may change: with the static *)
(* selector a cluster is only placed on a candidate that has a base domain, *)
(* with the dynamic one on a management cluster that has a secret.          *)
THEOREM PlacedOnlyWhereListed == SafeSpec => []PlacedWhereListed
<1>1. WhereInv => PlacedWhereListed
  BY DEF WhereInv
<1> QED
  BY <1>1, WhereInvariantHolds, PTL

(* A placement is never replaced: a cluster is in the hands of one worker,  *)
(* and of none once it is placed.                                           *)
THEOREM PlacementsAreKept == SafeSpec => PlacementsStay
<1>1. WhereInv /\ [Next]_vars => [\A c \in Cluster : placed[c] # NoMC => placed'[c] = placed[c]]_vars
  <2> SUFFICES ASSUME WhereInv, Next, NEW c \in Cluster, placed[c] # NoMC
               PROVE  placed'[c] = placed[c]
    OBVIOUS
  <2>1. \/ UNCHANGED placed
        \/ \E w \in Worker : Place(w)
    BY DEF Next, SelectStep, Start, SelectStatic, Discover, PickMC, PickDomain, Fail,
           ConsumersChange, Finished, vars
  <2>2. CASE \E w \in Worker : Place(w)
    <3>1. PICK w \in Worker : Place(w)
      BY <2>2
    <3>2. job[w].at = "put" /\ placed' = [placed EXCEPT ![job[w].cluster] = job[w].mc]
      BY <3>1 DEF Place
    <3>3. placed[job[w].cluster] = NoMC /\ placed \in [Cluster -> MC \cup {NoMC}]
      BY <3>2 DEF WhereInv, SelectionsSound
    <3> QED
      BY <3>2, <3>3
  <2> QED
    BY <2>1, <2>2
<1> QED
  BY <1>1, WhereInvariantHolds, PTL DEF SafeSpec, PlacementsStay
=============================================================================
