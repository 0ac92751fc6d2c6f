--------------------------- MODULE GenerationsProofs ---------------------------
(***************************************************************************)
(* Proofs about the operators of Generations: what they return for every   *)
(* list, however long, and then what MCGenerations checks of them, for     *)
(* every number of ManifestWorks and manifests.                            *)
(***************************************************************************)
EXTENDS MCGenerations, ListProofs

-----------------------------------------------------------------------------
(* The latest of a list                                                     *)

\* What the order looks at.
Sortable(obj) == GetGeneration(obj.generation) \in Int /\ obj.name \in Int

(* Less is a strict order in which any two are comparable but for ties:     *)
(* nothing is before itself, and what is before b is before whatever is not *)
(* before b.                                                                *)
LEMMA LessIsAnOrder ==
  ASSUME NEW a, NEW b, NEW c, Sortable(a), Sortable(b), Sortable(c)
  PROVE  ~Less(a, a) /\ (Less(a, b) /\ ~Less(c, b) => ~Less(c, a))
BY DEF Less, Sortable

(* Some item of a list has no other before it, however the sort went.       *)
LEMMA LatestExists ==
  ASSUME NEW S, \A obj \in S : Sortable(obj), NEW list \in Seq(S), list # <<>>
  PROVE  \E j \in 1..Len(list) : \A k \in 1..Len(list) : ~Less(list[k], list[j])
<1> DEFINE Good(n) == \E j \in 1..n : \A k \in 1..n : ~Less(list[k], list[j])
           T == {n \in Nat : n + 1 <= Len(list) => Good(n + 1)}
<1>1. Len(list) \in Nat /\ Len(list) # 0 /\ \A i \in 1..Len(list) : list[i] \in S
  OBVIOUS
<1>2. 0 \in T
  <2>1. Sortable(list[1])
    BY <1>1
  <2>2. ~Less(list[1], list[1])
    BY <2>1, LessIsAnOrder
  <2>3. Good(0 + 1)
    BY <2>2
  <2> QED
    BY <2>3
<1>3. ASSUME NEW n \in Nat, n \in T PROVE n + 1 \in T
  <2> SUFFICES ASSUME (n + 1) + 1 <= Len(list) PROVE Good((n + 1) + 1)
    OBVIOUS
  <2>1. PICK j \in 1..(n + 1) : \A k \in 1..(n + 1) : ~Less(list[k], list[j])
    BY <1>1, <1>3
  <2> DEFINE m == (n + 1) + 1
  <2>2. /\ m \in 1..Len(list) /\ j \in 1..Len(list) /\ j \in 1..m /\ m \in 1..m
        /\ \A k \in 1..m : k \in 1..Len(list) /\ (k \in 1..(n + 1) \/ k = m)
    BY <1>1
  <2> HIDE DEF m
  <2>3. \A k \in 1..m : Sortable(list[k])
    BY <1>1, <2>2
  <2>4. CASE Less(list[m], list[j])
    <3>1. ASSUME NEW k \in 1..m PROVE ~Less(list[k], list[m])
      <4>1. CASE k = m
        BY <2>3, <4>1, LessIsAnOrder
      <4>2. CASE k # m
        BY <2>1, <2>2, <2>3, <2>4, <4>2, LessIsAnOrder
      <4> QED
        BY <4>1, <4>2
    <3> QED
      BY <2>2, <3>1 DEF m
  <2>5. CASE ~Less(list[m], list[j])
    BY <2>1, <2>2, <2>5 DEF m
  <2> QED
    BY <2>4, <2>5
<1> HIDE DEF T
<1>4. \A n \in Nat : n \in T
  BY <1>2, <1>3, SetInduction
<1>5. Good(Len(list))
  <2>1. PICK n \in Nat : n + 1 = Len(list)
    <3>1. Len(list) - 1 \in Nat /\ (Len(list) - 1) + 1 = Len(list)
      BY <1>1
    <3> QED
      BY <3>1
  <2>2. n \in T /\ n + 1 <= Len(list)
    BY <1>1, <1>4, <2>1
  <2>3. Good(n + 1)
    BY <2>2 DEF T
  <2> QED
    BY <2>1, <2>3
<1> QED
  BY <1>5

(* GetLatestGenerationFromList, for any list of items: there is a latest    *)
(* one, none has a higher generation, and none of its generation a smaller  *)
(* name. Two runs over one list may differ only between items that agree in *)
(* both.                                                                    *)
THEOREM LatestOfAnyList ==
  ASSUME NEW S, \A obj \in S : Sortable(obj), NEW list \in Seq(S), list # <<>>
  PROVE  /\ GetLatest(list) # {}
         /\ \A obj \in GetLatest(list), i \in DOMAIN list :
               LET gen == GetGeneration(list[i].generation) IN
               /\ GetGeneration(obj.generation) >= gen
               /\ GetGeneration(obj.generation) = gen => obj.name <= list[i].name
<1>1. DOMAIN list = 1..Len(list) /\ \A i \in 1..Len(list) : Sortable(list[i])
  OBVIOUS
<1>2. GetLatest(list) # {}
  BY <1>1, LatestExists DEF GetLatest
<1>3. ASSUME NEW obj \in GetLatest(list), NEW i \in DOMAIN list
      PROVE  LET gen == GetGeneration(list[i].generation) IN
             /\ GetGeneration(obj.generation) >= gen
             /\ GetGeneration(obj.generation) = gen => obj.name <= list[i].name
  <2>1. Sortable(obj) /\ Sortable(list[i]) /\ ~Less(list[i], obj)
    BY <1>1 DEF GetLatest
  <2> QED
    BY <2>1 DEF Less, Sortable
<1> QED
  BY <1>2, <1>3

-----------------------------------------------------------------------------
(* Label selectors                                                          *)

(* BuildLabelSelector and MatchesLabels, for any object and any labels with *)
(* no empty value.                                                          *)
THEOREM SelectorMeansLabels ==
  ASSUME NEW obj, NEW labels, \A k \in DOMAIN labels : labels[k] # 0
  PROVE  MatchesLabels(obj, BuildLabelSelector(labels)) <=> Carries(obj, labels)
<1> DEFINE selector == BuildLabelSelector(labels)
<1>1. selector = {} <=> DOMAIN labels = {}
  BY DEF BuildLabelSelector
<1>2. (\A part \in selector :
          part.form = "pair" => LabelOf(obj.labels, part.key) = part.value)
      <=> \A k \in DOMAIN labels : LabelOf(obj.labels, k) = labels[k]
  <2>1. \A k : /\ Pair(k, labels[k]).form = "pair" /\ Pair(k, labels[k]).key = k
               /\ Pair(k, labels[k]).value = labels[k]
    BY DEF Pair
  <2>2. \A part : part \in selector <=> \E k \in DOMAIN labels : part = Pair(k, labels[k])
    BY DEF BuildLabelSelector
  <2> QED
    BY <2>1, <2>2
<1>3. \A k \in DOMAIN labels : LabelOf(obj.labels, k) = labels[k]
         <=> k \in DOMAIN obj.labels /\ obj.labels[k] = labels[k]
  BY DEF LabelOf
<1> HIDE DEF selector
<1> QED
  BY <1>1, <1>2, <1>3 DEF MatchesLabels, Carries, selector

-----------------------------------------------------------------------------
(* Lookups                                                                  *)

\* The manifests in a list of ManifestWorks, as one list and as a set.
NestedList(list) == FlattenSeq([i \in DOMAIN list |-> list[i].manifests])

NestedSet(list) == UNION {Elements(list[i].manifests) : i \in 1..Len(list)}

(* What is nested in the ManifestWorks of a consumer.                       *)
LEMMA NestedElements ==
  ASSUME NEW S, NEW W, \A work \in W : work.manifests \in Seq(S), NEW list \in Seq(W)
  PROVE  NestedList(list) \in Seq(S) /\ Elements(NestedList(list)) = NestedSet(list)
<1> DEFINE lists == [i \in DOMAIN list |-> list[i].manifests]
<1>1. DOMAIN list = 1..Len(list) /\ Len(list) \in Nat
  OBVIOUS
<1>2. \A i \in 1..Len(list) : list[i].manifests \in Seq(S)
  <2>1. \A i \in 1..Len(list) : list[i] \in W
    OBVIOUS
  <2> QED
    BY <2>1
<1>3. /\ lists \in Seq(Seq(S)) /\ Len(lists) = Len(list)
      /\ \A i \in 1..Len(list) : lists[i] = list[i].manifests
  BY <1>1, <1>2
<1> HIDE DEF lists
<1>4. /\ FlattenSeq(lists) \in Seq(S)
      /\ Elements(FlattenSeq(lists)) = UNION {Elements(lists[i]) : i \in 1..Len(lists)}
  BY <1>3, FlattenedElements
<1>5. {Elements(lists[i]) : i \in 1..Len(lists)}
         = {Elements(list[i].manifests) : i \in 1..Len(list)}
  BY <1>3
<1>6. NestedList(list) = FlattenSeq(lists)
  BY DEF NestedList, lists
<1>7. NestedSet(list) = UNION {Elements(lists[i]) : i \in 1..Len(lists)}
  BY <1>5 DEF NestedSet
<1> QED
  BY <1>4, <1>6, <1>7

\* Those that meet the criteria.
Meeting(manifests, d) == {obj \in Elements(manifests) : MatchesDiscoveryCriteria(obj, d)}

(* DiscoverResources, for a nested kind: every manifest that meets the      *)
(* criteria and no other, whatever ManifestWork it is in.                   *)
THEOREM DiscoveryIsExact ==
  ASSUME NEW S, NEW W, \A work \in W : work.manifests \in Seq(S), NEW list \in Seq(W),
         NEW kind, kind # "ManifestWork", NEW d
  PROVE  LET found == DiscoverResources(list, kind, d) IN
         /\ found \in Seq(S)
         /\ Elements(found) = UNION {Meeting(list[i].manifests, d) : i \in 1..Len(list)}
<1> DEFINE lists == [i \in DOMAIN list |-> DiscoverNestedManifest(list[i], d)]
           Matching(i) == Meeting(list[i].manifests, d)
<1>1. DOMAIN list = 1..Len(list) /\ Len(list) \in Nat
  OBVIOUS
<1>2. ASSUME NEW i \in 1..Len(list)
      PROVE  /\ DiscoverNestedManifest(list[i], d) \in Seq(S)
             /\ Elements(DiscoverNestedManifest(list[i], d)) = Matching(i)
  <2>1. list[i].manifests \in Seq(S)
    <3>1. list[i] \in W
      OBVIOUS
    <3> QED
      BY <3>1
  <2>2. /\ Selected(list[i].manifests, Matching(i)) \in Seq(S)
        /\ Elements(Selected(list[i].manifests, Matching(i)))
              = Elements(list[i].manifests) \cap Matching(i)
    BY <2>1, SelectedElements
  <2>3. DiscoverNestedManifest(list[i], d) = Selected(list[i].manifests, Matching(i))
    BY DEF DiscoverNestedManifest, Meeting
  <2>4. Matching(i) \subseteq Elements(list[i].manifests)
    BY DEF Meeting
  <2> QED
    BY <2>2, <2>3, <2>4
<1>3. /\ lists \in Seq(Seq(S)) /\ Len(lists) = Len(list)
      /\ \A i \in 1..Len(list) : lists[i] = DiscoverNestedManifest(list[i], d)
  BY <1>1, <1>2
<1>4. DiscoverResources(list, kind, d) = FlattenSeq(lists)
  BY DEF DiscoverResources
<1> HIDE DEF lists, Matching
<1>5. /\ FlattenSeq(lists) \in Seq(S)
      /\ Elements(FlattenSeq(lists)) = UNION {Elements(lists[i]) : i \in 1..Len(lists)}
  BY <1>3, FlattenedElements
<1>6. {Elements(lists[i]) : i \in 1..Len(lists)} = {Matching(i) : i \in 1..Len(list)}
  BY <1>2, <1>3
<1> QED
  BY <1>4, <1>5, <1>6 DEF Matching

(* GetResource, for a nested kind: not found only if no ManifestWork has a  *)
(* manifest of that kind, namespace and name, and else one of those.        *)
THEOREM GetIsExact ==
  ASSUME NEW S, NEW W, \A work \in W : work.manifests \in Seq(S), NEW list \in Seq(W),
         NEW kind, NEW namespace, NEW name
  PROVE  LET Wanted(obj) == obj.kind = kind /\ obj.namespace = namespace /\ obj.name = name IN
         \/ /\ GetResource(list, kind, namespace, name) = <<>>
            /\ \A i \in 1..Len(list) : \A obj \in Elements(list[i].manifests) : ~Wanted(obj)
         \/ \E i \in 1..Len(list) : \E obj \in Elements(list[i].manifests) :
               GetResource(list, kind, namespace, name) = <<obj>> /\ Wanted(obj)
<1> DEFINE Wanted(obj) == obj.kind = kind /\ obj.namespace = namespace /\ obj.name = name
           nested == NestedList(list)
           wanted == {obj \in Elements(nested) : Wanted(obj)}
           result == GetResource(list, kind, namespace, name)
<1>1. nested \in Seq(S) /\ Elements(nested) = NestedSet(list)
  BY NestedElements
<1>2. result = FirstOf(nested, wanted)
  BY DEF GetResource, NestedList
<1> HIDE DEF nested, result, Wanted
<1>3. \/ /\ FirstOf(nested, wanted) = <<>>
         /\ \A i \in 1..Len(nested) : nested[i] \notin wanted
      \/ \E i \in 1..Len(nested) :
            FirstOf(nested, wanted) = <<nested[i]>> /\ nested[i] \in wanted
  <2> HIDE DEF wanted
  <2> QED
    BY <1>1, FirstOfFinds
<1>4. CASE /\ FirstOf(nested, wanted) = <<>>
           /\ \A i \in 1..Len(nested) : nested[i] \notin wanted
  <2>1. \A obj \in Elements(nested) : ~Wanted(obj)
    BY <1>4 DEF Elements
  <2>2. \A i \in 1..Len(list) : \A obj \in Elements(list[i].manifests) : obj \in Elements(nested)
    BY <1>1 DEF NestedSet
  <2> QED
    BY <1>2, <1>4, <2>1, <2>2 DEF Wanted, result
<1>5. CASE \E i \in 1..Len(nested) :
              FirstOf(nested, wanted) = <<nested[i]>> /\ nested[i] \in wanted
  <2>1. PICK obj \in Elements(nested) : FirstOf(nested, wanted) = <<obj>> /\ Wanted(obj)
    BY <1>5 DEF Elements
  <2>2. PICK i \in 1..Len(list) : obj \in Elements(list[i].manifests)
    BY <1>1, <2>1 DEF NestedSet
  <2> QED
    BY <1>2, <2>1, <2>2 DEF Wanted, result
<1> QED
  BY <1>3, <1>4, <1>5

(* EnrichWithResourceStatus, for any report: an entry that alone has the    *)
(* object's name and namespace is the one that is found, wherever it is.    *)
THEOREM EnrichFindsTheOnlyOne ==
  ASSUME NEW S, NEW entries \in Seq(S), NEW obj, NEW i \in 1..Len(entries),
         SameName(entries[i], obj), \A j \in 1..Len(entries) : j # i => ~SameName(entries[j], obj)
  PROVE  EnrichWithResourceStatus(entries, obj) = <<entries[i]>>
<1> DEFINE own == {e \in Elements(entries) : e.name = obj.name /\ e.namespace = obj.namespace}
<1>1. \A j \in 1..Len(entries) : entries[j] \in own <=> SameName(entries[j], obj)
  BY DEF Elements, SameName
<1>2. EnrichWithResourceStatus(entries, obj) = FirstOf(entries, own)
  BY DEF EnrichWithResourceStatus
<1> HIDE DEF own
<1>3. PICK j \in 1..Len(entries) : FirstOf(entries, own) = <<entries[j]>> /\ entries[j] \in own
  BY <1>1, FirstOfFinds
<1> QED
  BY <1>1, <1>2, <1>3

-----------------------------------------------------------------------------
(* The ManifestWorks of a consumer, built in any number of steps            *)

Works == [manifests : Seq(Objects)]

LEMMA ObjectsAreSortable == \A obj \in Objects : Sortable(obj)
<1>1. \A v \in Variants : GetGeneration(v.generation) \in Int
  BY DEF Variants, Number, GetGeneration
<1> QED
  BY <1>1 DEF Objects, Sortable, Texts

(* The ManifestWorks hold lists of objects.                                 *)
THEOREM TypeCorrect == Spec => []TypeOK
<1>1. Init => TypeOK
  BY DEF Init, TypeOK
<1>2. TypeOK /\ [Next]_works => TypeOK'
  <2> SUFFICES ASSUME TypeOK, [Next]_works PROVE works' \in Seq(Works)
    BY DEF TypeOK, Works
  <2>1. works \in Seq(Works)
    BY DEF TypeOK, Works
  <2>2. CASE AddWork
    <3>1. [manifests |-> <<>>] \in Works
      BY DEF Works
    <3>2. works' = Append(works, [manifests |-> <<>>])
      BY <2>2 DEF AddWork
    <3> QED
      BY <2>1, <3>1, <3>2, AppendProperties
  <2>3. CASE AddManifest
    <3> DEFINE n == Len(works)
    <3>1. PICK obj \in Objects :
             works' = [works EXCEPT ![n].manifests = Append(works[n].manifests, obj)]
      BY <2>3 DEF AddManifest
    <3>2. n \in 1..Len(works) /\ works[n] \in Works
      BY <2>1, <2>3 DEF AddManifest
    <3> HIDE DEF n
    <3> DEFINE e == [works[n] EXCEPT !.manifests = Append(works[n].manifests, obj)]
    <3>3. e \in Works
      BY <3>2 DEF Works
    <3>4. works' = [works EXCEPT ![n] = e]
      BY <3>1
    <3> HIDE DEF e
    <3> QED
      BY <2>1, <3>2, <3>3, <3>4, ExceptSeq
  <2> QED
    BY <2>1, <2>2, <2>3 DEF Next, Finished
<1> QED
  BY <1>1, <1>2, PTL DEF Spec

LEMMA NestedIsList == TypeOK => Nested \in Seq(Objects)
<1> SUFFICES ASSUME TypeOK PROVE Nested \in Seq(Objects)
  OBVIOUS
<1>1. works \in Seq(Works) /\ \A work \in Works : work.manifests \in Seq(Objects)
  BY DEF TypeOK, Works
<1> QED
  BY <1>1, NestedElements DEF Nested, NestedList

(* The latest manifest of all ManifestWorks is the newest, and of the       *)
(* newest the one with the smallest name.                                   *)
THEOREM LatestIsAlwaysNewest == Spec => []LatestIsNewest
<1>1. TypeOK => LatestIsNewest
  <2> SUFFICES ASSUME TypeOK, Nested # <<>>
               PROVE  /\ GetLatest(Nested) # {}
                      /\ \A obj \in GetLatest(Nested), i \in DOMAIN Nested :
                            LET gen == GetGeneration(Nested[i].generation) IN
                            /\ GetGeneration(obj.generation) >= gen
                            /\ GetGeneration(obj.generation) = gen => obj.name <= Nested[i].name
    BY DEF LatestIsNewest
  <2>1. Nested \in Seq(Objects)
    BY NestedIsList
  <2> QED
    BY <2>1, ObjectsAreSortable, LatestOfAnyList
<1> QED
  BY <1>1, TypeCorrect, PTL

(* Every manifest matches the selector built from labels exactly if it      *)
(* carries them.                                                            *)
THEOREM SelectorsMeanLabels == Spec => []SelectorRoundTrip
<1>1. SelectorRoundTrip
  <2> SUFFICES ASSUME NEW i \in DOMAIN Nested, NEW labels \in LabelMaps(Texts)
               PROVE  MatchesLabels(Nested[i], BuildLabelSelector(labels))
                         <=> Carries(Nested[i], labels)
    BY DEF SelectorRoundTrip
  <2>1. \A k \in DOMAIN labels : labels[k] # 0
    <3>1. PICK keys \in SUBSET Texts : labels \in [keys -> Texts]
      BY DEF LabelMaps
    <3> QED
      BY <3>1 DEF Texts
  <2> QED
    BY <2>1, SelectorMeansLabels
<1> QED
  BY <1>1, PTL

(* GetResource and DiscoverResources agree on every list of ManifestWorks.  *)
THEOREM SearchesAgree == Spec => []DiscoveryFindsWhatGetFinds
<1>1. TypeOK => DiscoveryFindsWhatGetFinds
  <2> SUFFICES ASSUME TypeOK, NEW kind \in Kinds, NEW ns \in Texts, NEW n \in Texts
               PROVE  LET found == DiscoverResources(works, kind, Named(ns, n)) IN
                      /\ \A i \in DOMAIN found : found[i].namespace = ns /\ found[i].name = n
                      /\ \A i \in DOMAIN GetResource(works, kind, ns, n) :
                            \E j \in DOMAIN found :
                               found[j] = GetResource(works, kind, ns, n)[i]
    BY DEF DiscoveryFindsWhatGetFinds
  <2> DEFINE d == Named(ns, n)
             found == DiscoverResources(works, kind, d)
             got == GetResource(works, kind, ns, n)
             Matching(i) == Meeting(works[i].manifests, d)
  <2>1. works \in Seq(Works) /\ \A work \in Works : work.manifests \in Seq(Objects)
    BY DEF TypeOK, Works
  <2>2. kind # "ManifestWork" /\ ns # 0 /\ n # 0
    BY DEF Kinds, Texts
  <2>3. \A obj : MatchesDiscoveryCriteria(obj, d) <=> obj.namespace = ns /\ obj.name = n
    BY <2>2 DEF MatchesDiscoveryCriteria, Named
  <2>4. /\ found \in Seq(Objects)
        /\ Elements(found) = UNION {Matching(i) : i \in 1..Len(works)}
    <3>1. /\ DiscoverResources(works, kind, d) \in Seq(Objects)
          /\ Elements(DiscoverResources(works, kind, d))
                = UNION {Meeting(works[i].manifests, d) : i \in 1..Len(works)}
      <4> HIDE DEF d
      <4> QED
        BY <2>1, <2>2, DiscoveryIsExact
    <3> QED
      BY <3>1
  <2>5. \/ got = <<>>
        \/ \E i \in 1..Len(works) : \E obj \in Elements(works[i].manifests) :
              got = <<obj>> /\ obj.kind = kind /\ obj.namespace = ns /\ obj.name = n
    BY <2>1, GetIsExact
  <2>6. DOMAIN found = 1..Len(found)
    BY <2>4
  <2> HIDE DEF d, found, got
  <2>7. ASSUME NEW i \in DOMAIN found PROVE found[i].namespace = ns /\ found[i].name = n
    <3>1. found[i] \in Elements(found)
      BY <2>6 DEF Elements
    <3> QED
      BY <2>3, <2>4, <3>1 DEF Meeting
  <2>8. ASSUME NEW i \in DOMAIN got PROVE \E j \in DOMAIN found : found[j] = got[i]
    <3>1. PICK w \in 1..Len(works) : \E obj \in Elements(works[w].manifests) :
             got = <<obj>> /\ obj.namespace = ns /\ obj.name = n
      BY <2>5, <2>8
    <3>2. PICK obj \in Elements(works[w].manifests) :
             got = <<obj>> /\ obj.namespace = ns /\ obj.name = n
      BY <3>1
    <3>3. obj \in Matching(w)
      BY <2>3, <3>2 DEF Meeting
    <3>4. obj \in Elements(found)
      <4> HIDE DEF Matching
      <4> QED
        BY <2>4, <3>3
    <3>5. got[i] = obj
      BY <3>2
    <3> QED
      BY <2>6, <3>4, <3>5 DEF Elements
  <2> QED
    BY <2>7, <2>8 DEF d, found, got
<1> QED
  BY <1>1, TypeCorrect, PTL

(* A manifest whose name and namespace no other of its ManifestWork has     *)
(* gets its own status.                                                     *)
THEOREM EnrichmentIsOwn == Spec => []EnrichedIsOwn
<1>1. TypeOK => EnrichedIsOwn
  <2> SUFFICES ASSUME TypeOK, NEW w \in DOMAIN works, NEW i \in DOMAIN works[w].manifests,
                      \A j \in DOMAIN Entries(works[w]) \ {i} :
                         ~SameName(Entries(works[w])[j], works[w].manifests[i])
               PROVE  EnrichWithResourceStatus(Entries(works[w]), works[w].manifests[i])
                         = <<Entries(works[w])[i]>>
    BY DEF EnrichedIsOwn
  <2> DEFINE manifests == works[w].manifests
             entries == Entries(works[w])
             Name(obj) == [kind |-> obj.kind, namespace |-> obj.namespace, name |-> obj.name]
             E == {Name(obj) : obj \in Objects}
  <2>1. manifests \in Seq(Objects)
    <3>1. works \in Seq(Works)
      BY DEF TypeOK, Works
    <3>2. works[w] \in Works
      BY <3>1
    <3> QED
      BY <3>2 DEF Works
  <2>2. DOMAIN manifests = 1..Len(manifests) /\ Len(manifests) \in Nat
    BY <2>1
  <2>3. entries = [j \in 1..Len(manifests) |-> Name(manifests[j])]
    BY <2>2 DEF Entries
  <2> HIDE DEF manifests, entries
  <2>4. \A j \in 1..Len(manifests) : manifests[j] \in Objects
    BY <2>1
  <2>5. /\ entries \in Seq(E) /\ Len(entries) = Len(manifests) /\ DOMAIN entries = 1..Len(manifests)
        /\ \A j \in 1..Len(manifests) : entries[j] = Name(manifests[j])
    BY <2>2, <2>3, <2>4
  <2>6. i \in 1..Len(entries) /\ SameName(entries[i], manifests[i])
    <3>1. i \in 1..Len(manifests)
      BY <2>2 DEF manifests
    <3>2. entries[i] = Name(manifests[i])
      BY <2>5, <3>1
    <3> QED
      BY <2>5, <3>1, <3>2 DEF SameName
  <2>7. \A j \in 1..Len(entries) : j # i => ~SameName(entries[j], manifests[i])
    BY <2>5 DEF manifests, entries
  <2> QED
    BY <2>5, <2>6, <2>7, EnrichFindsTheOnlyOne DEF manifests, entries
<1> QED
  BY <1>1, TypeCorrect, PTL
=============================================================================
