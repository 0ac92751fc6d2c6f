------------------------------ MODULE ListProofs ------------------------------
(***************************************************************************)
(* What the loops of Lists and FlattenSeq give for every list. The library *)
(* states induction for an operator, which the provers here cannot         *)
(* instantiate; SetInduction states it for a set, and the set {n : ...} of *)
(* the lengths a fact holds for is then all of Nat.                        *)
(***************************************************************************)
EXTENDS Lists, Integers, SequencesExt, SequenceTheorems, WellFoundedInduction, TLAPS

(* A set with 0 in it that is closed under + 1 has every natural number: a  *)
(* least one outside would have a predecessor inside.                       *)
LEMMA SetInduction ==
  ASSUME NEW S, 0 \in S, \A n \in Nat : n \in S => n + 1 \in S
  PROVE  \A n \in Nat : n \in S
<1> DEFINE R == OpToRel(<, Nat)
           T == Nat \ S
<1>1. IsWellFoundedOn(R, Nat)
  BY NatLessThanWellFounded
<1> SUFFICES ASSUME T # {} PROVE FALSE
  OBVIOUS
<1>2. \A x, y \in Nat : <<y, x>> \in R <=> y < x
  BY DEF OpToRel
<1> HIDE DEF R
<1>3. PICK x \in T : \A y \in T : ~ (<<y, x>> \in R)
  <2>1. T \subseteq Nat
    OBVIOUS
  <2> HIDE DEF T
  <2> QED
    BY <1>1, <2>1, WFMin
<1>4. x # 0 /\ x - 1 \in Nat /\ x - 1 < x
  OBVIOUS
<1>5. x - 1 \in S
  BY <1>2, <1>3, <1>4
<1> QED
  BY <1>4, <1>5

(* A non-empty set of numbers has a least one.                              *)
LEMMA LeastNumber ==
  ASSUME NEW S, S \subseteq Nat, S # {}
  PROVE  \E i \in S : \A j \in S : i <= j
<1> DEFINE R == OpToRel(<, Nat)
<1>1. IsWellFoundedOn(R, Nat)
  BY NatLessThanWellFounded
<1>2. \A x, y \in Nat : <<y, x>> \in R <=> y < x
  BY DEF OpToRel
<1> HIDE DEF R
<1>3. PICK x \in S : \A y \in S : ~ (<<y, x>> \in R)
  BY <1>1, WFMin
<1>4. \A y \in S : x \in Nat /\ y \in Nat /\ ~(y < x)
  BY <1>2, <1>3, Zenon
<1> QED
  BY <1>4

-----------------------------------------------------------------------------
(* The loop that keeps what is wanted                                       *)

\* The loop after n turns, for n up to m.
IsLoop(f, list, wanted, m) ==
    f = [n \in 0..m |->
            IF n = 0 THEN <<>>
            ELSE IF list[n] \in wanted THEN Append(f[n - 1], list[n])
            ELSE f[n - 1]]

(* There is such a function: the recursion of Selected has a solution.      *)
LEMMA LoopExists ==
  ASSUME NEW list, NEW wanted
  PROVE  \A m \in Nat : \E f : IsLoop(f, list, wanted, m)
<1> DEFINE S == {m \in Nat : \E f : IsLoop(f, list, wanted, m)}
<1>1. 0 \in S
  <2>1. IsLoop([n \in 0..0 |-> <<>>], list, wanted, 0)
    BY DEF IsLoop
  <2> QED
    BY <2>1
<1>2. ASSUME NEW m \in Nat, m \in S PROVE m + 1 \in S
  <2>1. PICK f : IsLoop(f, list, wanted, m)
    BY <1>2
  <2> DEFINE last == IF list[m + 1] \in wanted THEN Append(f[m], list[m + 1]) ELSE f[m]
             g == [n \in 0..(m + 1) |-> IF n = m + 1 THEN last ELSE f[n]]
  <2>2. IsLoop(g, list, wanted, m + 1)
    <3> HIDE DEF last
    <3>1. \A n \in 0..(m + 1) :
             g[n] = IF n = 0 THEN <<>>
                    ELSE IF list[n] \in wanted THEN Append(g[n - 1], list[n])
                    ELSE g[n - 1]
      <4> SUFFICES ASSUME NEW n \in 0..(m + 1)
                   PROVE  g[n] = IF n = 0 THEN <<>>
                                 ELSE IF list[n] \in wanted THEN Append(g[n - 1], list[n])
                                 ELSE g[n - 1]
        OBVIOUS
      <4>1. CASE n = m + 1
        <5>1. n # 0 /\ g[n] = last /\ g[n - 1] = f[m]
          BY <4>1
        <5> QED
          BY <4>1, <5>1 DEF last
      <4>2. CASE n # m + 1
        <5>1. n \in 0..m /\ g[n] = f[n] /\ (n # 0 => n - 1 \in 0..m /\ g[n - 1] = f[n - 1])
          BY <4>2
        <5>2. f[n] = IF n = 0 THEN <<>>
                     ELSE IF list[n] \in wanted THEN Append(f[n - 1], list[n])
                     ELSE f[n - 1]
          BY <2>1, <5>1 DEF IsLoop
        <5> QED
          BY <5>1, <5>2
      <4> QED
        BY <4>1, <4>2
    <3>2. g = [n \in 0..(m + 1) |-> g[n]]
      OBVIOUS
    <3> HIDE DEF g
    <3> QED
      BY <3>1, <3>2 DEF IsLoop
  <2> HIDE DEF g
  <2> QED
    BY <2>2
<1> HIDE DEF S
<1>3. \A m \in Nat : m \in S
  BY <1>1, <1>2, SetInduction
<1> QED
  BY <1>3 DEF S

(* Selected is what the loop has kept at the end.                           *)
LEMMA SelectedIsLoop ==
  ASSUME NEW list, NEW wanted, Len(list) \in Nat
  PROVE  \E f : IsLoop(f, list, wanted, Len(list)) /\ Selected(list, wanted) = f[Len(list)]
<1> DEFINE f == CHOOSE f : IsLoop(f, list, wanted, Len(list))
<1>1. IsLoop(f, list, wanted, Len(list))
  BY LoopExists
<1>2. Selected(list, wanted) = f[Len(list)]
  BY DEF Selected, IsLoop
<1> HIDE DEF f
<1> QED
  BY <1>1, <1>2

\* g goes through the set P of positions, from the first to the last of k.
Enumerates(g, P, k) ==
    /\ g \in [1..k -> P]
    /\ \A i, j \in 1..k : i < j => g[i] < g[j]
    /\ \A p \in P : \E i \in 1..k : g[i] = p

\* The elements of list at the wanted positions up to n, in order.
IsSelection(sel, list, wanted, n) ==
    \E g : /\ Enumerates(g, {i \in 1..n : list[i] \in wanted}, Len(sel))
           /\ \A i \in 1..Len(sel) : sel[i] = list[g[i]]

(* One more turn, for an element that is not wanted.                        *)
LEMMA SelectionSkips ==
  ASSUME NEW sel, NEW list, NEW wanted, NEW n \in Nat, list[n + 1] \notin wanted,
         IsSelection(sel, list, wanted, n)
  PROVE  IsSelection(sel, list, wanted, n + 1)
<1>1. {i \in 1..(n + 1) : list[i] \in wanted} = {i \in 1..n : list[i] \in wanted}
  OBVIOUS
<1> QED
  BY <1>1 DEF IsSelection

(* And for one that is.                                                     *)
LEMMA SelectionKeeps ==
  ASSUME NEW S, NEW sel \in Seq(S), NEW list, NEW wanted, NEW n \in Nat,
         list[n + 1] \in wanted, list[n + 1] \in S, IsSelection(sel, list, wanted, n)
  PROVE  IsSelection(Append(sel, list[n + 1]), list, wanted, n + 1)
<1> DEFINE k == Len(sel)
           P == {i \in 1..n : list[i] \in wanted}
           Q == {i \in 1..(n + 1) : list[i] \in wanted}
           more == Append(sel, list[n + 1])
<1>1. PICK g : Enumerates(g, P, k) /\ \A i \in 1..k : sel[i] = list[g[i]]
  BY DEF IsSelection
<1>2. Q = P \cup {n + 1} /\ P \subseteq 1..n
  OBVIOUS
<1>3. /\ k \in Nat /\ Len(more) = k + 1 /\ more[k + 1] = list[n + 1]
      /\ \A i \in 1..k : more[i] = sel[i]
  OBVIOUS
<1> DEFINE h == [i \in 1..(k + 1) |-> IF i = k + 1 THEN n + 1 ELSE g[i]]
<1> HIDE DEF k, P, Q, more
<1>4. Enumerates(h, Q, k + 1)
  <2>1. g \in [1..k -> P] /\ \A i, j \in 1..k : i < j => g[i] < g[j]
    BY <1>1 DEF Enumerates
  <2>2. h \in [1..(k + 1) -> Q]
    BY <1>2, <1>3, <2>1
  <2>3. \A i, j \in 1..(k + 1) : i < j => h[i] < h[j]
    <3> SUFFICES ASSUME NEW i \in 1..(k + 1), NEW j \in 1..(k + 1), i < j
                 PROVE  h[i] < h[j]
      OBVIOUS
    <3>1. i \in 1..k /\ h[i] = g[i] /\ g[i] \in 1..n
      <4>1. i \in 1..k /\ i # k + 1
        BY <1>3
      <4>2. g[i] \in P
        BY <2>1, <4>1
      <4> QED
        BY <1>2, <4>1, <4>2
    <3>2. CASE j = k + 1
      BY <3>1, <3>2
    <3>3. CASE j # k + 1
      <4>1. j \in 1..k /\ h[j] = g[j]
        BY <1>3, <3>3
      <4> QED
        BY <2>1, <3>1, <4>1
    <3> QED
      BY <3>2, <3>3
  <2>4. \A p \in Q : \E i \in 1..(k + 1) : h[i] = p
    <3> SUFFICES ASSUME NEW p \in Q PROVE \E i \in 1..(k + 1) : h[i] = p
      OBVIOUS
    <3>1. CASE p = n + 1
      <4>1. k + 1 \in 1..(k + 1) /\ h[k + 1] = p
        BY <1>3, <3>1
      <4> QED
        BY <4>1
    <3>2. CASE p # n + 1
      <4>1. PICK i \in 1..k : g[i] = p
        BY <1>1, <1>2, <3>2 DEF Enumerates
      <4>2. i \in 1..(k + 1) /\ h[i] = p
        BY <1>3, <4>1
      <4> QED
        BY <4>2
    <3> QED
      BY <3>1, <3>2
  <2> QED
    BY <2>2, <2>3, <2>4 DEF Enumerates
<1>5. \A i \in 1..(k + 1) : more[i] = list[h[i]]
  BY <1>1, <1>3
<1> HIDE DEF h
<1>6. IsSelection(more, list, wanted, n + 1)
  <2>1. /\ Enumerates(h, {i \in 1..(n + 1) : list[i] \in wanted}, Len(more))
        /\ \A i \in 1..Len(more) : more[i] = list[h[i]]
    BY <1>3, <1>4, <1>5 DEF Q
  <2> QED
    BY <2>1, Zenon DEF IsSelection
<1> QED
  BY <1>6 DEF more

(* Selected is the list at its wanted positions, each once and in order.    *)
LEMMA SelectedInOrder ==
  ASSUME NEW S, NEW list \in Seq(S), NEW wanted
  PROVE  /\ Selected(list, wanted) \in Seq(S)
         /\ IsSelection(Selected(list, wanted), list, wanted, Len(list))
<1>1. Len(list) \in Nat
  OBVIOUS
<1>2. PICK f : /\ IsLoop(f, list, wanted, Len(list))
               /\ Selected(list, wanted) = f[Len(list)]
  BY <1>1, SelectedIsLoop
<1> DEFINE Good(n) == f[n] \in Seq(S) /\ IsSelection(f[n], list, wanted, n)
           T == {n \in Nat : n <= Len(list) => Good(n)}
<1>3. 0 \in T
  <2>1. f[0] = <<>>
    BY <1>1, <1>2 DEF IsLoop
  <2>2. Enumerates(<<>>, {i \in 1..0 : list[i] \in wanted}, 0)
    <3>1. {i \in 1..0 : list[i] \in wanted} = {} /\ 1..0 = {} /\ <<>> \in [{} -> {}]
      OBVIOUS
    <3> QED
      BY <3>1 DEF Enumerates
  <2>3. IsSelection(<<>>, list, wanted, 0)
    BY <2>2 DEF IsSelection
  <2>4. Good(0)
    BY <2>1, <2>3
  <2> QED
    BY <2>4
<1>4. ASSUME NEW n \in Nat, n \in T PROVE n + 1 \in T
  <2> SUFFICES ASSUME n + 1 <= Len(list) PROVE Good(n + 1)
    BY <1>4
  <2>1. Good(n)
    BY <1>1, <1>4
  <2>2. f[n + 1] = IF list[n + 1] \in wanted THEN Append(f[n], list[n + 1]) ELSE f[n]
    <3>1. n + 1 \in 0..Len(list) /\ n + 1 # 0 /\ (n + 1) - 1 = n
      BY <1>1
    <3> QED
      BY <1>2, <3>1 DEF IsLoop
  <2>3. list[n + 1] \in S
    BY <1>1
  <2>4. CASE list[n + 1] \in wanted
    BY <2>1, <2>2, <2>3, <2>4, SelectionKeeps
  <2>5. CASE list[n + 1] \notin wanted
    BY <2>1, <2>2, <2>5, SelectionSkips
  <2> QED
    BY <2>4, <2>5
<1> HIDE DEF T
<1>5. \A n \in Nat : n \in T
  BY <1>3, <1>4, SetInduction
<1>6. Good(Len(list))
  BY <1>1, <1>5 DEF T
<1> QED
  BY <1>2, <1>6

(* Nothing else is selected, nothing wanted is left out.                    *)
LEMMA SelectedElements ==
  ASSUME NEW S, NEW list \in Seq(S), NEW wanted
  PROVE  /\ Selected(list, wanted) \in Seq(S)
         /\ Elements(Selected(list, wanted)) = Elements(list) \cap wanted
<1> DEFINE sel == Selected(list, wanted)
<1>1. sel \in Seq(S) /\ IsSelection(sel, list, wanted, Len(list))
  BY SelectedInOrder
<1> HIDE DEF sel
<1>2. PICK g : /\ Enumerates(g, {i \in 1..Len(list) : list[i] \in wanted}, Len(sel))
               /\ \A i \in 1..Len(sel) : sel[i] = list[g[i]]
  BY <1>1 DEF IsSelection
<1>3. ASSUME NEW i \in 1..Len(sel) PROVE sel[i] \in Elements(list) \cap wanted
  BY <1>2, <1>3 DEF Enumerates, Elements
<1>4. ASSUME NEW p \in 1..Len(list), list[p] \in wanted PROVE list[p] \in Elements(sel)
  BY <1>2, <1>4 DEF Enumerates, Elements
<1> QED
  BY <1>1, <1>3, <1>4 DEF Elements, sel

\* No element occurs twice.
Distinct(list) == \A i, j \in 1..Len(list) : list[i] = list[j] => i = j

(* A selection from a list without duplicates has none.                     *)
LEMMA SelectedDistinct ==
  ASSUME NEW S, NEW list \in Seq(S), NEW wanted, Distinct(list)
  PROVE  Distinct(Selected(list, wanted))
<1> DEFINE sel == Selected(list, wanted)
<1>1. sel \in Seq(S) /\ IsSelection(sel, list, wanted, Len(list))
  BY SelectedInOrder
<1> HIDE DEF sel
<1>2. PICK g : /\ Enumerates(g, {i \in 1..Len(list) : list[i] \in wanted}, Len(sel))
               /\ \A i \in 1..Len(sel) : sel[i] = list[g[i]]
  BY <1>1 DEF IsSelection
<1>3. ASSUME NEW i \in 1..Len(sel), NEW j \in 1..Len(sel), i < j PROVE sel[i] # sel[j]
  <2>1. g[i] \in 1..Len(list) /\ g[j] \in 1..Len(list) /\ g[i] < g[j]
    BY <1>2, <1>3 DEF Enumerates
  <2>2. g[i] # g[j]
    BY <2>1
  <2> QED
    BY <1>2, <2>1, <2>2 DEF Distinct
<1>4. \A i, j \in 1..Len(sel) : i < j \/ j < i \/ i = j
  BY <1>1
<1> QED
  BY <1>3, <1>4 DEF Distinct, sel

-----------------------------------------------------------------------------
(* The loop that returns the first                                          *)

(* FirstOf finds nothing only where nothing is wanted, and else the wanted  *)
(* element that no other comes before.                                      *)
LEMMA FirstOfFinds ==
  ASSUME NEW S, NEW list \in Seq(S), NEW wanted
  PROVE  \/ /\ FirstOf(list, wanted) = <<>>
            /\ \A i \in 1..Len(list) : list[i] \notin wanted
         \/ \E i \in 1..Len(list) :
               /\ FirstOf(list, wanted) = <<list[i]>> /\ list[i] \in wanted
               /\ \A j \in 1..Len(list) : list[j] \in wanted => i <= j
<1> DEFINE found == Positions(list, wanted)
<1>1. CASE found = {}
  BY <1>1 DEF FirstOf, Positions
<1>2. CASE found # {}
  <2>1. found \subseteq Nat
    BY DEF Positions
  <2> DEFINE i == CHOOSE i \in found : \A j \in found : i <= j
  <2>2. i \in found /\ \A j \in found : i <= j
    BY <1>2, <2>1, LeastNumber
  <2>3. FirstOf(list, wanted) = <<list[i]>>
    BY <1>2 DEF FirstOf
  <2> HIDE DEF i
  <2> QED
    BY <2>2, <2>3 DEF Positions
<1> QED
  BY <1>1, <1>2

-----------------------------------------------------------------------------
(* A list of lists, put one after the other                                 *)

\* FlattenSeq's function, for the first m lists.
IsFlattening(f, lists, m) ==
    f = [i \in 1..m |-> IF i = 1 THEN lists[i] ELSE f[i - 1] \o lists[i]]

(* There is such a function.                                                *)
LEMMA FlatteningExists ==
  ASSUME NEW lists
  PROVE  \A m \in Nat : \E f : IsFlattening(f, lists, m)
<1> DEFINE S == {m \in Nat : \E f : IsFlattening(f, lists, m)}
<1>1. 0 \in S
  <2>1. IsFlattening([i \in 1..0 |-> <<>>], lists, 0)
    BY DEF IsFlattening
  <2> QED
    BY <2>1
<1>2. ASSUME NEW m \in Nat, m \in S PROVE m + 1 \in S
  <2>1. PICK f : IsFlattening(f, lists, m)
    BY <1>2
  <2> DEFINE last == IF m = 0 THEN lists[1] ELSE f[m] \o lists[m + 1]
             g == [i \in 1..(m + 1) |-> IF i = m + 1 THEN last ELSE f[i]]
  <2>2. IsFlattening(g, lists, m + 1)
    <3> HIDE DEF last
    <3>1. \A i \in 1..(m + 1) : g[i] = IF i = 1 THEN lists[i] ELSE g[i - 1] \o lists[i]
      <4> SUFFICES ASSUME NEW i \in 1..(m + 1)
                   PROVE  g[i] = IF i = 1 THEN lists[i] ELSE g[i - 1] \o lists[i]
        OBVIOUS
      <4>1. CASE i = m + 1
        <5>1. g[i] = last /\ (i = 1 <=> m = 0) /\ (i # 1 => g[i - 1] = f[m])
          BY <4>1
        <5> QED
          BY <4>1, <5>1 DEF last
      <4>2. CASE i # m + 1
        <5>1. i \in 1..m /\ g[i] = f[i] /\ (i # 1 => i - 1 \in 1..m /\ g[i - 1] = f[i - 1])
          BY <4>2
        <5>2. f[i] = IF i = 1 THEN lists[i] ELSE f[i - 1] \o lists[i]
          BY <2>1, <5>1 DEF IsFlattening
        <5> QED
          BY <5>1, <5>2
      <4> QED
        BY <4>1, <4>2
    <3>2. g = [i \in 1..(m + 1) |-> g[i]]
      OBVIOUS
    <3> HIDE DEF g
    <3> QED
      BY <3>1, <3>2 DEF IsFlattening
  <2> HIDE DEF g
  <2> QED
    BY <2>2
<1> HIDE DEF S
<1>3. \A m \in Nat : m \in S
  BY <1>1, <1>2, SetInduction
<1> QED
  BY <1>3 DEF S

(* What two lists hold, one after the other.                                *)
LEMMA ConcatElements ==
  ASSUME NEW S, NEW s \in Seq(S), NEW t \in Seq(S)
  PROVE  /\ s \o t \in Seq(S)
         /\ Elements(s \o t) = Elements(s) \cup Elements(t)
<1>1. /\ s \o t \in Seq(S) /\ Len(s \o t) = Len(s) + Len(t)
      /\ Len(s) \in Nat /\ Len(t) \in Nat
      /\ \A i \in 1..(Len(s) + Len(t)) :
            (s \o t)[i] = IF i <= Len(s) THEN s[i] ELSE t[i - Len(s)]
  BY ConcatProperties
<1>2. ASSUME NEW i \in 1..Len(s \o t)
      PROVE  (s \o t)[i] \in Elements(s) \cup Elements(t)
  <2>1. CASE i <= Len(s)
    BY <1>1, <2>1 DEF Elements
  <2>2. CASE ~(i <= Len(s))
    <3>1. i - Len(s) \in 1..Len(t) /\ (s \o t)[i] = t[i - Len(s)]
      BY <1>1, <2>2
    <3> QED
      BY <3>1 DEF Elements
  <2> QED
    BY <2>1, <2>2
<1>3. ASSUME NEW i \in 1..Len(s) PROVE s[i] \in Elements(s \o t)
  <2>1. i \in 1..Len(s \o t) /\ (s \o t)[i] = s[i]
    BY <1>1
  <2> QED
    BY <2>1 DEF Elements
<1>4. ASSUME NEW i \in 1..Len(t) PROVE t[i] \in Elements(s \o t)
  <2>1. Len(s) + i \in 1..Len(s \o t) /\ (s \o t)[Len(s) + i] = t[i]
    BY <1>1
  <2> QED
    BY <2>1 DEF Elements
<1> QED
  BY <1>1, <1>2, <1>3, <1>4 DEF Elements

(* FlattenSeq holds exactly what its lists hold.                            *)
LEMMA FlattenedElements ==
  ASSUME NEW S, NEW lists \in Seq(Seq(S))
  PROVE  /\ FlattenSeq(lists) \in Seq(S)
         /\ Elements(FlattenSeq(lists)) = UNION {Elements(lists[i]) : i \in 1..Len(lists)}
<1>1. Len(lists) \in Nat
  OBVIOUS
<1>2. CASE Len(lists) = 0
  <2>1. FlattenSeq(lists) = lists /\ lists = <<>> /\ lists \in Seq(S)
    BY <1>2 DEF FlattenSeq
  <2> QED
    BY <1>2, <2>1 DEF Elements
<1>3. CASE Len(lists) # 0
  <2> DEFINE f == CHOOSE f : IsFlattening(f, lists, Len(lists))
  <2>1. IsFlattening(f, lists, Len(lists))
    BY <1>1, FlatteningExists
  <2>2. FlattenSeq(lists) = f[Len(lists)]
    BY <1>3 DEF FlattenSeq, IsFlattening
  <2> HIDE DEF f
  <2> DEFINE Good(n) == /\ f[n] \in Seq(S)
                        /\ Elements(f[n]) = UNION {Elements(lists[i]) : i \in 1..n}
             T == {n \in Nat : n + 1 <= Len(lists) => Good(n + 1)}
  <2>3. \A n \in 1..Len(lists) : lists[n] \in Seq(S)
    OBVIOUS
  <2>4. \A n \in 1..Len(lists) : f[n] = IF n = 1 THEN lists[n] ELSE f[n - 1] \o lists[n]
    BY <2>1 DEF IsFlattening
  <2>5. 0 \in T
    <3>1. f[1] = lists[1] /\ lists[1] \in Seq(S)
      BY <1>1, <1>3, <2>3, <2>4
    <3>2. UNION {Elements(lists[i]) : i \in 1..1} = Elements(lists[1])
      <4>1. 1..1 = {1}
        OBVIOUS
      <4> QED
        BY <4>1
    <3>3. Good(0 + 1)
      BY <3>1, <3>2
    <3> QED
      BY <3>3
  <2>6. ASSUME NEW n \in Nat, n \in T PROVE n + 1 \in T
    <3> SUFFICES ASSUME (n + 1) + 1 <= Len(lists) PROVE Good((n + 1) + 1)
      OBVIOUS
    <3>1. Good(n + 1)
      BY <1>1, <2>6
    <3> DEFINE k == n + 2
    <3>2. k \in 1..Len(lists) /\ k # 1 /\ k - 1 = n + 1 /\ k = (n + 1) + 1
      BY <1>1
    <3>3. f[k] = f[k - 1] \o lists[k] /\ lists[k] \in Seq(S)
      BY <2>3, <2>4, <3>2
    <3>4. f[k] \in Seq(S) /\ Elements(f[k]) = Elements(f[k - 1]) \cup Elements(lists[k])
      BY <3>1, <3>2, <3>3, ConcatElements
    <3>5. UNION {Elements(lists[i]) : i \in 1..k}
             = (UNION {Elements(lists[i]) : i \in 1..(k - 1)}) \cup Elements(lists[k])
      <4>1. 1..k = (1..(k - 1)) \cup {k}
        BY <3>2
      <4> HIDE DEF k
      <4> QED
        BY <4>1
    <3>6. Elements(f[k - 1]) = UNION {Elements(lists[i]) : i \in 1..(k - 1)}
      BY <3>1, <3>2
    <3>7. Good(k)
      BY <3>4, <3>5, <3>6
    <3> QED
      BY <3>2, <3>7
  <2> HIDE DEF T
  <2>7. \A n \in Nat : n \in T
    BY <2>5, <2>6, SetInduction
  <2>8. Good(Len(lists))
    <3>1. PICK n \in Nat : n + 1 = Len(lists)
      <4>1. Len(lists) - 1 \in Nat /\ (Len(lists) - 1) + 1 = Len(lists)
        BY <1>1, <1>3
      <4> QED
        BY <4>1
    <3>2. n \in T /\ n + 1 <= Len(lists)
      BY <1>1, <2>7, <3>1
    <3>3. Good(n + 1)
      BY <3>2 DEF T
    <3> QED
      BY <3>1, <3>3
  <2> QED
    BY <2>2, <2>8
<1> QED
  BY <1>2, <1>3
=============================================================================
