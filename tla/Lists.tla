-------------------------------- MODULE Lists --------------------------------
(***************************************************************************)
(* The two loops over a slice that the lookups of this repository are made *)
(* of: keeping the elements that are wanted, and returning the first.      *)
(* What is wanted is a set, so that facts about the loops can be stated    *)
(* for every condition (ListProofs).                                       *)
(***************************************************************************)
EXTENDS Naturals, Sequences

Elements(list) == {list[i] : i \in 1..Len(list)}

\* for _, x := range list { if wanted { kept = append(kept, x) } }
Selected(list, wanted) ==
    LET kept[n \in 0..Len(list)] ==
            IF n = 0 THEN <<>>
            ELSE IF list[n] \in wanted THEN Append(kept[n - 1], list[n])
            ELSE kept[n - 1]
    IN  kept[Len(list)]

Positions(list, wanted) == {i \in 1..Len(list) : list[i] \in wanted}

\* for _, x := range list { if wanted { return x } }: <<>> if none is.
FirstOf(list, wanted) ==
    LET found == Positions(list, wanted) IN
    IF found = {} THEN <<>>
    ELSE <<list[CHOOSE i \in found : \A j \in found : i <= j]>>
=============================================================================
