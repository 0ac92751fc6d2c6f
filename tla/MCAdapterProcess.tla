-------------------------- MODULE MCAdapterProcess --------------------------
(* AdapterProcess with an event, a message without a resource id and a      *)
(* poison pill.                                                             *)
EXTENDS AdapterProcess, TLC

CONSTANTS e1, blank, poison, k1

MCMsg == {e1, blank, poison}

MCEventMsg == {e1}

CallbackSymmetry == Permutations(Callback)

MCPayload ==
    [m \in Msg |-> IF m = e1 THEN k1 ELSE IF m = blank THEN NoResourceID ELSE Unparseable]
=============================================================================
