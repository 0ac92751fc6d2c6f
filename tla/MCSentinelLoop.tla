--------------------------- MODULE MCSentinelLoop ---------------------------
(* One resource, which every message is about.                               *)
EXTENDS SentinelLoop, TLC

CONSTANTS k1

MCPayload == [m \in Msg |-> k1]

LoopSymmetry == Permutations(Callback) \cup Permutations(Worker)
=============================================================================
