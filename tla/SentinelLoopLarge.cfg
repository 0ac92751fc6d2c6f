\* Safety, with the inductive invariant: one event for one resource that is edited once,
\* two callbacks, two workers, a failed or waiting reconcile, a crash and a mishap of
\* Pub/Sub.
CONSTANTS
    k1 = k1
    Key = {k1}
    Worker = {w1, w2}
    NoKey = NoKey
    Msg = {e1}
    NoMsg = NoMsg
    Callback = {c1, c2}
    Payload <- MCPayload
    Unparseable = Unparseable
    NoResourceID = NoResourceID
    MaxNackCount = 3
    MaxCrashes = 1
    MaxMishaps = 1
    MaxGeneration = 2
    MaxFailures = 1
SYMMETRY LoopSymmetry
SPECIFICATION LoopSafeSpec
INVARIANTS
    AnnouncedIsOnItsWay
    LoopInv
PROPERTIES
    AppliedMovesForward
