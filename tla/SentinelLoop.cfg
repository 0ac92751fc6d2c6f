\* One resource edited once, announced by one event at a time; two workers, a failed or
\* waiting reconcile and a crash, each with a call that may still happen later.
CONSTANTS
    k1 = k1
    Key = {k1}
    Worker = {w1, w2}
    NoKey = NoKey
    Msg = {e1}
    NoMsg = NoMsg
    Callback = {c1}
    Payload <- MCPayload
    Unparseable = Unparseable
    NoResourceID = NoResourceID
    MaxNackCount = 3
    MaxCrashes = 1
    MaxMishaps = 0
    MaxGeneration = 2
    MaxFailures = 1
SPECIFICATION LoopSpec
INVARIANTS
    AnnouncedIsOnItsWay
PROPERTIES
    AppliedMovesForward
    EditsAreApplied
