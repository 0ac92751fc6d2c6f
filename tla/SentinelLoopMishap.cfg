\* The same specification with one worker, two callbacks and a mishap of Pub/Sub: a lost
\* ack or a duplicate on the way of an announced edit.
CONSTANTS
    k1 = k1
    Key = {k1}
    Worker = {w1}
    NoKey = NoKey
    Msg = {e1}
    NoMsg = NoMsg
    Callback = {c1, c2}
    Payload <- MCPayload
    Unparseable = Unparseable
    NoResourceID = NoResourceID
    MaxNackCount = 3
    MaxCrashes = 1
    MaxMishaps = 1
    MaxGeneration = 2
    MaxFailures = 1
SPECIFICATION LoopSpec
INVARIANTS
    AnnouncedIsOnItsWay
PROPERTIES
    AppliedMovesForward
    EditsAreApplied
