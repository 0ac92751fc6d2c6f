\* Safety: three kinds of message, two callbacks at once, one crash or
\* replacement of the process and two mishaps of Pub/Sub.
CONSTANTS
    e1 = e1
    blank = blank
    poison = poison
    k1 = k1
    Key = {k1}
    Worker = {w1}
    NoKey = NoKey
    Msg <- MCMsg
    NoMsg = NoMsg
    Callback = {c1, c2}
    Payload <- MCPayload
    Unparseable = Unparseable
    NoResourceID = NoResourceID
    MaxNackCount = 3
    MaxCrashes = 1
    MaxMishaps = 2
SYMMETRY CallbackSymmetry
SPECIFICATION ProcSafeSpec
INVARIANTS
    ProcTypeOK
    AckedIsHandedOver
    NackBudget
