\* One event, one callback at a time, no crash and no mishap.
CONSTANTS
    e1 = e1
    blank = blank
    poison = poison
    k1 = k1
    Key = {k1}
    Worker = {w1}
    NoKey = NoKey
    Msg <- MCEventMsg
    NoMsg = NoMsg
    Callback = {c1}
    Payload <- MCPayload
    Unparseable = Unparseable
    NoResourceID = NoResourceID
    MaxNackCount = 3
    MaxCrashes = 0
    MaxMishaps = 0
SPECIFICATION ProcSpec
PROPERTIES
    PullsUntilCancelled
