\* One key and one worker are enough: the key is reconciled, the reconcile
\* asks for nothing, and nothing brings the key back.
CONSTANTS
    Key = {k1}
    Worker = {w1}
    NoKey = NoKey
SPECIFICATION Spec
PROPERTIES
    PeriodicResync
