\* Three keys, so that one waits behind another while a third is held, and
\* two workers.
CONSTANTS
    Key = {k1, k2, k3}
    Worker = {w1, w2}
    NoKey = NoKey
SPECIFICATION Spec
INVARIANTS
    IInv
    KeyExclusive
    NothingLeftBehind
PROPERTIES
    ImplementsExecutor
    ComesBack
    ShutdownCompletes
