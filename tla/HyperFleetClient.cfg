\* Two calls, each with the three attempts of the code.
CONSTANTS
    LastCall = 2
    MaxRetryAttempts = 3
SPECIFICATION Spec
INVARIANTS
    LastAnsweredIsStored
    RefusalIsDefinite
PROPERTIES
    ImplementsPut
    CallReturns
