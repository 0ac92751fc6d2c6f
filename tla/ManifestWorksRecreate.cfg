\* One caller and two generations with different labels are enough.
CONSTANTS
    Caller = {a}
    Work <- MCTwoWorks
    Options = {TRUE}
SPECIFICATION Spec
PROPERTIES
    RecreateHonoured
