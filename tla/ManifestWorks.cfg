\* Two callers, two generations, the second with two contents, one of them no
\* manifests; one invalid ManifestWork.
CONSTANTS
    Caller = {a, b}
    Work <- MCWork
    Options = {FALSE}
SYMMETRY CallerSymmetry
SPECIFICATION Spec
INVARIANTS
    SucceededHeld
    WorksInv
