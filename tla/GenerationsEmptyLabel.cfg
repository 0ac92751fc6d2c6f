\* One manifest with one label is enough.
CONSTANTS
    MaxWorks = 1
    MaxManifests = 1
SPECIFICATION Spec
INVARIANTS
    AllSelectorLabelsPresent
