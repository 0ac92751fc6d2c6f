\* Two manifests of different kinds that share a name are enough.
CONSTANTS
    MaxWorks = 1
    MaxManifests = 2
SPECIFICATION Spec
INVARIANTS
    SingleResourceByName
