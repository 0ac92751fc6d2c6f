\* Two ManifestWorks with three manifests between them.
CONSTANTS
    MaxWorks = 2
    MaxManifests = 3
SPECIFICATION Spec
INVARIANTS
    LatestIsNewest
    SelectorRoundTrip
    DiscoveryFindsWhatGetFinds
    EnrichedIsOwn
