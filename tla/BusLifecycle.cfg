SPECIFICATION FairSpec
CONSTANTS
    p1 = p1
    p2 = p2
    a1 = a1
    a2 = a2
    a3 = a3
    NoAdapter = NoAdapter
    Ports <- OnePort
    Adapters <- ThreeAdapters
    Nameless <- OneNameless
INVARIANTS
    TypeOK
    ListingFollowsService
PROPERTIES
    PluggedGetsServed
    UnpluggedGetsReleased
