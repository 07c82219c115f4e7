SPECIFICATION Spec
CONSTANTS
    p1 = p1
    p2 = p2
    a1 = a1
    a2 = a2
    a3 = a3
    NoAdapter = NoAdapter
    Ports <- TwoPorts
    Adapters <- OneAdapter
    Nameless <- AllNamed
SYMMETRY PortSymmetry
INVARIANTS
    PublishedCatchesUp
