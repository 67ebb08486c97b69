\* Components around calls and content; each behaviour is about one of them.
CONSTANTS
    p1 = p1
    p2 = p2
    p3 = p3
    d1 = d1
    d2 = d2
    d3 = d3
    Host = Host
    None = None
SPECIFICATION Spec
INVARIANTS
    TypeOK
    BillingIsExact
    CallabilityIsTrue
    CatalogAgrees
    MomentsAreTrue
    MediaAreWhole
    EventsAreProjected
    PlacesAreKept
PROPERTIES
    BillingNeverTurnsBack
    StepsAreJustified
SYMMETRY Symmetry
CHECK_DEADLOCK FALSE
