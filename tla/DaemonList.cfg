SPECIFICATION DrawerFairSpec
CONSTANTS
    d1 = d1
    d2 = d2
    unnamed = unnamed
    den = den
    Daemons = {d1, d2}
    Names = {unnamed, den}
    NoName = unnamed
    MaxLoads = 2
    MaxEvents = 3
INVARIANT DrawerIsTrue
PROPERTY DrawerCatchesUp
CHECK_DEADLOCK FALSE
