SPECIFICATION FairSpec
CONSTANTS
    f1 = f1  f2 = f2  home = home  tilde = tilde  sub = sub
    Fields = {f1, f2}
    Paths = {home, tilde, sub}
    Real <- Tilde
    Allowed = {home, sub}
    MaxRequests = 2
    MaxChanges = 1
    MaxLosses = 1
INVARIANTS ListingsAreOwn FieldsDescend ReadsAreWhole
PROPERTY LoadingEnds
CHECK_DEADLOCK FALSE
