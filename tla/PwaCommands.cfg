SPECIFICATION FairSpec
CONSTANTS
    s1 = s1  r1 = r1  c1 = c1  c2 = c2
    Sessions = {s1}
    Requests = {r1}
    Fresh = {c1, c2}
    MaxEvents = 1
    MaxQueue = 1
INVARIANT CommandsAreTracked
PROPERTIES ConfirmedIsDone Reconnects
CHECK_DEADLOCK FALSE
