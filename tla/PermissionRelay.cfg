SPECIFICATION FairSpec
CONSTANTS
    s1 = s1  r1 = r1  r2 = r2  p1 = p1  p2 = p2
    Sessions = {s1}
    Requests = {r1}
    Owner <- OneOwner
    Pwas = {p1, p2}
    Limit <- Once
    MaxEvents = 2
INVARIANTS Agreement NoPhantomWait LiveIsConnected CardsAreOpen
PROPERTIES ImplementsDecision RelayDelivers
CHECK_DEADLOCK FALSE
