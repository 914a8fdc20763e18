SPECIFICATION FairSpec
CONSTANTS
    m1 = m1  m2 = m2  d1 = d1  d2 = d2  c1 = c1  c2 = c2  u1 = u1  u2 = u2
    Machines = {m1, m2}
    Ids = {d1, d2}
    Hostname <- SameName
    Codes = {c1}
    Users = {u1}
    MaxTokens = 2
    MaxFaults = 2
    MaxCommands = 3
INVARIANTS AccessIsExact FrontIsExact SetupIsWhole
PROPERTY LetInAtLast
CHECK_DEADLOCK FALSE
