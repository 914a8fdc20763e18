SPECIFICATION FairStartSpec
CONSTANTS
    n1 = n1  n2 = n2  d1 = d1  d2 = d2  r1 = r1  r2 = r2
    Procs = {n1, n2}
    Dirs = {d1, d2}
    Slashes = {FALSE}
    HasEnv = {n1}
    Requests = {r1, r2}
    MaxDialogs = 2
    MaxIncidents = 2
INVARIANT StartsAreTracked
PROPERTIES StartsUnattended KilledStaysDead
CHECK_DEADLOCK FALSE
