SPECIFICATION FairSpec
CONSTANTS
    s1 = s1  p1 = p1
    Sessions = {s1}
    Statuses = {"idle", "working"}
    Initial = "idle"
    Pwas = {p1}
    Limit <- Faults
    MaxEvents = 3
INVARIANTS RegistryIsExact OfflineIsForgotten ListsAddUp
PROPERTY Mirrored
CHECK_DEADLOCK FALSE
