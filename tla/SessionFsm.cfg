SPECIFICATION Spec
CONSTANTS
    Sessions = {s1, s2}
    MaxPending = 2
INVARIANT FsmInv
PROPERTY ImplementsStatus
