SPECIFICATION MarksFairSpec
CONSTANTS
    s1 = s1  s2 = s2
    Sessions = {s1, s2}
    PageSize = 2
    MaxLines = 3
    MaxSteps = 4
INVARIANT MarksAreTrue
PROPERTY MarksCatchUp
CHECK_DEADLOCK FALSE
