SPECIFICATION FairSpec
CONSTANTS
    q1 = q1  q2 = q2  p1 = p1  p2 = p2
    Questions = {q1}
    Pwas = {p1, p2}
    MaxLost = 2
    Limit <- Anything
    MaxEvents = 2
INVARIANTS ToldIsEnd CardsAreOpen ReceiptsAreTrue
PROPERTIES ImplementsDecision HookIsAnswered
CHECK_DEADLOCK FALSE
