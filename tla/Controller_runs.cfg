\* A plan made while the driver steps, answers or stops: two plans, one kill.
CONSTANTS
    Units = {u1, u2}
    u1 = u1
    u2 = u2
    u3 = u3
    c1 = c1
    c2 = c2
    s1 = s1
    s2 = s2
    laneA = laneA
    laneB = laneB
    Lanes = {laneA, laneB}
    Lane <- LaneOf
    Plans <- ChangeAndDrop
    Sessions = {s1}
    RetryCeiling = 1
    Commands = {c1, c2}
    MayRun <- Driver
    Idle = Idle
    Bound <- Quiet
SPECIFICATION Spec
INVARIANTS
    DoneAsDefined
    OneAwaited
CHECK_DEADLOCK FALSE
