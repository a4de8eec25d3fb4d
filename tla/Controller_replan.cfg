\* Three units, the first redefined while the others are on its way.
CONSTANTS
    Units = {u1, u2, u3}
    u1 = u1
    u2 = u2
    u3 = u3
    c1 = c1
    c2 = c2
    s1 = s1
    s2 = s2
    laneA = laneA
    laneB = laneB
    Lanes = {laneA, laneB}
    Lane <- LaneOf
    Plans <- ChangeTheFirst
    Sessions = {s1}
    RetryCeiling = 0
    Commands = {c1}
    MayRun <- Alone
    Idle = Idle
    Bound <- PlanTwice
SPECIFICATION Spec
INVARIANTS
    DoneOnDone
CHECK_DEADLOCK FALSE
