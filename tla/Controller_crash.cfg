\* One unit, one kill, and nobody else.
CONSTANTS
    Units = {u1}
    u1 = u1
    u2 = u2
    u3 = u3
    c1 = c1
    c2 = c2
    s1 = s1
    s2 = s2
    laneA = laneA
    laneB = laneB
    Lanes = {laneA, laneB}
    Lane <- LaneOf
    Plans <- OneUnitPlan
    Sessions = {s1}
    RetryCeiling = 1
    Commands = {c1}
    MayRun <- Alone
    Idle = Idle
    Bound <- KillOnce
SPECIFICATION FairSpec
PROPERTIES
    CrashKeepsThePlace
CHECK_DEADLOCK FALSE
