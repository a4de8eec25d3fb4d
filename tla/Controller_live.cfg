\* Two units that come and go, one kill, two plans, one act of the founder.
CONSTANTS
    Units = {u1, u2}
    u1 = u1
    u2 = u2
    u3 = u3
    c1 = c1
    c2 = c2
    s1 = s1
    s2 = s2
    laneA = laneA
    laneB = laneB
    Lanes = {laneA, laneB}
    Lane <- LaneOf
    Plans <- GrowAndShrink
    Sessions = {s1, s2}
    RetryCeiling = 0
    Commands = {c1}
    MayRun <- Alone
    Idle = Idle
    Bound <- Few
SPECIFICATION FairSpec
INVARIANTS
    FencedWhileOpen
    DeliveredIsOver
PROPERTIES
    NoUnitStranded
    AnswersAreJudged
CHECK_DEADLOCK FALSE
