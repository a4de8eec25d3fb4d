\* A start that is under way while off drains.
CONSTANTS
    Lifecycles = {l1}
    Names = {n1}
    Sessions = {s1}
    NoSession = NoSession
    Paths = {}
    Overlap = {}
    Briefs = {b1}
    Headings = {g1}
    NoHeading = NoHeading
    NotSupplied = NotSupplied
    Absent = Absent
    Clients = {c1}
    Nothing = Nothing
    MaxActivePersistent = 2
    MaxVersion = 3
    MaxDigests = 1
    MaxDecisions = 0
    MaxDirectives = 0
    Commanders = {k1, k2}
    DrainHeading = g1
    Idle = Idle
SPECIFICATION TSpec
PROPERTIES
    OffParksEveryActive
CHECK_DEADLOCK FALSE
