\* A provisional record that is parked when it is cancelled.
CONSTANTS
    l1 = l1
    l2 = l2
    n1 = n1
    n2 = n2
    Lifecycles = {l1}
    Names = {n1}
    Sessions = {s1, s2}
    NoSession = NoSession
    Paths = {}
    Overlap = {}
    Briefs = {b1}
    Blank = b1
    Headings = {}
    NoHeading = NoHeading
    NotSupplied = NotSupplied
    Absent = Absent
    Clients = {c1}
    Nothing = Nothing
    MaxActivePersistent = 1
    MaxVersion = 4
    MaxDigests = 0
    MaxDecisions = 0
    MaxDirectives = 0
    Tasks = {t1}
    ProvName <- ProvNameDef
    NoRecord = NoRecord
    Ordinary = Ordinary
SPECIFICATION PSpec
INVARIANTS
    NoWorkOnCancelled
CHECK_DEADLOCK FALSE
