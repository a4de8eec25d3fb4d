\* Two callers work on what they read of one life, with handovers on the way;
\* two decide about one that is provisional; two
\* commands remind of two memories.
CONSTANTS
    p = p
    q = q
    r = r
    l1 = l1
    l2 = l2
    n1 = n1
    n2 = n2
    Lifecycles = {l1}
    Names = {n1}
    Sessions = {s1}
    NoSession = NoSession
    Paths = {p}
    Overlap <- OverlapDef
    Briefs = {b1}
    Blank = b1
    Headings = {h1}
    NoHeading = NoHeading
    NotSupplied = NotSupplied
    Absent = Absent
    Clients = {c1, c2}
    Nothing = Nothing
    MaxActivePersistent = 1
    MaxVersion = 4
    MaxDigests = 1
    MaxDecisions = 1
    MaxDirectives = 1
    Tasks = {t1}
    ProvName <- ProvNameDef
    NoRecord = NoRecord
    Ordinary = Ordinary
    built = built
    j1 = j1
    First = NoTask
    Projects = {j1}
    TaskIds = {}
    Memories = {m1, m2}
    Attempts = {m1}
    Callers = {w1, w2}
    Cooldown = 1
    Born = {}
    ChecksOf <- ChecksOfDef
    NoTask = NoTask
    Gone = Gone
    NoMemory = NoMemory
    NoCriterion = NoCriterion
    MaxRows = 1
    MaxReminders = 3
    MaxSurfaced = 2
SPECIFICATION LedgerSpec
SYMMETRY SymLedger
INVARIANTS
    NoLostHandover
    CancelledIsOver
    NothingLeftBehind
    RemindersCoolDown
PROPERTIES
    NoLostUpdate
    LinksAndEndsStand
CHECK_DEADLOCK FALSE
