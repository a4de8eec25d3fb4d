\* Two lives of two names compete for overlapping fences under a cap of one;
\* an edit and two shell commands run under two fences.
CONSTANTS
    p = p
    q = q
    r = r
    Lifecycles = {l1, l2}
    Names = {n1, n2}
    Sessions = {s1}
    NoSession = NoSession
    Paths = {p, q}
    Overlap <- OverlapDef
    Briefs = {b1}
    Headings = {}
    NoHeading = NoHeading
    NotSupplied = NotSupplied
    Absent = Absent
    Clients = {c1}
    Nothing = Nothing
    MaxActivePersistent = 1
    MaxVersion = 3
    MaxDigests = 0
    MaxDecisions = 0
    MaxDirectives = 0
    w1 = w1
    w2 = w2
    e1 = e1
    e2 = e2
    g1 = g1
    g2 = g2
    Owners = {g1, g2}
    f1 = f1
    f2 = f2
    Targets = {f1, f2}
    Calls = {w1, e1, e2}
    Caller <- CallerDef
    Tools <- ToolsDef
    Nobody = Nobody
    NoBaseline = NoBaseline
    Modes <- ModesDef
    MaxWrites = 1
    MaxFenceMoves = 1
SYMMETRY Symmetric
SPECIFICATION FencesSpec
INVARIANTS
    SingleWriter
    PersistentCap
    NoBreachForgotten
PROPERTIES
    ImplementsFenceOwnership
    NoSilentTakeover
    EditsStayInside
CHECK_DEADLOCK FALSE
