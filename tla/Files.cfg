\* Two redraws and one kept backup; every pair of paths of up to three
\* segments; three openers and two files; three snapshots of two sessions.
CONSTANTS
    path = path
    masked = masked
    Writers = {w1, w2}
    Notes = {path, masked}
    Protected <- ProtectedDef
    NoView = NoView
    Keep = 1
    EditsRace = FALSE
    MaxCommits = 1
    MaxBackups = 3
    src = src
    SRC = SRC
    leaf = leaf
    star = star
    starPy = starPy
    Literals = {src, SRC, leaf}
    Patterns = {star, starPy}
    Matches <- MatchesDef
    Extended <- ExtendedDef
    Fold <- FoldDef
    Empty = Empty
    MaxDepth = 3
    p1 = p1
    p2 = p2
    p3 = p3
    Openers = {p1, p2, p3}
    Roles <- RolesDef
    Knows <- KnowsDef
    Top = 2
    Files = {1, 2}
    NoFile = NoFile
    Incidents = {i1}
    NoDir = NoDir
    MaxDamages = 1
    Attempts = {1, 2, 3}
    t1 = t1
    Talkers = {t1, t2}
    NoOne = NoOne
    Retain = 1
    MaxTicks = 3
    MaxFaults = 1
    AtOnce = 2
SPECIFICATION FilesSpec
INVARIANTS
    OutsideProseKept
    SharedFileOverlaps
    GrantsWhatItsFenceCovers
    VersionHasItsTables
    FailureReplacesSuccess
    RecoverOffersTheNewest
PROPERTIES
    ReplacedTextBackedUp
    FinishedStoresStay
    MigratedFromACopy
    NewestAreRetained
CHECK_DEADLOCK FALSE
