\* Two candidates, rules, receipts and commands; an index that two
\* processes keep; a contract of four revisions; two tasks of two projects.
CONSTANTS
    a1 = a1
    ta = ta
    tb = tb
    d0 = d0
    r0 = r0
    Candidates = {d0, d1}
    Rules = {r0, r1}
    Alerts = {a1}
    Receipts = {x1, x2}
    Texts = {ta, tb}
    Askers = {k1, k2}
    Clashes <- ClashesDef
    Gates <- GatesDef
    Given <- GivenDef
    Unwritten = Unwritten
    NoCommand = NoCommand
    NoRule = NoRule
    NoReceipt = NoReceipt
    MaxEdits = 2
    Indexed = {i1, i2}
    Openers = {o1, o2}
    NoTable = NoTable
    MaxRuleVersion = 2
    tokens = tokens
    minutes = minutes
    edit = edit
    publish = publish
    Meters = {tokens, minutes}
    NoCeiling = NoCeiling
    Mandates <- MandatesDef
    Requests = {edit, publish}
    Floors = {publish}
    Amounts <- AmountsDef
    Checkers = {g1}
    NoCheck = NoCheck
    MaxRevisions = 4
    MaxSpend = 4
    built = built
    j1 = j1
    First = q1
    Projects = {j1, j2}
    TaskIds = {q1, q2}
    Memories = {}
    Attempts = {}
    Callers = {w1}
    Cooldown = 1
    Born = {"monitored"}
    ChecksOf <- ChecksOfDef
    NoTask = NoTask
    Gone = Gone
    NoMemory = NoMemory
    NoCriterion = NoCriterion
    MaxRows = 1
    MaxReminders = 0
    MaxSurfaced = 0
SPECIFICATION ConsentSpec
SYMMETRY SymConsent
INVARIANTS
    LiveMeansSigned
    BreakerSpeaksOnce
    PurgesErase
    MirrorsAgree
    DeliveredStands
PROPERTIES
    NothingUnanswered
    AlertsFallByAnswer
    LoneAnswersAreCurrent
    VerdictOfOneRevision
CHECK_DEADLOCK FALSE
