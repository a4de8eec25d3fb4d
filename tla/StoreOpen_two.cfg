\* Two programs of one age come to one older store that is whole.
CONSTANTS
    p1 = p1
    p2 = p2
    p3 = p3
    Openers = {p1, p2}
    Roles <- WritersDef
    Knows <- KnowsDef
    Top = 2
    Files = {1, 2}
    NoFile = NoFile
    Incidents = {i1}
    NoDir = NoDir
    MaxDamages = 0
SPECIFICATION OSpec
PROPERTY SoundStoresStay
CHECK_DEADLOCK FALSE
