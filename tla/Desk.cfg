\* Two handlers at once, three operations, or two and a fault; every behaviour
\* ends when nothing more is asked.
SPECIFICATION Spec
CONSTANTS
    t1 = t1
    t2 = t2
    t3 = t3
    s1 = s1
    s2 = s2
    Texts = {t1, t2, t3}
    NoText = NoText
    Sessions = {s1, s2}
    Work <- Everything
    PublishRetries = 1
    DeskFaults = {"card", "edit", "abort", "refuse", "ai"}
    MaxDeskFaults = 2
    Ready <- MCReady
    MaxCards = 2
    MaxWork = 3
INVARIANTS
    TypeOK
    VersionsKeepAll
    PostIsCurrent
    CardFits
SYMMETRY DeskSymmetry
CHECK_DEADLOCK FALSE
