\* Two editors save at once.
SPECIFICATION Spec
CONSTANTS
    t1 = t1
    t2 = t2
    t3 = t3
    s1 = s1
    s2 = s2
    Texts = {t1, t2, t3}
    NoText = NoText
    Sessions = {s1, s2}
    Work = {"edit"}
    PublishRetries = 1
    DeskFaults = {}
    MaxDeskFaults = 0
    Ready <- OnePending
    MaxCards = 2
    MaxWork = 2
INVARIANTS
    NumbersDiffer
SYMMETRY DeskSymmetry
CHECK_DEADLOCK FALSE
