\* The worker publishes between the bot's commit and its card.
SPECIFICATION Spec
CONSTANTS
    t1 = t1
    t2 = t2
    t3 = t3
    s1 = s1
    s2 = s2
    Texts = {t1, t2, t3}
    NoText = NoText
    Sessions = {s1, s2}
    Work = {"press"}
    PublishRetries = 1
    DeskFaults = {}
    MaxDeskFaults = 0
    Ready <- OnePending
    MaxCards = 2
    MaxWork = 2
INVARIANTS
    CardAlwaysMatches
SYMMETRY DeskSymmetry
CHECK_DEADLOCK FALSE
