\* Two moderators decide one of the two cities of an item each.
SPECIFICATION FairSpec
CONSTANTS
    moscow = moscow
    perm = perm
    kazan = kazan
    iM1 = iM1
    iM2 = iM2
    iP = iP
    iMP = iMP
    iK = iK
    Items = {iM1, iMP}
    Cities = {moscow, perm}
    TargetsOf <- MCTargetsOf
    Urgent = {}
    ByHand = {}
    Interval = 2
    Moderators = {m1}
    Partial = TRUE
    Lag = 0
    LastApproval = 3
    MaxNow = 9
PROPERTIES
    RecordedIsPosted
CHECK_DEADLOCK FALSE
