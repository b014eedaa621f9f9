\* Two moderators approve at the same time.
SPECIFICATION Spec
CONSTANTS
    moscow = moscow
    perm = perm
    kazan = kazan
    iM1 = iM1
    iM2 = iM2
    iP = iP
    iMP = iMP
    iK = iK
    Items = {iM1, iM2, iMP}
    Cities = {moscow, perm}
    TargetsOf <- MCTargetsOf
    Urgent = {}
    ByHand = {}
    Interval = 2
    Moderators = {m1, m2}
    Partial = FALSE
    Lag = 0
    LastApproval = 2
    MaxNow = 9
INVARIANTS
    SlotsApart
CHECK_DEADLOCK FALSE
