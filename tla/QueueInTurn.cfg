\* Approvals come one at a time and decide whole items, beat is punctual, one item of moscow
\* is urgent and the item of kazan may be scheduled by hand.
SPECIFICATION FairSpec
CONSTANTS
    moscow = moscow
    perm = perm
    kazan = kazan
    iM1 = iM1
    iM2 = iM2
    iP = iP
    iMP = iMP
    iK = iK
    Items = {iM1, iM2, iMP, iK}
    Cities = {moscow, perm, kazan}
    TargetsOf <- MCTargetsOf
    Urgent = {iM2}
    ByHand = {iK}
    Interval = 2
    Moderators = {m1}
    Partial = FALSE
    Lag = 0
    LastApproval = 3
    MaxNow = 9
INVARIANTS
    TypeOK
    SlotsApart
    PostsApart
    WaitIsBounded
PROPERTIES
    OwnQueueOnly
    ApprovedIsPosted
CHECK_DEADLOCK FALSE
