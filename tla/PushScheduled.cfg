\* An item in the queue is to be pushed out at once.
SPECIFICATION Spec
CONSTANTS
    moscow = moscow
    perm = perm
    chM = chM
    chP = chP
    s1 = s1
    s2 = s2
    s3 = s3
    Cities = {moscow, perm}
    CityOf <- MCCityOf
    Primary = moscow
    HeldChats = {}
    AutoPublish = FALSE
    Chats = {chM, chP}
    Sessions = {s1}
    Panel = {}
    View <- FullScope
    Scope <- FullScope
    May <- ApproveOnlyBot
    Tasks = {t1}
    MaxRetries = 1
    MaxNow = 1
    MaxOps = 2
    Faults = {}
    MaxFaults = 0
INVARIANTS
    ScheduledCanBePushed
SYMMETRY TaskSymmetry
CHECK_DEADLOCK FALSE
