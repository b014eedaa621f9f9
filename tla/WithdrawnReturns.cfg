\* A published item is withdrawn.
SPECIFICATION Spec
CONSTANTS
    moscow = moscow
    perm = perm
    chM = chM
    chP = chP
    s1 = s1
    s2 = s2
    s3 = s3
    Cities = {moscow, perm}
    CityOf <- MCCityOf
    Primary = moscow
    HeldChats = {}
    AutoPublish = FALSE
    Chats = {chM, chP}
    Sessions = {s1}
    Panel = {}
    View <- FullScope
    Scope <- FullScope
    May <- WithdrawWork
    Tasks = {t1, t2}
    MaxRetries = 1
    MaxNow = 1
    MaxOps = 2
    Faults = {}
    MaxFaults = 0
INVARIANTS
    WithdrawnCanReturn
SYMMETRY TaskSymmetry
CHECK_DEADLOCK FALSE
