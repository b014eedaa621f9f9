\* A moderator of one city schedules an item of two.
SPECIFICATION Spec
CONSTANTS
    moscow = moscow
    perm = perm
    chM = chM
    chP = chP
    s1 = s1
    s2 = s2
    s3 = s3
    Cities = {moscow, perm}
    CityOf <- MCCityOf
    Primary = moscow
    HeldChats = {}
    AutoPublish = FALSE
    Chats = {chM, chP}
    Sessions = {s1}
    Panel = {s1}
    View <- PermOnly
    Scope <- PermOnly
    May <- JustSchedule
    Tasks = {t1}
    MaxRetries = 1
    MaxNow = 1
    MaxOps = 1
    Faults = {}
    MaxFaults = 0
INVARIANTS
    PostedIsGranted
SYMMETRY TaskSymmetry
CHECK_DEADLOCK FALSE
