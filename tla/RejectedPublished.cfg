\* An item is rejected while its task is in the queue.
SPECIFICATION Spec
CONSTANTS
    moscow = moscow
    perm = perm
    chM = chM
    chP = chP
    s1 = s1
    s2 = s2
    s3 = s3
    Cities = {moscow, perm}
    CityOf <- MCCityOf
    Primary = moscow
    HeldChats = {}
    AutoPublish = FALSE
    Chats = {chM, chP}
    Sessions = {s1, s2}
    Panel = {}
    View <- FullScope
    Scope <- FullScope
    May <- RejectWork
    Tasks = {t1, t2}
    MaxRetries = 1
    MaxNow = 1
    MaxOps = 2
    Faults = {}
    MaxFaults = 0
PROPERTIES
    RejectedStaysUnpublished
SYMMETRY TaskSymmetry
CHECK_DEADLOCK FALSE
