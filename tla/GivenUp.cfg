\* Telegram refuses every send.
SPECIFICATION Spec
CONSTANTS
    moscow = moscow
    perm = perm
    chM = chM
    chP = chP
    s1 = s1
    s2 = s2
    s3 = s3
    Cities = {moscow, perm}
    CityOf <- MCCityOf
    Primary = moscow
    HeldChats = {}
    AutoPublish = FALSE
    Chats = {chM}
    Sessions = {s1}
    Panel = {}
    View <- FullScope
    Scope <- FullScope
    May <- ApproveOnlyBot
    Tasks = {t1}
    MaxRetries = 1
    MaxNow = 1
    MaxOps = 1
    Faults = {"send"}
    MaxFaults = 2
PROPERTIES
    GivenUpIsRecorded
SYMMETRY TaskSymmetry
CHECK_DEADLOCK FALSE
