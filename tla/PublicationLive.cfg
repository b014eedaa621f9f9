\* Both moderators decide all cities, Telegram refuses no more sends than there are
\* retries, and what is published may be withdrawn.
SPECIFICATION FairSpec
CONSTANTS
    moscow = moscow
    perm = perm
    chM = chM
    chP = chP
    s1 = s1
    s2 = s2
    s3 = s3
    Cities = {moscow, perm}
    CityOf <- MCCityOf
    Primary = moscow
    HeldChats = {}
    AutoPublish = FALSE
    Chats = {chM}
    Sessions = {s1, s2}
    Panel = {}
    View <- FullScope
    Scope <- FullScope
    May <- LiveWork
    Tasks = {t1, t2}
    MaxRetries = 2
    MaxNow = 1
    MaxOps = 3
    Faults = {"send"}
    MaxFaults = 2
PROPERTIES
    ApprovedSettles
    ApprovedIsDelivered
CHECK_DEADLOCK FALSE
