\* Two moderators of all cities, one in the panel and one in the bot, approve, publish,
\* schedule and delete; the Redis lock expires early.
SPECIFICATION Spec
CONSTANTS
    moscow = moscow
    perm = perm
    chM = chM
    chP = chP
    s1 = s1
    s2 = s2
    s3 = s3
    Cities = {moscow, perm}
    CityOf <- MCCityOf
    Primary = moscow
    HeldChats = {}
    AutoPublish = FALSE
    Chats = {chM, chP}
    Sessions = {s1, s2}
    Panel = {s1}
    View <- FullScope
    Scope <- FullScope
    May <- PanelWork
    Tasks = {t1, t2}
    MaxRetries = 1
    MaxNow = 2
    MaxOps = 3
    Faults = {"lockExpiry"}
    MaxFaults = 1
INVARIANTS
    NothingForgotten
SYMMETRY TaskSymmetry
CHECK_DEADLOCK FALSE
