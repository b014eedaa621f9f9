\* Two moderators in the bot, one of all cities and one of perm, and one in the panel who
\* edits and deletes; Telegram refuses a send, the Redis lock expires early, the broker
\* delivers a message twice.
SPECIFICATION Spec
CONSTANTS
    moscow = moscow
    perm = perm
    chM = chM
    chP = chP
    s1 = s1
    s2 = s2
    s3 = s3
    Cities = {moscow, perm}
    CityOf <- MCCityOf
    Primary = moscow
    HeldChats = {}
    AutoPublish = FALSE
    Chats = {chM, chP}
    Sessions = {s1, s2, s3}
    Panel = {s3}
    View <- FullScope
    Scope <- FirstFull
    May <- BotWork
    Tasks = {t1, t2, t3}
    MaxRetries = 1
    MaxNow = 1
    MaxOps = 3
    Faults = {"send", "lockExpiry", "redeliver"}
    MaxFaults = 2
INVARIANTS
    TypeOK
    NoDoublePost
    NoOrphanPost
    PostedIsGranted
    ScheduledHasSlot
PROPERTIES
    ApprovedNeverShrinks
    KeepsPromise
SYMMETRY TaskSymmetry
CHECK_DEADLOCK FALSE
