\* An item published unseen is published again and deleted, and everything fails that can,
\* except that the Redis lock does not expire early.
SPECIFICATION Spec
CONSTANTS
    moscow = moscow
    perm = perm
    chM = chM
    chP = chP
    s1 = s1
    s2 = s2
    s3 = s3
    Cities = {moscow, perm}
    CityOf <- MCCityOf
    Primary = moscow
    HeldChats = {}
    AutoPublish = TRUE
    Chats = {chM, chP}
    Sessions = {s1, s2}
    Panel = {s2}
    View <- FullScope
    Scope <- FullScope
    May <- DeleteWork
    Tasks = {t1, t2}
    MaxRetries = 1
    MaxNow = 1
    MaxOps = 2
    Faults = {"answer", "abort", "workerLost", "redeliver", "queue", "telegramDelete", "apiLost"}
    MaxFaults = 2
INVARIANTS
    OneExecution
SYMMETRY TaskSymmetry
CHECK_DEADLOCK FALSE
