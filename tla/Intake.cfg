\* Sources and letters.
SPECIFICATION FairSpec
CONSTANTS
    moscow = moscow
    perm = perm
    world = world
    regional = regional
    wire = wire
    named = named
    federal = federal
    abroad = abroad
    late = late
    fire = fire
    flood = flood
    rates = rates
    nobucket = nobucket
    nocity = nocity
    nostory = nostory
    reader = reader
    h1 = h1
    h2 = h2
    Cities = {moscow, perm, world}
    Stories = {fire, flood, rates}
    NoStory = nostory
    Sources = {regional, wire}
    Items = {named, late, abroad}
    SourceOf <- MCSourceOf
    StoryOf <- MCStoryOf
    TextOf <- MCTextOf
    LinkedTo <- MCLinkedTo
    Undated = {late}
    AutoPublish = {wire}
    Bucket = world
    NoBucket = nobucket
    RussianCities = {moscow, perm}
    Interval = 1
    MaxAge = 1
    MaxRetries = 1
    PanelWork = {"source", "city", "check", "delete"}
    Faults = {"fetch", "item", "card", "task", "taskLate", "lost", "lostLate"}
    MaxFaults = 1
    MaxNow = 1
    MaxRuns = 2
    MaxOps = 1
    Readers = {reader}
    Handlers = {h1}
    NoCity = nocity
    Offered = {moscow}
    Topics = {flood}
    LetterRetries = 1
    Events = {"suggest", "cancel", "link", "city", "text", "media", "done", "location", "skip", "anonymity", "author", "approved", "rejected", "early"}
    LetterFaults = {"card", "task", "lost", "queue", "bot"}
    MaxLetterFaults = 1
    MaxEvents = 8
    MaxLetters = 1
    Settings <- MCSettings
INVARIANTS
    TypeOK
    StoredOnce
    OverlapCostsOne
    TargetsFit
    LetterIsComplete
PROPERTIES
    HandedOn
    LetterReachesModerators
CHECK_DEADLOCK FALSE
