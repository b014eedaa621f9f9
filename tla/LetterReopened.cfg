\* The web push after the card fails, and the task runs again after the decision.
SPECIFICATION Spec
CONSTANTS
    moscow = moscow
    perm = perm
    world = world
    regional = regional
    wire = wire
    named = named
    federal = federal
    abroad = abroad
    late = late
    fire = fire
    flood = flood
    rates = rates
    nobucket = nobucket
    nocity = nocity
    nostory = nostory
    reader = reader
    h1 = h1
    h2 = h2
    Cities = {moscow, perm, world}
    Stories = {fire, flood, rates}
    NoStory = nostory
    Sources = {regional}
    Items = {late}
    SourceOf <- MCSourceOf
    StoryOf <- MCStoryOf
    TextOf <- MCTextOf
    LinkedTo <- MCLinkedTo
    Undated = {late}
    AutoPublish = {}
    Bucket = world
    NoBucket = nobucket
    RussianCities = {moscow, perm}
    Interval = 1
    MaxAge = 1
    MaxRetries = 1
    PanelWork = {}
    Faults = {}
    MaxFaults = 0
    MaxNow = 1
    MaxRuns = 0
    MaxOps = 0
    Readers = {reader}
    Handlers = {h1}
    NoCity = nocity
    Offered = {moscow}
    Topics = {flood}
    LetterRetries = 1
    Events = {"link", "text", "done", "skip", "anonymity", "rejected"}
    LetterFaults = {"task"}
    MaxLetterFaults = 1
    MaxEvents = 5
    MaxLetters = 1
    Settings <- MCTogether
PROPERTIES
    DecidedStays
CHECK_DEADLOCK FALSE
