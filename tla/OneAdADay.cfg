\* An ad with a weekly schedule, for two days.
SPECIFICATION Spec
CONSTANTS
    spaced = spaced
    always = always
    moscow = moscow
    perm = perm
    m1 = m1
    m2 = m2
    p1 = p1
    a1 = a1
    a2 = a2
    w1 = w1
    w2 = w2
    DayMinutes = 4
    Offset = 1
    Callers = {a1, a2, w1, w2}
    AlbumMax = 2
    CaptionMax = 4
    TextMax = 8
    PostFaults = {"refuse", "answer", "delete"}
    MaxPostFaults = 0
    AdIds = {spaced, always}
    AdSlots = {a1, a2}
    ScheduleOf <- MCScheduleOf
    AdRetries = 2
    VisibilityTimeout = 2
    AdWork = {}
    AdFaults = {}
    MaxAdFaults = 1
    MaxAdWork = 0
    WeatherCities = {moscow, perm}
    ChannelsOf <- MCChannelsOf
    TargetOf <- MCTargetOf
    WeatherSlots = {w1, w2}
    Window = 1
    NowRetries = 1
    RedeliveredAfter = 2
    WeatherFaults = {"forecast", "task", "lost"}
    MaxWeatherFaults = 1
    MaxButtons = 1
    Starts <- AdsOnly
    Punctual = TRUE
    MaxNow = 7
INVARIANTS
    AdRecurs
SYMMETRY SlotSymmetry
CHECK_DEADLOCK FALSE
