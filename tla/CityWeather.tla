----------------------------- MODULE CityWeather -----------------------------
(***************************************************************************)
(* The daily weather post of each city: the beat task publish_city_weather *)
(* and the task behind the button, publish_city_weather_now.               *)
(***************************************************************************)
EXTENDS Calendar, TelegramPost

CONSTANTS
    WeatherCities, ChannelsOf,      \* the cities with weather_enabled, the active channels
    TargetOf,                       \* weather_time, as a minute of the day
    WeatherSlots,
    Window,                         \* window_minutes
    NowRetries,                     \* max_retries of publish_city_weather_now
    RedeliveredAfter,               \* the broker's visibility timeout, in minutes
    WeatherFaults, MaxWeatherFaults,    \* "forecast", "task", "lost"
    MaxButtons                      \* bound: the button is pressed

ASSUME WeatherAssumption ==
    /\ WeatherSlots \subseteq Callers
    /\ TargetOf \in [WeatherCities -> 0..(DayMinutes - 1)]
    /\ \A c, d \in WeatherCities : c # d => ChannelsOf[c] \cap ChannelsOf[d] = {}
    /\ Window \in Nat /\ NowRetries \in Nat /\ RedeliveredAfter \in Nat
    /\ MaxWeatherFaults \in Nat /\ MaxButtons \in Nat

VARIABLES
    marked,         \* of a city: weather_last_published_on
    beatRan,        \* this minute's beat has enqueued its task
    weatherRun,     \* of a slot: the task it runs
    weatherFaults,  \* how many there have been; the cities they may cost a second post (history)
    buttons         \* how often the button was pressed

weatherVars == <<marked, beatRan, weatherRun, weatherFaults, buttons>>

NoDay == -1
WeatherPost == [NoPost EXCEPT !.text = <<Char>>]
NoRun == [pc |-> "none", by |-> "beat", cities |-> {}, attempt |-> 0, due |-> 0, today |-> 0,
          city |-> {}, channels |-> {}, done |-> {}]

\* q: the marks there are, and how much of the bounds is used up.
WeatherInit(q) ==
    /\ marked = [c \in WeatherCities |-> NoDay]
    /\ beatRan = FALSE
    /\ weatherRun = [n \in WeatherSlots |-> NoRun]
    /\ weatherFaults = [count |-> q.weatherFaults, cost |-> {}]
    /\ buttons = q.buttons

-------------------------------------------------------------------------------
Today == DayOf(Local(now))

\* The slip: the mark is not looked at.
IsTimeAgain(c) ==
    TargetOf[c] <= MinuteOf(Local(now)) /\ MinuteOf(Local(now)) <= TargetOf[c] + Window

\* The slip: the minute has to be met exactly.
IsTimeExactly(c) == marked[c] # Today /\ TargetOf[c] = MinuteOf(Local(now))

IsTime(c) ==
    /\ marked[c] # Today
    /\ TargetOf[c] <= MinuteOf(Local(now)) /\ MinuteOf(Local(now)) <= TargetOf[c] + Window

EnqueueRun(run) ==
    \E n \in WeatherSlots :
        /\ weatherRun[n].pc = "none"
        /\ weatherRun' = [weatherRun EXCEPT ![n] = [run EXCEPT !.pc = "queued", !.due = now]]

BeatWeather ==
    /\ "weather" \in beats /\ ~beatRan
    /\ beatRan' = TRUE
    /\ EnqueueRun(NoRun)
    /\ UNCHANGED <<marked, weatherFaults, buttons, postVars, calendarVars>>

PressButton(c) ==
    /\ buttons < MaxButtons
    /\ buttons' = buttons + 1
    /\ EnqueueRun([NoRun EXCEPT !.by = "button", !.cities = {c}])
    /\ UNCHANGED <<marked, beatRan, weatherFaults, postVars, calendarVars>>

\* What a run has posted or may have; what beat's runs have before them.
Attempted(r) == r.city \cup r.done
InHand == UNION {weatherRun[m].cities \cup Attempted(weatherRun[m]) : m \in {k \in WeatherSlots : weatherRun[k].by = "beat"}}

\* The minute and the cities' rows are read once, at the start; that another run
\* has the city in hand is not.
StartRun(n) ==
    LET r == weatherRun[n]
        cities == IF r.by = "beat" THEN {c \in WeatherCities : IsTime(c)} ELSE r.cities IN
    /\ r.pc = "queued" /\ r.due <= now
    /\ weatherRun' = [weatherRun EXCEPT ![n] = [r EXCEPT !.pc = "working", !.today = Today, !.cities = cities]]
    /\ weatherFaults' = [weatherFaults EXCEPT !.cost = @ \cup (IF r.by = "beat" THEN cities \cap InHand ELSE {})]
    /\ UNCHANGED <<marked, beatRan, buttons, postVars, calendarVars>>

WeatherFault(kind, cities) ==
    /\ kind \in WeatherFaults /\ weatherFaults.count < MaxWeatherFaults
    /\ weatherFaults' = [count |-> weatherFaults.count + 1, cost |-> weatherFaults.cost \cup cities]

\* _publish_weather_for_city: without a forecast nothing is posted.
NextCity(n) ==
    LET r == weatherRun[n] IN
    /\ r.pc = "working" /\ r.city = {}
    /\ \E c \in r.cities :
           \/ /\ weatherRun' = [weatherRun EXCEPT ![n] =
                     [r EXCEPT !.cities = @ \ {c}, !.city = {c}, !.channels = ChannelsOf[c]]]
              /\ UNCHANGED weatherFaults
           \/ /\ weatherRun' = [weatherRun EXCEPT ![n] = [r EXCEPT !.cities = @ \ {c}, !.city = {c}]]
              /\ WeatherFault("forecast", {})
    /\ UNCHANGED <<marked, beatRan, buttons, postVars, calendarVars>>

PostWeather(n, channel) ==
    LET r == weatherRun[n] IN
    /\ r.pc = "working" /\ channel \in r.channels /\ call[n].pc = "none"
    /\ StartPost(n, r.by, channel, now, WeatherPost)
    /\ weatherRun' = [weatherRun EXCEPT ![n].channels = @ \ {channel}]
    /\ UNCHANGED <<marked, beatRan, weatherFaults, buttons, shown, postFaults, calendarVars>>

\* Sent or not: on to the next channel.
WeatherPosted(n) ==
    /\ weatherRun[n].pc = "working" /\ call[n].pc = "over"
    /\ call' = [call EXCEPT ![n] = NotPosting]
    /\ UNCHANGED <<marked, beatRan, weatherRun, weatherFaults, buttons, shown, posts, postFaults, calendarVars>>

\* The city is done whether or not anything was sent.
EndCity(n) ==
    LET r == weatherRun[n] IN
    /\ r.pc = "working" /\ r.city # {} /\ r.channels = {} /\ call[n].pc = "none"
    /\ weatherRun' = [weatherRun EXCEPT ![n] = [r EXCEPT !.city = {}, !.done = @ \cup r.city]]
    /\ UNCHANGED <<marked, beatRan, weatherFaults, buttons, postVars, calendarVars>>

\* One commit marks all cities of the run; the button marks none.
CommitRun(n) ==
    LET r == weatherRun[n] IN
    /\ r.pc = "working" /\ r.cities = {} /\ r.city = {}
    /\ marked' = [c \in WeatherCities |-> IF r.by = "beat" /\ c \in r.done THEN r.today ELSE marked[c]]
    /\ weatherRun' = [weatherRun EXCEPT ![n] = NoRun]
    /\ UNCHANGED <<beatRan, weatherFaults, buttons, postVars, calendarVars>>

\* An exception: no mark is committed.  Beat's task is not retried.
RunFails(n) ==
    LET r == weatherRun[n] IN
    /\ r.pc = "working" /\ call[n].pc = "none"
    /\ WeatherFault("task", Attempted(r))
    /\ weatherRun' = [weatherRun EXCEPT ![n] =
           IF r.by = "button" /\ r.attempt < NowRetries
           THEN [r EXCEPT !.pc = "queued", !.attempt = @ + 1, !.cities = @ \cup Attempted(r), !.city = {}, !.done = {}, !.channels = {}]
           ELSE NoRun]
    /\ UNCHANGED <<marked, beatRan, buttons, postVars, calendarVars>>

\* The worker dies: no mark is committed, and the message comes again.
RunLost(n) ==
    LET r == weatherRun[n] IN
    /\ r.pc = "working"
    /\ WeatherFault("lost", Attempted(r))
    /\ weatherRun' = [weatherRun EXCEPT ![n] =
           [NoRun EXCEPT !.pc = "queued", !.by = r.by, !.attempt = r.attempt, !.due = now + RedeliveredAfter,
                         !.cities = IF r.by = "button" THEN r.cities \cup Attempted(r) ELSE {}]]
    /\ call' = [call EXCEPT ![n] = NotPosting]
    /\ UNCHANGED <<marked, beatRan, buttons, shown, posts, postFaults, calendarVars>>

WeatherNext ==
    \/ BeatWeather
    \/ \E c \in WeatherCities : PressButton(c)
    \/ \E n \in WeatherSlots :
          \/ StartRun(n) \/ NextCity(n) \/ WeatherPosted(n) \/ EndCity(n) \/ CommitRun(n) \/ RunFails(n) \/ RunLost(n)
          \/ \E channel \in weatherRun[n].channels : PostWeather(n, channel)
===============================================================================
