-------------------------------- MODULE Posting --------------------------------
(***************************************************************************)
(* What the beat tasks post beside the news: ads and the weather, both by  *)
(* way of TelegramPublisher.                                               *)
(***************************************************************************)
EXTENDS Ads, CityWeather

CONSTANTS
    Starts,         \* where a behaviour may start: see AdsInit, WeatherInit and PostInit
    Punctual,       \* whether a task that is due ends within its minute
    MaxNow          \* bound: the last minute of beat

MediaTypes == {"photo", "video", "document", "audio", "animation", "voice", "video_note"}
Posts == [media : Seq(MediaTypes), text : Texts, keys : BOOLEAN, place : BOOLEAN]
AdRows == [exists : BOOLEAN, status : AdStatuses, auto : BOOLEAN, channel : BOOLEAN, post : Posts, recorded : {NoLabel}]

\* A worker has one task at a time, and an ad is not a channel.
ASSUME PostingAssumption ==
    /\ Punctual \in BOOLEAN /\ MaxNow \in Nat
    /\ AdSlots \cap WeatherSlots = {}
    /\ \A a \in AdIds, c \in WeatherCities : a \notin ChannelsOf[c]
    /\ \A q \in Starts :
          /\ q.now \in Nat /\ q.beats \subseteq {"ads", "weather"} /\ q.ads \in [AdIds -> AdRows]
          /\ q.adFaults \in 0..MaxAdFaults /\ q.weatherFaults \in 0..MaxWeatherFaults /\ q.postFaults \in 0..MaxPostFaults

postingVars == <<adVars, weatherVars, postVars, calendarVars>>

Init ==
    \E q \in Starts :
        /\ now = q.now /\ beats = q.beats
        /\ AdsInit(q) /\ WeatherInit(q) /\ PostInit(q)

Waits(t) == t.pc = "none" \/ (t.pc = "queued" /\ t.due > now)
Beaten == now > MaxNow \/ (("ads" \in beats => asked = AdIds) /\ ("weather" \in beats => beatRan))
Idle == (\A n \in AdSlots : Waits(adTask[n])) /\ (\A n \in WeatherSlots : Waits(weatherRun[n]))
Pending == (\E n \in AdSlots : adTask[n].pc = "queued") \/ (\E n \in WeatherSlots : weatherRun[n].pc = "queued")

Tick ==
    /\ now < MaxNow \/ (Pending /\ Idle)
    /\ Punctual => Beaten /\ Idle
    /\ now' = now + 1
    /\ asked' = {} /\ beatRan' = FALSE
    /\ UNCHANGED <<beats, ad, adTask, adFaults, adWork, disturbed, marked, weatherRun, weatherFaults, buttons, postVars>>

Next ==
    \/ Tick
    \/ AdsNext /\ (now > MaxNow => asked' = asked) /\ UNCHANGED weatherVars
    \/ WeatherNext /\ (now > MaxNow => beatRan' = beatRan) /\ UNCHANGED adVars
    \/ \E c \in Callers : PostStep(c) /\ UNCHANGED <<adVars, weatherVars, calendarVars>>

Spec == Init /\ [][Next]_postingVars

-------------------------------------------------------------------------------
LabelOK(l) == l.by \in {"nobody", "beat", "hand", "button"} /\ l.serial \in 0..posts

\* Every variable keeps its type; what is posting is what a task or a request
\* of that slot has begun, and what is shown belongs to a post that was started.
TypeOK ==
    /\ now \in Nat /\ beats \subseteq {"ads", "weather"} /\ asked \subseteq AdIds /\ beatRan \in BOOLEAN
    /\ \A a \in AdIds : ad[a].status \in AdStatuses /\ ad[a].auto \in BOOLEAN /\ LabelOK(ad[a].recorded)
    /\ \A n \in AdSlots :
          /\ adTask[n].pc \in {"none", "queued", "posting"} /\ adTask[n].attempt \in 0..AdRetries
          /\ adTask[n].pc = "posting" <=> call[n].pc # "none"
    /\ \A n \in WeatherSlots :
          /\ weatherRun[n].pc \in {"none", "queued", "working"} /\ weatherRun[n].attempt \in 0..NowRetries
          /\ weatherRun[n].channels \subseteq UNION {ChannelsOf[c] : c \in weatherRun[n].city}
          /\ call[n].pc # "none" => weatherRun[n].pc = "working" /\ weatherRun[n].city # {}
    /\ \A c \in Callers :
          /\ call[c].pc \in {"none", "sending", "undoing", "over"} /\ call[c].attempt \in 1..2
          /\ call[c].made \in 0..Len(RequestsOf(call[c])) /\ LabelOK(call[c].label)
          /\ call[c].pc = "sending" => call[c].made < Len(RequestsOf(call[c]))
    /\ \A m \in shown : LabelOK(m[1]) /\ m[1].serial > 0
    /\ postFaults \in 0..MaxPostFaults /\ adFaults \in 0..MaxAdFaults /\ weatherFaults.count \in 0..MaxWeatherFaults

-------------------------------------------------------------------------------
(* Posts. *)

ShownOf(r) == {m \in shown : m[1] = r.label}
MessageOf(r, m) == RequestsOf(r)[m[3]].messages[m[4]]
Longest(post) == IF post.media = <<>> THEN TextMax ELSE CaptionMax
Kinds == {{"photo", "video"}, {"document"}, {"audio"}}

\* The channel has every attachment once, in albums Telegram allows, the text in
\* full and its beginning as the caption, the buttons and the place.
IsWhole(r) ==
    LET post == r.post
        all == ShownOf(r)
        Item(i) == {m \in all : MessageOf(r, m).item = i}
        text == Cut(r.text, TextMax) IN
    /\ \A i \in DOMAIN post.media : Cardinality(Item(i)) = 1
    /\ \A m \in all :
          LET album == RequestsOf(r)[m[3]].messages IN
          Len(album) > 1 => /\ Len(album) <= AlbumMax
                            /\ \E k \in Kinds : \A j \in DOMAIN album : post.media[album[j].item] \in k
    /\ \E m \in all : MessageOf(r, m).text = text
    /\ \A m \in all : MessageOf(r, m).text \in {<<>>, text, Cut(text, CaptionMax)}
    /\ (\E m \in all : MessageOf(r, m).keys) <=> post.keys
    /\ Cardinality(Item(PlaceItem)) = IF post.place THEN 1 ELSE 0

\* A post is in the channel as a whole, once, or nothing of it is, whatever part
\* of it Telegram refuses, unless an answer or a deletion fails, or an album's
\* buttons do.
WholeOrGone ==
    \A c \in Callers : call[c].pc = "over" /\ ~call[c].stray =>
        IF call[c].ok THEN IsWhole(call[c]) ELSE ShownOf(call[c]) = {}

\* Telegram can parse every post, however tangled its markup is, and takes it in
\* the end without custom emoji, if it says anything, if markup is not cut where
\* it is too long, and if no emoji is within an emoji.
Unsendable(post, sent) ==
    \/ Chars(post.text) = 0
    \/ Len(sent) > Longest(post) /\ Chars(sent) < Len(sent)
    \/ EmojiNested(Sanitize(post.text))

FailsForCause ==
    \A c \in Callers : call[c].pc = "over" /\ ~call[c].ok =>
        call[c].why \in {"refuse", "answer"} \/ Unsendable(call[c].post, call[c].text)

\* The same, with captions cut to Telegram's limit.
NeverRefused ==
    \A c \in Callers : call[c].pc = "over" /\ ~call[c].ok => call[c].why \in {"refuse", "answer"} \/ Chars(call[c].post.text) = 0

\* What could not be posted is gone, whatever was refused.
NothingLeftBehind ==
    \A c \in Callers : call[c].pc = "over" /\ ~call[c].ok => ShownOf(call[c]) = {}

-------------------------------------------------------------------------------
(* Ads and the weather. *)

PostsAbout(x, by) == {m[1] : m \in {s \in shown : s[1].about = {x} /\ s[1].by = by}}

Due(a) == {t \in 0..MaxNow : Matches(ScheduleOf[a], t)}
Spaced(a) == \A t, u \in Due(a) : t < u => u - t > AdRetries

\* The minutes in which what beat enqueued at t is tried.
Turn(t) == t..(t + AdRetries)

\* Beat posts an ad in the turns of the minutes it is due, and once in a turn.
OnceATurn(a) ==
    \A l, k \in PostsAbout(a, "beat") :
        /\ \E t \in Due(a) : l.at \in Turn(t)
        /\ \A t \in Due(a) : l.at \in Turn(t) /\ k.at \in Turn(t) => l = k

\* An ad whose schedule leaves room for the retries is posted at most once for
\* each minute it is due, and soon after it, although failed posts are retried
\* and beat looks at it again and again, unless an editor, a lost worker, commit or
\* answer interferes.
SpacedAdOnce == \A a \in AdIds \ (disturbed.edited \cup disturbed.lost) : Spaced(a) => OnceATurn(a)

\* What beat enqueues is posted and recorded: until it is, a task of it is under
\* way, if fewer things fail than there are attempts.
AdComes ==
    \A a \in AdIds :
        (/\ \E t \in 0..MaxNow : t < now /\ Matches(ScheduleOf[a], t)
         /\ "ads" \in beats /\ Publishable(a) /\ a \notin disturbed.edited)
            => ad[a].recorded # NoLabel \/ \E n \in AdSlots : adTask[n].pc # "none" /\ adTask[n].ad = a

\* A channel gets one weather post a day, in the window, however often beat's
\* task runs in it and whatever Telegram refuses or swallows, unless a run that
\* had begun to post for the city fails or is lost, or two runs overlap.
WeatherOnce ==
    \A c \in WeatherCities \ weatherFaults.cost : \A channel \in ChannelsOf[c] :
        \A l, k \in PostsAbout(channel, "beat") :
            /\ MinuteOf(Local(l.at)) \in TargetOf[c]..(TargetOf[c] + Window)
            /\ DayOf(Local(l.at)) = DayOf(Local(k.at)) => l = k

\* Once the window of a day is over every city has had its turn on that day, if
\* fewer runs fail than the window has minutes.
WindowEnd(c, day) == day * DayMinutes + TargetOf[c] + Window

WeatherComes ==
    "weather" \in beats =>
        \A c \in WeatherCities, day \in 0..Today :
            WindowEnd(c, day) < Local(now) /\ WindowEnd(c, day) <= Local(MaxNow) => marked[c] >= day

\* The docstrings and comments take these for granted; TLC refutes them.
\* "Recurring auto-publication schedule": an ad is due on every day it matches.
AdRecurs ==
    \A a \in AdIds :
        (now > MaxNow \/ ~Pending) /\ MinuteOf(now) = DayMinutes - 1 /\ Idle =>
            \A t \in 0..now : Matches(ScheduleOf[a], t) =>
                \E l \in PostsAbout(a, "beat") : DayOf(l.at) = DayOf(t)

\* The row says that the last attempt failed.
FailureIsRecorded ==
    [][\A n \in AdSlots :
          (adTask[n].pc = "posting" /\ adTask'[n].pc = "none" /\ ~call[n].ok /\ call[n].pc = "over" /\ ad[adTask[n].ad].exists)
              => ad'[adTask[n].ad].status = "failed"]_postingVars

\* The same whatever is lost.
AdOnce == \A a \in AdIds \ disturbed.edited : Spaced(a) => OnceATurn(a)

\* "guarded by a once-per-day marker so the window never double-posts".
NeverTwiceADay ==
    \A c \in WeatherCities : \A channel \in ChannelsOf[c] :
        \A l, k \in PostsAbout(channel, "beat") : DayOf(Local(l.at)) = DayOf(Local(k.at)) => l = k

\* An ad somebody switched off is not posted by beat.
SwitchedOffStaysOff ==
    [][\A n \in AdSlots : (adTask[n].pc = "queued" /\ adTask'[n].pc = "posting" /\ adTask[n].by = "beat")
          => ad[adTask[n].ad].auto]_postingVars
===============================================================================
