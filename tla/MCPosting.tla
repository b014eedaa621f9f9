------------------------------ MODULE MCPosting ------------------------------
(* Constants for TLC: two ads, two cities with three channels, and posts of   *)
(* every make. *)
EXTENDS Posting, TLC

CONSTANTS spaced, always, moscow, perm, m1, m2, p1, a1, a2, w1, w2

\* The slots of the tasks are interchangeable.
SlotSymmetry == Permutations(AdSlots) \cup Permutations(WeatherSlots)

Daily == [times |-> {}, weekdays |-> {}, parity |-> "any", from |-> 0, to |-> MaxNow]
MCScheduleOf == [a \in AdIds |-> IF a = spaced THEN [Daily EXCEPT !.times = {1}, !.weekdays = {1, 2}]
                                 ELSE [Daily EXCEPT !.parity = "odd", !.from = 1]]
MCChannelsOf == [c \in WeatherCities |-> IF c = moscow THEN {m1, m2} ELSE {p1}]
MCTargetOf == [c \in WeatherCities |-> IF c = moscow THEN 1 ELSE 2]
LateTargetOf == [c \in WeatherCities |-> DayMinutes - 1]

Said(n) == [k \in 1..n |-> Char]
Emoji == <<Open("tg-emoji", TRUE), Char, Close("tg-emoji")>>
Album == [NoPost EXCEPT !.media = <<"photo", "document", "video">>, !.text = Said(1), !.keys = TRUE]
Row(post) == [exists |-> TRUE, status |-> "scheduled", auto |-> TRUE, channel |-> TRUE, post |-> post, recorded |-> NoLabel]
MCAds == [a \in AdIds |-> Row(IF a = spaced THEN Album ELSE [NoPost EXCEPT !.text = Emoji])]

Start(entries, t, rows, af, aw, wf, b, pf) ==
    [beats |-> entries, now |-> t, ads |-> rows, adFaults |-> af, adWork |-> aw,
     weatherFaults |-> wf, buttons |-> b, postFaults |-> pf]

AdsWith(af, aw, pf) == Start({"ads"}, 0, MCAds, af, aw, MaxWeatherFaults, MaxButtons, pf)
Weather(wf, b, pf) == Start({"weather"}, 0, [a \in AdIds |-> NoAd], MaxAdFaults, MaxAdWork, wf, b, pf)

\* One ad, published by hand, with any post.
ByHand(post, faults) ==
    Start({}, MaxNow, [a \in AdIds |-> IF a = spaced THEN [Row(post) EXCEPT !.auto = FALSE] ELSE NoAd],
          MaxAdFaults, MaxAdWork - 1, MaxWeatherFaults, MaxButtons, faults)

Tags == {Open("b", TRUE), Close("b"), Open("a", TRUE), Open("a", FALSE), Close("a"), Open("p", TRUE), Close("p"), Open("br", TRUE), Char}
Upto(n, s) == UNION {[1..k -> s] : k \in 0..n}
EmojiTags == {Open("tg-emoji", TRUE), Close("tg-emoji"), Char}
MCTexts == Upto(4, Tags) \cup {s \o Emoji \o t : s, t \in Upto(1, Tags)}
    \cup {<<Open("tg-emoji", TRUE)>> \o s \o <<Close("tg-emoji")>> : s \in [1..3 -> EmojiTags]}
Media == Upto(3, {"photo", "document", "audio", "animation"})
MCPosts == [media : Media, text : {Said(1), Said(6)}, keys : BOOLEAN, place : BOOLEAN]

MCStarts ==
    {AdsWith(MaxAdFaults, MaxAdWork, 0), AdsWith(0, MaxAdWork, MaxPostFaults - 1), AdsWith(MaxAdFaults, 0, MaxPostFaults),
     Weather(0, MaxButtons, MaxPostFaults - 1), Weather(MaxWeatherFaults, 0, MaxPostFaults - 1), Weather(0, 0, MaxPostFaults)}
    \cup {ByHand([NoPost EXCEPT !.text = t], MaxPostFaults) : t \in MCTexts}
    \cup {ByHand(p, MaxPostFaults - 1) : p \in MCPosts}

\* For what the runs do not ask of every post.
CutStarts == {ByHand([NoPost EXCEPT !.media = <<"photo">>, !.text = t], MaxPostFaults) : t \in Upto(4, Tags)}
NestedStarts ==
    {ByHand([NoPost EXCEPT !.text = <<Open("tg-emoji", TRUE)>> \o Emoji \o <<Close("tg-emoji")>>], MaxPostFaults)}
NoteStarts == {ByHand([NoPost EXCEPT !.media = <<"video_note">>, !.text = Said(1)], MaxPostFaults)}
AlbumStarts == {ByHand(Album, MaxPostFaults - 1)}
AdsOnly == {AdsWith(0, 0, 0)}
WeatherOnly == {Weather(0, 0, 0)}
===============================================================================
