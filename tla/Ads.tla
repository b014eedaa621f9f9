--------------------------------- MODULE Ads ---------------------------------
(***************************************************************************)
(* Advertisements: the beat task that looks for ads whose schedule matches *)
(* the minute, the task that publishes one, and what editors do with them. *)
(***************************************************************************)
EXTENDS Calendar, TelegramPost

CONSTANTS
    AdIds, AdSlots,         \* AdSlots: tasks and requests in progress at once
    ScheduleOf,
    AdRetries,              \* max_retries of publish_ad_task
    VisibilityTimeout,      \* of the broker, in minutes
    AdWork,                 \* what editors do: "hand", "auto", "status", "delete"
    AdFaults, MaxAdFaults,  \* "lost", "commit"
    MaxAdWork               \* bounds

\* The parity of a day is "any", "even" or "odd"; empty `times` and `weekdays`
\* are any; `from` and `to` are days.
Schedule == [times : SUBSET (0..(DayMinutes - 1)), weekdays : SUBSET (1..7),
             parity : {"any", "even", "odd"}, from : Nat, to : Nat]

ASSUME AdsAssumption ==
    /\ ScheduleOf \in [AdIds -> Schedule] /\ AdSlots \subseteq Callers
    /\ AdRetries \in Nat /\ VisibilityTimeout \in Nat
    /\ MaxAdFaults \in Nat /\ MaxAdWork \in Nat

VARIABLES
    ad,         \* the committed rows of ads
    asked,      \* the ads this minute's beat has looked at
    adTask,     \* of a slot: its task, or the request of an editor
    adFaults,   \* how many there have been
    adWork,     \* how many operations of editors there have been
    disturbed   \* the ads an editor touched, and those that lost a worker, a commit or an answer (history)

adVars == <<ad, asked, adTask, adFaults, adWork, disturbed>>

AdStatuses == {"draft", "scheduled", "published", "archived", "failed"}
NoAd == [exists |-> FALSE, status |-> "draft", auto |-> FALSE, channel |-> FALSE, post |-> NoPost, recorded |-> NoLabel]
NoTask == [pc |-> "none", seen |-> "draft", ad |-> CHOOSE a \in AdIds : TRUE, attempt |-> 0, due |-> 0, by |-> "beat"]

\* q: the rows there are, and how many of the operations and faults are used up.
AdsInit(q) ==
    /\ ad = q.ads
    /\ asked = {}
    /\ adTask = [n \in AdSlots |-> NoTask]
    /\ adFaults = q.adFaults
    /\ adWork = q.adWork
    /\ disturbed = [edited |-> {}, lost |-> {}]

-------------------------------------------------------------------------------
(* publish_scheduled_ads. *)

Matches(s, t) ==
    /\ s.times = {} \/ MinuteOf(t) \in s.times
    /\ s.weekdays = {} \/ WeekdayOf(t) \in s.weekdays
    /\ s.parity = "even" => DayOf(t) % 2 = 0
    /\ s.parity = "odd" => DayOf(t) % 2 = 1
    /\ DayOf(t) \in s.from..s.to

Selected(a) == ad[a].exists /\ ad[a].auto /\ ad[a].status \in {"draft", "scheduled"}

\* One message for each ad that matches the minute.
BeatAd(a) ==
    /\ "ads" \in beats /\ a \notin asked
    /\ asked' = asked \cup {a}
    /\ IF Selected(a) /\ Matches(ScheduleOf[a], now)
       THEN \E n \in AdSlots :
                /\ adTask[n].pc = "none"
                /\ adTask' = [adTask EXCEPT ![n] = [NoTask EXCEPT !.pc = "queued", !.ad = a, !.due = now]]
       ELSE UNCHANGED adTask
    /\ UNCHANGED <<ad, adFaults, adWork, disturbed, postVars, calendarVars>>

-------------------------------------------------------------------------------
(* publish_ad_task, and POST /ads/{id}/publish, which does the same at once. *)

AdFault(kind) ==
    /\ kind \in AdFaults /\ adFaults < MaxAdFaults
    /\ adFaults' = adFaults + 1

\* The slip: the last of the retries is not made.
AfterFailureOneLess(t) ==
    IF t.by = "beat" /\ t.attempt + 1 < AdRetries
    THEN [t EXCEPT !.pc = "queued", !.attempt = @ + 1, !.due = now + 1]
    ELSE NoTask

\* The slip: one retry too many.
AfterFailureOneMore(t) ==
    IF t.by = "beat" /\ t.attempt <= AdRetries
    THEN [t EXCEPT !.pc = "queued", !.attempt = @ + 1, !.due = now + 1]
    ELSE NoTask

\* The exception rolls everything back; the task is retried after a minute.
AfterFailure(t) ==
    IF t.by = "beat" /\ t.attempt < AdRetries
    THEN [t EXCEPT !.pc = "queued", !.attempt = @ + 1, !.due = now + 1]
    ELSE NoTask

Loses(a, something) == disturbed' = [disturbed EXCEPT !.lost = IF something THEN @ \cup {a} ELSE @]
Publishable(a) == ad[a].exists /\ ad[a].channel

\* Neither the status nor auto_publish is looked at again.
StartAd(n) ==
    LET t == adTask[n] IN
    /\ t.pc = "queued" /\ t.due <= now
    /\ Publishable(t.ad)
    /\ adTask' = [adTask EXCEPT ![n].pc = "posting", ![n].seen = ad[t.ad].status]
    /\ StartPost(n, t.by, t.ad, now, ad[t.ad].post)
    /\ UNCHANGED <<ad, asked, adFaults, adWork, disturbed, shown, postFaults, calendarVars>>

\* NotFoundError, or there is no channel.
AdUnpublishable(n) ==
    LET t == adTask[n] IN
    /\ t.pc = "queued" /\ t.due <= now
    /\ ~Publishable(t.ad)
    /\ adTask' = [adTask EXCEPT ![n] = AfterFailure(t)]
    /\ UNCHANGED <<ad, asked, adFaults, adWork, disturbed, postVars, calendarVars>>

\* The status is written if it differs from the one that was read.
AfterSuccess(row, seen, label) ==
    [row EXCEPT !.recorded = label, !.status = IF seen = "published" THEN @ ELSE "published"]

\* The post is out; the status, the time and the message ids are committed.
AdPublished(n) ==
    LET t == adTask[n] IN
    /\ t.pc = "posting" /\ call[n].pc = "over" /\ call[n].ok
    /\ ad[t.ad].exists
    /\ ad' = [ad EXCEPT ![t.ad] = AfterSuccess(@, t.seen, call[n].label)]
    /\ adTask' = [adTask EXCEPT ![n] = NoTask]
    /\ call' = [call EXCEPT ![n] = NotPosting]
    /\ Loses(t.ad, call[n].stray)
    /\ UNCHANGED <<asked, adFaults, adWork, shown, posts, postFaults, calendarVars>>

\* The post is not out, or the row is gone, or the commit fails.
AdNotPublished(n) ==
    LET t == adTask[n] IN
    /\ t.pc = "posting" /\ call[n].pc = "over"
    /\ \/ call[n].ok /\ ad[t.ad].exists /\ AdFault("commit")
       \/ ~(call[n].ok /\ ad[t.ad].exists) /\ UNCHANGED adFaults
    /\ adTask' = [adTask EXCEPT ![n] = AfterFailure(t)]
    /\ call' = [call EXCEPT ![n] = NotPosting]
    /\ Loses(t.ad, call[n].ok \/ call[n].stray)
    /\ UNCHANGED <<ad, asked, adWork, shown, posts, postFaults, calendarVars>>

\* The process dies.  The message of a task is delivered again much later.
AdWorkerDies(n) ==
    LET t == adTask[n] IN
    /\ t.pc = "posting" /\ AdFault("lost")
    /\ adTask' = [adTask EXCEPT ![n] = IF t.by = "beat" THEN [t EXCEPT !.pc = "queued", !.due = now + VisibilityTimeout]
                                       ELSE NoTask]
    /\ call' = [call EXCEPT ![n] = NotPosting]
    /\ Loses(t.ad, TRUE)
    /\ UNCHANGED <<ad, asked, adWork, shown, posts, postFaults, calendarVars>>

-------------------------------------------------------------------------------
(* Editors. *)

EditorWorks(kind, a) ==
    /\ kind \in AdWork /\ adWork < MaxAdWork
    /\ ad[a].exists
    /\ adWork' = adWork + 1
    /\ disturbed' = [disturbed EXCEPT !.edited = @ \cup {a}]

PublishByHand(a) ==
    /\ EditorWorks("hand", a)
    /\ \E n \in AdSlots :
           /\ adTask[n].pc = "none"
           /\ adTask' = [adTask EXCEPT ![n] = [NoTask EXCEPT !.pc = "queued", !.ad = a, !.due = now, !.by = "hand"]]
    /\ UNCHANGED <<ad, asked, adFaults, postVars, calendarVars>>

\* PATCH /ads/{id}: auto_publish, or any status.
SetAuto(a) ==
    /\ EditorWorks("auto", a)
    /\ ad' = [ad EXCEPT ![a].auto = ~@]
    /\ UNCHANGED <<asked, adTask, adFaults, postVars, calendarVars>>

SetStatus(a, status) ==
    /\ EditorWorks("status", a)
    /\ status # ad[a].status
    /\ ad' = [ad EXCEPT ![a].status = status]
    /\ UNCHANGED <<asked, adTask, adFaults, postVars, calendarVars>>

DeleteAd(a) ==
    /\ EditorWorks("delete", a)
    /\ ad' = [ad EXCEPT ![a].exists = FALSE]
    /\ UNCHANGED <<asked, adTask, adFaults, postVars, calendarVars>>

AdsNext ==
    \/ \E a \in AdIds : BeatAd(a) \/ PublishByHand(a) \/ SetAuto(a) \/ DeleteAd(a)
    \/ \E a \in AdIds, status \in AdStatuses : SetStatus(a, status)
    \/ \E n \in AdSlots : StartAd(n) \/ AdUnpublishable(n) \/ AdPublished(n) \/ AdNotPublished(n) \/ AdWorkerDies(n)
===============================================================================
