------------------------------ MODULE Ingestion ------------------------------
(***************************************************************************)
(* Sources, the beat task that dispatches them, and the Celery task        *)
(* ingest_source with the pipeline it runs: fetch, relevance, dedup, store *)
(* and, after the commit, the publish tasks and the moderation cards.      *)
(*                                                                         *)
(* A run works in one transaction.  Other runs see its rows after the      *)
(* commit only, and its first INSERT also writes the source's row, whose   *)
(* lock it then holds until it commits.                                    *)
(***************************************************************************)
EXTENDS NewsTable

CONSTANTS
    Sources, Items,
    SourceOf, StoryOf,      \* of an item: whose feed it is in, what it is about
    TextOf,                 \* of an item: what the matcher finds in its text
    Undated,                \* the items without a publication time
    LinkedTo,               \* of a source: the cities it is bound to, none for a global one
    AutoPublish,            \* the sources that skip moderation
    Bucket,                 \* the entry for world news, or NoBucket
    NoBucket,
    RussianCities,
    Interval,               \* check_interval_seconds, in minutes
    MaxAge,                 \* pipeline.max_item_age_minutes
    MaxRetries,
    PanelWork,              \* what editors do: "source", "city", "check", "delete"
    Faults, MaxFaults,      \* "fetch", "item", "card", "task", "taskLate", "lost", "lostLate"
    MaxNow, MaxRuns, MaxOps \* bounds: minutes, messages, panel operations

\* Scores are in sixtieths: a keyword counts 20, an additional one 8, and the
\* city's name makes it 45; matching.min_score is 0.3.
MinScore == 18
Never == -1

Text == [keywords : [Cities -> 0..3], extra : [Cities -> 0..3],
         named : SUBSET Cities, vetoed : SUBSET Cities, region : SUBSET Cities,
         russia : BOOLEAN, world : BOOLEAN, elsewhere : BOOLEAN]

ASSUME IngestionAssumption ==
    /\ Sources # {} /\ SourceOf \in [Items -> Sources] /\ StoryOf \in [Items -> Stories]
    /\ TextOf \in [Items -> Text] /\ LinkedTo \in [Sources -> SUBSET Cities]
    /\ Undated \subseteq Items /\ AutoPublish \subseteq Sources
    /\ RussianCities \subseteq Cities
    /\ Bucket \in Cities \cup {NoBucket} /\ NoBucket \notin Cities
    /\ Interval \in Nat \ {0} /\ MaxAge \in Nat
    /\ MaxRetries \in Nat /\ MaxFaults \in Nat
    /\ MaxNow \in Nat /\ MaxRuns \in Nat /\ MaxOps \in Nat

VARIABLES
    now,            \* the minute
    born,           \* the feeds: when each item appeared in its source, or Never
    activeCities,   \* City.is_active
    source,         \* the committed rows of sources
    asked,          \* the sources this minute's beat has looked at
    sent,           \* how many ingest_source messages there have been
    run,            \* what became of each message
    pushed,         \* the ids publish_news was enqueued for
    faults,         \* how many there have been; the items whose card or task they cost (history)
    ops             \* how many panel operations there have been

ingestVars == <<now, born, activeCities, source, asked, sent, run, pushed, faults, ops>>

Runs == 1..MaxRuns
Slots == {"immediate", "queued"}
Idle == [pc |-> "none", source |-> CHOOSE s \in Sources : TRUE, attempt |-> 0, execution |-> 0, began |-> Never,
         linked |-> {}, usable |-> {}, ok |-> FALSE, todo |-> {}, held |-> {}, locked |-> FALSE,
         drafts |-> NoRows, known |-> {}, first |-> FALSE, cards |-> {}, calls |-> {}]
Message(s) == [Idle EXCEPT !.pc = "queued", !.source = s]

\* q: the sources there are, the minute it is, and how many of the MaxRuns
\* messages, MaxOps panel operations and MaxFaults faults are used up.
IngestInit(q) ==
    /\ now = q.now
    /\ born = [i \in Items |-> Never]
    /\ activeCities = Cities
    /\ source = [s \in Sources |-> [exists |-> s \in q.sources, active |-> TRUE, checked |-> Never, ok |-> FALSE]]
    /\ asked = {}
    /\ sent = q.messages
    /\ run = [n \in Runs |-> Idle]
    /\ pushed = {}
    /\ faults = [count |-> q.faults, dropped |-> {}]
    /\ ops = q.ops

-------------------------------------------------------------------------------
(* Relevance: which cities an item is for. *)

Score(text, c) ==
    LET byName == IF c \in text.named THEN 1 ELSE 0
        raw == 20 * (text.keywords[c] + byName) + 8 * text.extra[c]
        capped == IF raw > 60 THEN 60 ELSE raw
    IN  IF c \in text.vetoed THEN 0
        ELSE IF byName = 1 /\ capped < 45 THEN 45 ELSE capped

Matches(text, cities) == {c \in cities : Score(text, c) >= MinScore}

Best(text, cities) ==
    CHOOSE c \in cities : \A d \in cities : Score(text, d) <= Score(text, c)

MentionsRegion(text, linked) == linked \cap text.region # {}

Federal(text, linked) == text.world \/ (linked \cap RussianCities # {} /\ text.russia)

\* The slip: a city that is named takes the item to all of the source's cities.
TargetsOfAnyLinked(text, linked) ==
    IF Matches(text, linked) # {} \/ MentionsRegion(text, linked) \/ Federal(text, linked) THEN linked ELSE {}

\* A source bound to cities: the named ones, else all of them for regional and
\* federal items, unless these are about a city nobody monitors.
TargetsOfLinked(text, linked) ==
    IF Matches(text, linked) # {} THEN Matches(text, linked)
    ELSE IF (MentionsRegion(text, linked) \/ Federal(text, linked)) /\ ~text.elsewhere
    THEN linked ELSE {}

\* A global source: the best match, else the bucket for world news.
TargetsOfGlobal(text, cities, bucket) ==
    IF Matches(text, cities) # {} THEN {Best(text, cities)}
    ELSE IF text.world /\ ~(text.russia /\ text.elsewhere) THEN bucket ELSE {}

TargetsOf(r, i) ==
    IF LinkedTo[r.source] = {}
    THEN TargetsOfGlobal(TextOf[i], r.usable \ {Bucket}, {Bucket} \cap activeCities)
    ELSE TargetsOfLinked(TextOf[i], r.linked)

\* The age filter.  Items without a date are let through once the source has
\* been fetched successfully, as its row in the session says.
Fresh(i, ok) == IF i \in Undated THEN ok ELSE born[i] >= now - MaxAge

-------------------------------------------------------------------------------
(* Sources, their feeds and the clock. *)

\* A fault, which costs the items `ids` what the run still had to do for them.
Fault(kind, ids) ==
    /\ kind \in Faults
    /\ faults.count < MaxFaults
    /\ faults' = [count |-> faults.count + 1, dropped |-> faults.dropped \cup ids]

\* The slip: nothing is written to the row of the source before the commit.
SourceNeverHeld(s, n) == s \in Sources /\ n \in Runs \cup {0}

\* No other transaction holds the row of s.
SourceFree(s, n) == \A m \in Runs \ {n} : ~(run[m].locked /\ run[m].source = s)

Appear(i) ==
    /\ born[i] = Never /\ source[SourceOf[i]].exists
    /\ born' = [born EXCEPT ![i] = now]
    /\ UNCHANGED <<now, activeCities, source, asked, sent, run, pushed, faults, ops, news>>

Enqueue(s) ==
    /\ sent < MaxRuns
    /\ sent' = sent + 1
    /\ run' = [run EXCEPT ![sent + 1] = Message(s)]

IsDue(s) ==
    /\ source[s].exists /\ source[s].active
    /\ source[s].checked = Never \/ source[s].checked <= now - Interval

\* dispatch_due_sources: one message for each source that is due, whether or
\* not an earlier one is still being worked on.
DispatchDueSources(s) ==
    /\ s \notin asked /\ IsDue(s)
    /\ Enqueue(s)
    /\ asked' = asked \cup {s}
    /\ UNCHANGED <<now, born, activeCities, source, pushed, faults, ops, news>>

Tick ==
    /\ now < MaxNow
    /\ now' = now + 1
    /\ asked' = {}
    /\ UNCHANGED <<born, activeCities, source, sent, run, pushed, faults, ops, news>>

Operates(kind) ==
    /\ kind \in PanelWork
    /\ ops < MaxOps
    /\ ops' = ops + 1

\* PATCH /sources/{id}: is_active.
SwitchSource(s) ==
    /\ Operates("source")
    /\ source[s].exists /\ SourceFree(s, 0)
    /\ source' = [source EXCEPT ![s].active = ~@]
    /\ UNCHANGED <<now, born, activeCities, asked, sent, run, pushed, faults, news>>

\* PATCH /cities/{id}: is_active.
SwitchCity(c) ==
    /\ Operates("city")
    /\ activeCities' = IF c \in activeCities THEN activeCities \ {c} ELSE activeCities \cup {c}
    /\ UNCHANGED <<now, born, source, asked, sent, run, pushed, faults, news>>

CheckSourceNow(s) ==
    /\ Operates("check")
    /\ source[s].exists
    /\ Enqueue(s)
    /\ UNCHANGED <<now, born, activeCities, source, asked, pushed, faults, news>>

DeleteSource(s) ==
    /\ Operates("delete")
    /\ source[s].exists /\ SourceFree(s, 0)
    /\ source' = [source EXCEPT ![s].exists = FALSE]
    /\ UNCHANGED <<now, born, activeCities, asked, sent, run, pushed, faults, news>>

-------------------------------------------------------------------------------
(* A run of ingest_source. *)

Finished(r) == [Idle EXCEPT !.pc = "done", !.source = r.source]
Anew(r) == [Message(r.source) EXCEPT !.attempt = r.attempt, !.execution = r.execution + 1]
Again(r) == [Anew(r) EXCEPT !.attempt = r.attempt + 1]
RetryOrGiveUp(r) == IF r.attempt < MaxRetries THEN Again(r) ELSE Finished(r)

Become(n, r) == run' = [run EXCEPT ![n] = r]

SkipInactive(n) ==
    LET r == run[n] IN
    /\ r.pc = "queued"
    /\ ~(source[r.source].exists /\ source[r.source].active)
    /\ Become(n, Finished(r))
    /\ UNCHANGED <<now, born, activeCities, source, asked, sent, pushed, faults, ops, news>>

\* What a run that begins now has read: the cities of its source and, for the
\* history of it, the stories stored so far.
Begun(r, ok, items) ==
    [r EXCEPT !.pc = "working", !.began = now, !.ok = ok, !.todo = items,
              !.linked = LinkedTo[r.source] \cap activeCities, !.usable = activeCities,
              !.known = StoriesOf(news), !.first = ~source[r.source].ok]

\* process_source up to the age filter.  last_success_at is set before the
\* filter looks at it.
Fetch(n) ==
    LET r == run[n]
        feed == {i \in Items : SourceOf[i] = r.source /\ born[i] # Never} IN
    /\ r.pc = "queued"
    /\ source[r.source].exists /\ source[r.source].active
    /\ Become(n, Begun(r, TRUE, {i \in feed : Fresh(i, TRUE)}))
    /\ UNCHANGED <<now, born, activeCities, source, asked, sent, pushed, faults, ops, news>>

\* parser.fetch raises: last_checked_at, last_error and error_count are kept.
FetchFails(n) ==
    LET r == run[n] IN
    /\ r.pc = "queued"
    /\ source[r.source].exists /\ source[r.source].active
    /\ Fault("fetch", {})
    /\ Become(n, Begun(r, source[r.source].ok, {}))
    /\ UNCHANGED <<now, born, activeCities, source, asked, sent, pushed, ops, news>>

\* The slip: a new item is compared with those still waiting only.
IsDuplicateOfWaiting(r, i) ==
    \/ StoryOf[i] \in StoriesOf(r.drafts)
    \/ \E id \in DOMAIN news : news[id].story = StoryOf[i] /\ news[id].status \in {"processing", "pending"}

\* DedupService.check sees what is committed and what this run inserted.
IsDuplicate(r, i) == StoryOf[i] \in StoriesOf(news) \cup StoriesOf(r.drafts)

SkipItem(n, i) ==
    LET r == run[n] IN
    /\ r.pc = "working" /\ i \in r.todo
    /\ TargetsOf(r, i) = {} \/ IsDuplicate(r, i)
    /\ Become(n, [r EXCEPT !.todo = @ \ {i}])
    /\ UNCHANGED <<now, born, activeCities, source, asked, sent, pushed, faults, ops, news>>

IdOf(n, i) == <<n, run[n].execution, i>>
\* The slip: the status of a parsed item is kept for what is published by itself.
DraftAsParsed(r, i, cities, slot) ==
    [story |-> StoryOf[i], origin |-> "parser", cities |-> cities, card |-> FALSE,
     status |-> IF r.source \notin AutoPublish THEN "pending"
                ELSE IF slot = "immediate" THEN "parsed" ELSE "scheduled"]

Draft(r, i, cities, slot) ==
    [story |-> StoryOf[i], origin |-> "parser", cities |-> cities, card |-> FALSE,
     status |-> IF r.source \notin AutoPublish THEN "pending"
                ELSE IF slot = "immediate" THEN "approved" ELSE "scheduled"]

Stored(n, r, i, cities, slot) ==
    [r EXCEPT !.pc = "working", !.todo = @ \ {i}, !.held = {}, !.locked = TRUE,
              !.drafts = With(@, [id \in {IdOf(n, i)} |-> Draft(r, i, cities, slot)])]

\* created_ids and publish_now_ids: what is to be shown and pushed out.
Reported(r, id) ==
    [r EXCEPT !.cards = @ \cup {id}, !.calls = @ \cup {d \in {id} : r.drafts[d].status = "approved"}]

\* The item is new.  The first INSERT of a run has to wait for the source's row.
TakeItem(n, i) ==
    LET r == run[n] IN
    /\ r.pc = "working" /\ i \in r.todo
    /\ TargetsOf(r, i) # {} /\ ~IsDuplicate(r, i)
    /\ IF r.locked
       THEN \E slot \in Slots : Become(n, Reported(Stored(n, r, i, TargetsOf(r, i), slot), IdOf(n, i)))
       ELSE Become(n, [r EXCEPT !.pc = "inserting", !.held = {[item |-> i, cities |-> TargetsOf(r, i)]}])
    /\ UNCHANGED <<now, born, activeCities, source, asked, sent, pushed, faults, ops, news>>

InsertFirst(n) ==
    LET r == run[n] IN
    /\ r.pc = "inserting"
    /\ source[r.source].exists /\ SourceFree(r.source, n)
    /\ \E h \in r.held, slot \in Slots : Become(n, Reported(Stored(n, r, h.item, h.cities, slot), IdOf(n, h.item)))
    /\ UNCHANGED <<now, born, activeCities, source, asked, sent, pushed, faults, ops, news>>

\* An exception in an item is counted and the run goes on: the item is not
\* stored, or its row, approved already, is there but not reported, as what comes
\* after it, the search for a slot, has failed.
ItemFails(n, i) ==
    LET r == run[n] IN
    /\ r.pc = "working" /\ i \in r.todo
    /\ Fault("item", {})
    /\ Become(n, [r EXCEPT !.todo = @ \ {i}])
    /\ UNCHANGED <<now, born, activeCities, source, asked, sent, pushed, ops, news>>

SlotFails(n, id) ==
    LET r == run[n] IN
    /\ r.pc = "working" /\ id \in r.calls
    /\ Fault("item", {id})
    /\ Become(n, [r EXCEPT !.cards = @ \ {id}, !.calls = @ \ {id}])
    /\ UNCHANGED <<now, born, activeCities, source, asked, sent, pushed, ops, news>>

\* The end of process_source and the commit: the source's row and all items.
Commit(n) ==
    LET r == run[n] IN
    /\ r.pc = "working" /\ r.todo = {}
    /\ source[r.source].exists /\ SourceFree(r.source, n)
    /\ source' = [source EXCEPT ![r.source].checked = r.began, ![r.source].ok = r.ok]
    /\ news' = With(news, r.drafts)
    /\ Become(n, [r EXCEPT !.pc = "handing", !.locked = FALSE])
    /\ UNCHANGED <<now, born, activeCities, asked, sent, pushed, faults, ops>>

\* The source was deleted meanwhile: the UPDATE of its row finds nothing.
SourceVanished(n) ==
    LET r == run[n] IN
    /\ r.pc \in {"working", "inserting"} /\ ~source[r.source].exists
    /\ r.pc = "inserting" \/ r.todo = {}
    /\ Become(n, RetryOrGiveUp(r))
    /\ UNCHANGED <<now, born, activeCities, source, asked, sent, pushed, faults, ops, news>>

PushOut(n, id) ==
    LET r == run[n] IN
    /\ r.pc = "handing" /\ id \in r.calls
    /\ pushed' = pushed \cup {id}
    /\ Become(n, [r EXCEPT !.calls = @ \ {id}])
    /\ UNCHANGED <<now, born, activeCities, source, asked, sent, faults, ops, news>>

\* _notify_moderation: the card, if Telegram takes it, and the web push.
Notify(n, id) ==
    LET r == run[n] IN
    /\ r.pc = "handing" /\ r.calls = {} /\ id \in r.cards
    /\ Become(n, [r EXCEPT !.cards = @ \ {id}])
    /\ \/ news' = [news EXCEPT ![id].card = TRUE] /\ UNCHANGED faults
       \/ Fault("card", {id}) /\ UNCHANGED news
    /\ UNCHANGED <<now, born, activeCities, source, asked, sent, pushed, ops>>

\* The slip: cards only for what was not published at once.
FinishAfterCalls(n) ==
    /\ run[n].pc = "handing" /\ run[n].calls = {}
    /\ \A id \in run[n].cards : run[n].drafts[id].status = "approved"
    /\ Become(n, Finished(run[n]))
    /\ UNCHANGED <<now, born, activeCities, source, asked, sent, pushed, faults, ops, news>>

Finish(n) ==
    /\ run[n].pc = "handing" /\ run[n].calls = {} /\ run[n].cards = {}
    /\ Become(n, Finished(run[n]))
    /\ UNCHANGED <<now, born, activeCities, source, asked, sent, pushed, faults, ops, news>>

\* Something else raises, before the commit or after it: what is not committed
\* is undone, the whole task retried.
TaskFails(n) ==
    /\ \/ run[n].pc \in {"working", "inserting"} /\ Fault("task", {})
       \/ run[n].pc = "handing" /\ Fault("taskLate", run[n].cards \cup run[n].calls)
    /\ Become(n, RetryOrGiveUp(run[n]))
    /\ UNCHANGED <<now, born, activeCities, source, asked, sent, pushed, ops, news>>

\* The worker dies, before the commit or after it: the message is delivered
\* again (task_acks_late).
WorkerDies(n) ==
    /\ \/ run[n].pc \in {"working", "inserting"} /\ Fault("lost", {})
       \/ run[n].pc = "handing" /\ Fault("lostLate", run[n].cards \cup run[n].calls)
    /\ Become(n, Anew(run[n]))
    /\ UNCHANGED <<now, born, activeCities, source, asked, sent, pushed, ops, news>>

RunStep(n) ==
    \/ SkipInactive(n) \/ Fetch(n) \/ InsertFirst(n) \/ Commit(n) \/ SourceVanished(n) \/ Finish(n)
    \/ \E i \in Items : SkipItem(n, i) \/ TakeItem(n, i)
    \/ \E id \in run[n].calls : PushOut(n, id)
    \/ \E id \in run[n].cards : Notify(n, id)

IngestNext ==
    \/ \E n \in Runs : RunStep(n) \/ FetchFails(n) \/ TaskFails(n) \/ WorkerDies(n)
    \/ \E n \in Runs : (\E i \in Items : ItemFails(n, i)) \/ (\E id \in run[n].calls : SlotFails(n, id))
    \/ \E s \in Sources : DispatchDueSources(s) \/ SwitchSource(s) \/ CheckSourceNow(s) \/ DeleteSource(s)
    \/ \E c \in Cities : SwitchCity(c)
    \/ \E i \in Items : Appear(i)
    \/ Tick

IngestFairness == \A n \in Runs : WF_<<ingestVars, news>>(RunStep(n))
===============================================================================
