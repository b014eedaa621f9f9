------------------------- MODULE NewsPublication -------------------------
(***************************************************************************)
(* The life of one news item from moderation to its posts in the Telegram  *)
(* channels.  Four kinds of actor share the row of the item in the table   *)
(* `news`: the sessions of moderators (web panel: backend/app/api/news.py, *)
(* bot: telegram_bot/handlers/moderation.py), the Celery tasks             *)
(* `publish_news`, the beat task `publish_scheduled_news`, and Telegram.   *)
(*                                                                         *)
(* A database transaction that takes the row lock only in its last         *)
(* statement before the commit is one action, for nobody sees what it has  *)
(* not committed.  `publish_news` holds the lock while it sends, so its    *)
(* transaction is several actions; a panel request reads the row before it *)
(* waits for the lock, so its read and its commit are two actions.         *)
(*                                                                         *)
(* A few helpers are preceded by a slip, an operator no action uses: the   *)
(* helper as it would read with a plausible mistake in it (LockIgnored,    *)
(* AllTargets ...), to see which property notices.                         *)
(***************************************************************************)
EXTENDS Naturals

CONSTANTS
    Cities,      \* the cities the item may target
    Chats,       \* the chat ids of the active channels
    CityOf,      \* CityOf[c]: the city of channel c
    Primary,     \* news.city_id
    HeldChats,   \* the channels whose publish_mode is manual or draft
    AutoPublish, \* source.auto_publish: the item skipped moderation
    Sessions,    \* the sessions moderators work in
    Panel,       \* those of them in the web panel; the others are in the bot
    View,        \* View[s]: the cities the moderator of session s may see
    Scope,       \* Scope[s]: those of them the moderator may decide
    May,         \* May[s]: the operations session s performs
    Tasks,       \* the places for publish_news messages in the broker (bound)
    MaxRetries,  \* max_retries of publish_news
    MaxNow,      \* the last instant of the clock (bound)
    MaxOps,      \* how many operations the moderators start in all (bound)
    Faults,      \* the kinds of fault that may happen
    MaxFaults    \* how many faults happen in all (bound)

Operation == {"approve", "approveOnly", "now", "publish", "schedule", "reject",
              "unpublish", "delete", "bulkDelete", "edit"}
FaultKind == {"send", "answer", "abort", "workerLost", "redeliver", "lockExpiry",
              "telegramDelete", "queue", "apiLost"}

ASSUME ConstantsAssumption ==
    /\ CityOf \in [Chats -> Cities]
    /\ Primary \in Cities
    /\ HeldChats \subseteq Chats
    /\ AutoPublish \in BOOLEAN
    /\ Panel \subseteq Sessions
    /\ View \in [Sessions -> SUBSET Cities]
    /\ Scope \in [Sessions -> SUBSET Cities]
    /\ \A s \in Sessions : Scope[s] \subseteq View[s]
    /\ May \in [Sessions -> SUBSET Operation]
    /\ {MaxRetries, MaxNow, MaxOps, MaxFaults} \subseteq Nat
    /\ Faults \subseteq FaultKind

VARIABLES
    \* the row of the item
    exists,      \* it has not been deleted
    status,      \* news.status
    targets,     \* news.target_cities
    approved,    \* news.approved_city_ids
    ids,         \* news.published_message_ids: 0 where a chat has no entry
    slot,        \* news.scheduled_at: 0 for NULL
    urgent,      \* news.publish_immediately
    \* Telegram
    live,        \* live[c]: the messages of the item channel c shows
    sent,        \* sent[c]: how many were ever sent there; the last one's id
    \* the broker, the workers and Redis
    tpc, tcities, ttries, todo, posted, redisLock,
    \* the moderators' sessions
    spc, view, scities,
    \* the clock, the bounds' counters and a history variable
    now, ops, faults,
    granted      \* the cities some moderator who may decide them has approved

rowVars  == <<exists, status, targets, approved, ids, slot, urgent>>
chatVars == <<live, sent>>
taskVars == <<tpc, tcities, ttries, todo, posted>>
sessVars == <<spc, view, scities>>
vars     == <<rowVars, chatVars, taskVars, redisLock, sessVars,
              now, ops, faults, granted>>

-----------------------------------------------------------------------------
Status == {"pending", "approved", "scheduled", "published", "withdrawn",
           "rejected", "failed"}

\* Where an execution of publish_news is.  "free": no message in this place;
\* "locked": it set the Redis lock; "sending": it holds the row lock;
\* "done": it committed; "failed": publish() raised and was rolled back.
TaskPc == {"free", "queued", "locked", "sending", "done", "failed"}

\* Where a session is.  The name of an operation: the handler has read the row;
\* "unpublishing", "deleting": it has asked Telegram to remove the messages;
\* "dispatch": it has committed and is about to enqueue publish_news.
SessionPc == {"idle", "approve", "approveOnly", "publish", "schedule", "reject", "edit",
              "unpublish", "delete", "unpublishing", "deleting", "dispatch"}

Row == [status |-> status, approved |-> approved, ids |-> ids, slot |-> slot,
        urgent |-> urgent]
Rows == [status : Status, approved : SUBSET Cities, ids : [Chats -> Nat],
         slot : 0..MaxNow, urgent : BOOLEAN]
NoMessages == [c \in Chats |-> 0]
NoRow == [status |-> "pending", approved |-> {}, ids |-> NoMessages, slot |-> 0,
          urgent |-> FALSE]

TypeOK ==
    /\ exists \in BOOLEAN
    /\ status \in Status
    /\ targets \in SUBSET Cities
    /\ approved \in SUBSET Cities
    /\ ids \in [Chats -> Nat]
    /\ slot \in 0..MaxNow
    /\ urgent \in BOOLEAN
    /\ live \in [Chats -> SUBSET (Nat \ {0})]
    /\ sent \in [Chats -> Nat]
    /\ tpc \in [Tasks -> TaskPc]
    /\ tcities \in [Tasks -> SUBSET Cities]
    /\ ttries \in [Tasks -> 0..MaxRetries]
    /\ todo \in [Tasks -> SUBSET Chats]
    /\ posted \in [Tasks -> [Chats -> Nat]]
    /\ redisLock \in BOOLEAN
    /\ spc \in [Sessions -> SessionPc]
    /\ view \in [Sessions -> Rows]
    /\ scities \in [Sessions -> SUBSET Cities]
    /\ now \in 0..MaxNow
    /\ ops \in 0..MaxOps
    /\ faults \in 0..MaxFaults
    /\ granted \in SUBSET Cities

\* An item as ingest_source has committed it: up for moderation, ...
ForModeration ==
    /\ status = "pending"
    /\ approved = {}
    /\ slot = 0
    /\ tpc = [t \in Tasks |-> "free"]
    /\ granted = {}

\* ... or from a source whose items are published unseen, in a task or in the queue.
SkipsModeration ==
    /\ \/ /\ status = "approved"
          /\ approved = {}
          /\ slot = 0
          /\ \E t \in Tasks : tpc = [u \in Tasks |-> IF u = t THEN "queued" ELSE "free"]
       \/ /\ status = "scheduled"
          /\ approved = Cities
          /\ slot \in 1..MaxNow
          /\ tpc = [t \in Tasks |-> "free"]
    /\ granted = Cities

Init ==
    /\ IF AutoPublish THEN SkipsModeration ELSE ForModeration
    /\ exists = TRUE
    /\ targets = Cities
    /\ ids = NoMessages
    /\ urgent = FALSE
    /\ live = [c \in Chats |-> {}]
    /\ sent = [c \in Chats |-> 0]
    /\ tcities = [t \in Tasks |-> {}]
    /\ ttries = [t \in Tasks |-> 0]
    /\ todo = [t \in Tasks |-> {}]
    /\ posted = [t \in Tasks |-> NoMessages]
    /\ redisLock = FALSE
    /\ spc = [s \in Sessions |-> "idle"]
    /\ view = [s \in Sessions |-> NoRow]
    /\ scities = [s \in Sessions |-> {}]
    /\ now = 0
    /\ ops = 0
    /\ faults = 0

-----------------------------------------------------------------------------
ChannelsOf(C) == {c \in Chats : CityOf[c] \in C}
Recorded(m) == {c \in Chats : m[c] # 0}

\* No execution of publish() holds the row: the row lock can be had at once.
RowFree == \A t \in Tasks : tpc[t] # "sending"

\* The ORM writes an attribute only if it differs from what the session loaded.
Written(seen, new, current) == IF new = seen THEN current ELSE new

Fault(kind) ==
    /\ kind \in Faults
    /\ faults < MaxFaults
    /\ faults' = faults + 1

\* publish_news.delay(id, C).  The empty set stands for None.
Enqueue(t, C) ==
    /\ tpc[t] = "free"
    /\ tpc' = [tpc EXCEPT ![t] = "queued"]
    /\ tcities' = [tcities EXCEPT ![t] = C]
    /\ ttries' = [ttries EXCEPT ![t] = 0]
    /\ UNCHANGED <<todo, posted>>

-----------------------------------------------------------------------------
(* One execution of publish_news by a worker. *)

\* SET lock:publish_news:<id> NX, and the DELETE in the finally block.
LockIgnored == TRUE
LockFree == ~redisLock
KeepsLock == UNCHANGED redisLock
ReleasesLock == redisLock' = FALSE

\* SET ... NX succeeds.
AcquireLock(t) ==
    /\ tpc[t] = "queued"
    /\ LockFree
    /\ redisLock' = TRUE
    /\ tpc' = [tpc EXCEPT ![t] = "locked"]
    /\ UNCHANGED <<rowVars, chatVars, tcities, ttries, todo, posted, sessVars,
                   now, ops, faults, granted>>

\* It fails: the task ends as "locked_skipped" and its message is acknowledged.
SkipLocked(t) ==
    /\ tpc[t] = "queued"
    /\ redisLock
    /\ tpc' = [tpc EXCEPT ![t] = "free"]
    /\ tcities' = [tcities EXCEPT ![t] = {}]
    /\ ttries' = [ttries EXCEPT ![t] = 0]
    /\ UNCHANGED <<rowVars, chatVars, todo, posted, redisLock, sessVars,
                   now, ops, faults, granted>>

AllTargets(t) == targets
PrimaryOnly(t) == {Primary}
CallCities(t) == IF tcities[t] = {} THEN targets ELSE tcities[t] \cap targets

EveryChannel(t) == ChannelsOf(CallCities(t))
Missing(t) == {c \in ChannelsOf(CallCities(t)) : ids[c] = 0}

\* publish() raises before it sends: no such row, no city or no channel to serve.
PublishRaises(t) ==
    /\ tpc[t] = "locked"
    /\ RowFree
    /\ \/ ~exists
       \/ CallCities(t) = {}
       \/ Missing(t) = {} /\ Recorded(ids) = {}
    /\ tpc' = [tpc EXCEPT ![t] = "failed"]
    /\ UNCHANGED <<rowVars, chatVars, tcities, ttries, todo, posted, redisLock,
                   sessVars, now, ops, faults, granted>>

\* Every requested channel has its message already: publish() changes nothing.
PublishNothing(t) ==
    /\ tpc[t] = "locked"
    /\ RowFree
    /\ exists
    /\ CallCities(t) # {}
    /\ Missing(t) = {}
    /\ Recorded(ids) # {}
    /\ tpc' = [tpc EXCEPT ![t] = "done"]
    /\ UNCHANGED <<rowVars, chatVars, tcities, ttries, todo, posted, redisLock,
                   sessVars, now, ops, faults, granted>>

\* SELECT ... FOR UPDATE, then the channels that have no message yet.
PublishBegins(t) ==
    /\ tpc[t] = "locked"
    /\ RowFree
    /\ exists
    /\ Missing(t) # {}
    /\ tpc' = [tpc EXCEPT ![t] = "sending"]
    /\ todo' = [todo EXCEPT ![t] = Missing(t)]
    /\ posted' = [posted EXCEPT ![t] = NoMessages]
    /\ UNCHANGED <<rowVars, chatVars, tcities, ttries, redisLock, sessVars,
                   now, ops, faults, granted>>

Send(t, c) ==
    /\ tpc[t] = "sending"
    /\ c \in todo[t]
    /\ todo' = [todo EXCEPT ![t] = @ \ {c}]
    /\ \/ /\ sent' = [sent EXCEPT ![c] = @ + 1]
          /\ live' = [live EXCEPT ![c] = @ \cup {sent[c] + 1}]
          /\ posted' = [posted EXCEPT ![t][c] = sent[c] + 1]
          /\ UNCHANGED faults
       \/ /\ Fault("send")     \* the channel refuses; the others go on
          /\ UNCHANGED <<sent, live, posted>>
       \/ /\ Fault("answer")   \* it has the message, but the call ends in an error
          /\ sent' = [sent EXCEPT ![c] = @ + 1]
          /\ live' = [live EXCEPT ![c] = @ \cup {sent[c] + 1}]
          /\ UNCHANGED posted
    /\ UNCHANGED <<rowVars, tpc, tcities, ttries, redisLock, sessVars,
                   now, ops, granted>>

\* published_message_ids and approved_city_ids grow.
OnlyPosted(t) == posted[t]
Merged(t) == [c \in Chats |-> IF posted[t][c] # 0 THEN posted[t][c] ELSE ids[c]]

CoveredNow(t) == CallCities(t)
Covered(t) == approved \cup CallCities(t)

HasSucceeded(t) == Recorded(posted[t]) \cup Recorded(ids) # {}

\* The status becomes PUBLISHED if anything was sent, and stays what it was if only
\* earlier posts are live.
PublishCommits(t) ==
    /\ tpc[t] = "sending"
    /\ todo[t] = {}
    /\ HasSucceeded(t)
    /\ ids' = Merged(t)
    /\ approved' = Covered(t)
    /\ status' = IF Recorded(posted[t]) # {} THEN "published" ELSE status
    /\ tpc' = [tpc EXCEPT ![t] = "done"]
    /\ posted' = [posted EXCEPT ![t] = NoMessages]
    /\ UNCHANGED <<exists, targets, slot, urgent, chatVars, tcities, ttries, todo,
                   redisLock, sessVars, now, ops, faults, granted>>

\* Nothing was sent and nothing was live: status FAILED is flushed, then publish()
\* raises and session_scope rolls the transaction back.
PublishFails(t) ==
    /\ tpc[t] = "sending"
    /\ todo[t] = {}
    /\ ~HasSucceeded(t)
    /\ tpc' = [tpc EXCEPT ![t] = "failed"]
    /\ UNCHANGED <<rowVars, chatVars, tcities, ttries, todo, posted, redisLock,
                   sessVars, now, ops, faults, granted>>

\* An exception between two sends (a template that cannot be rendered) or at the
\* commit: the transaction is rolled back, the messages that went out stay.
PublishAborts(t) ==
    /\ tpc[t] = "sending"
    /\ Fault("abort")
    /\ tpc' = [tpc EXCEPT ![t] = "failed"]
    /\ todo' = [todo EXCEPT ![t] = {}]
    /\ posted' = [posted EXCEPT ![t] = NoMessages]
    /\ UNCHANGED <<rowVars, chatVars, tcities, ttries, redisLock, sessVars,
                   now, ops, granted>>

\* The card is refreshed and the lock deleted, whoever holds it by now.
ReleaseDone(t) ==
    /\ tpc[t] = "done"
    /\ ReleasesLock
    /\ tpc' = [tpc EXCEPT ![t] = "free"]
    /\ tcities' = [tcities EXCEPT ![t] = {}]
    /\ ttries' = [ttries EXCEPT ![t] = 0]
    /\ UNCHANGED <<rowVars, chatVars, todo, posted, sessVars, now, ops, faults,
                   granted>>

OneRetryLess(t) == ttries[t] + 1 < MaxRetries
OneRetryMore(t) == ttries[t] <= MaxRetries
RetriesLeft(t) == ttries[t] < MaxRetries

\* The lock is deleted and self.retry enqueues the same call again.
Retry(t) ==
    /\ tpc[t] = "failed"
    /\ RetriesLeft(t)
    /\ ReleasesLock
    /\ tpc' = [tpc EXCEPT ![t] = "queued"]
    /\ ttries' = [ttries EXCEPT ![t] = @ + 1]
    /\ UNCHANGED <<rowVars, chatVars, tcities, todo, posted, sessVars, now, ops,
                   faults, granted>>

\* The retries are used up.
GiveUp(t) ==
    /\ tpc[t] = "failed"
    /\ ~RetriesLeft(t)
    /\ ReleasesLock
    /\ tpc' = [tpc EXCEPT ![t] = "free"]
    /\ tcities' = [tcities EXCEPT ![t] = {}]
    /\ ttries' = [ttries EXCEPT ![t] = 0]
    /\ UNCHANGED <<rowVars, chatVars, todo, posted, sessVars, now, ops, faults,
                   granted>>

WorkerStep(t) ==
    \/ AcquireLock(t)
    \/ SkipLocked(t)
    \/ PublishRaises(t)
    \/ PublishNothing(t)
    \/ PublishBegins(t)
    \/ \E c \in Chats : Send(t, c)
    \/ PublishCommits(t)
    \/ PublishFails(t)
    \/ PublishAborts(t)
    \/ ReleaseDone(t)
    \/ Retry(t)
    \/ GiveUp(t)

Executing(t) == tpc[t] \in {"locked", "sending", "done", "failed"}

\* The worker dies: the transaction is rolled back, the Redis lock stays, and the
\* unacknowledged message is delivered again or, if only the pool's child process
\* was lost, acknowledged by its parent.
WorkerLost(t) ==
    /\ Executing(t)
    /\ Fault("workerLost")
    /\ \/ /\ tpc' = [tpc EXCEPT ![t] = "queued"]
          /\ UNCHANGED <<tcities, ttries>>
       \/ /\ tpc' = [tpc EXCEPT ![t] = "free"]
          /\ tcities' = [tcities EXCEPT ![t] = {}]
          /\ ttries' = [ttries EXCEPT ![t] = 0]
    /\ todo' = [todo EXCEPT ![t] = {}]
    /\ posted' = [posted EXCEPT ![t] = NoMessages]
    /\ UNCHANGED <<rowVars, chatVars, redisLock, sessVars, now, ops, granted>>

\* The broker's visibility timeout passes while the task is still running.
Redeliver(t, u) ==
    /\ Executing(t)
    /\ tpc[u] = "free"
    /\ Fault("redeliver")
    /\ tpc' = [tpc EXCEPT ![u] = "queued"]
    /\ tcities' = [tcities EXCEPT ![u] = tcities[t]]
    /\ ttries' = [ttries EXCEPT ![u] = ttries[t]]
    /\ UNCHANGED <<rowVars, chatVars, todo, posted, redisLock, sessVars,
                   now, ops, granted>>

\* The 180 seconds of the Redis lock are over.
LockExpires ==
    /\ redisLock
    /\ Fault("lockExpiry")
    /\ redisLock' = FALSE
    /\ UNCHANGED <<rowVars, chatVars, taskVars, sessVars, now, ops, granted>>

-----------------------------------------------------------------------------
(* Beat and the clock. *)

\* publish_scheduled_news, every minute and again until the status changes.
BeatPublishes(t) ==
    /\ exists
    /\ status = "scheduled"
    /\ slot # 0 /\ slot <= now
    /\ LET own == ChannelsOf({Primary}) IN own = {} \/ ~(own \subseteq HeldChats)
    /\ Enqueue(t, approved)
    /\ UNCHANGED <<rowVars, chatVars, redisLock, sessVars, now, ops, faults, granted>>

Tick ==
    /\ now < MaxNow
    /\ now' = now + 1
    /\ UNCHANGED <<rowVars, chatVars, taskVars, redisLock, sessVars, ops, faults,
                   granted>>

-----------------------------------------------------------------------------
(* The moderators' sessions. *)

\* A new operation counts against the bound.
Begins(s, op) ==
    /\ spc[s] = "idle"
    /\ op \in May[s]
    /\ ops < MaxOps
    /\ ops' = ops + 1

\* _check_city_access: who works in the panel must see at least one target city.
HasAccess(s) == s \in Panel => targets \cap View[s] # {}

\* The handler loads the row: session.get and, in the panel, _get_news.
\* schedule_news passes no actor to it, so it checks no city.
ReadRow(s, op) ==
    /\ \/ op \in {"reject", "unpublish", "delete"}
       \/ s \in Panel /\ op \in {"approve", "approveOnly", "publish", "schedule", "edit"}
    /\ Begins(s, op)
    /\ exists
    /\ op # "schedule" => HasAccess(s)
    /\ spc' = [spc EXCEPT ![s] = op]
    /\ view' = [view EXCEPT ![s] = Row]
    /\ UNCHANGED <<rowVars, chatVars, taskVars, redisLock, scities, now, faults,
                   granted>>

Finish(s) ==
    /\ spc' = [spc EXCEPT ![s] = "idle"]
    /\ view' = [view EXCEPT ![s] = NoRow]

\* The session's last statement waits for the row lock and commits.
Writes(s, op) ==
    /\ spc[s] = op
    /\ RowFree
    /\ exists

\* Nothing left to approve, a published item to schedule, a row that is gone, or
\* any other exception: the request ends in an error and is rolled back.
Abandon(s) ==
    /\ \/ spc[s] \in {"approve", "approveOnly", "publish", "schedule", "reject",
                      "edit", "unpublish", "delete"}
       \/ spc[s] \in {"unpublishing", "deleting"} /\ ~exists
    /\ Finish(s)
    /\ UNCHANGED <<rowVars, chatVars, taskVars, redisLock, scities, now, ops, faults,
                   granted>>

\* The cities an approval by s decides; seen is the row as the session has it.
\* Only target_cities is read again once the lock is held.
Decidable(s, seen) == (targets \cap Scope[s]) \ seen.approved

\* _schedule_publication sends the item out at once ...
ForgetsStatus(s, seen, C) ==
    /\ slot' = Written(seen.slot, 0, slot)
    /\ spc' = [spc EXCEPT ![s] = "dispatch"]
    /\ scities' = [scities EXCEPT ![s] = C]
    /\ UNCHANGED <<status, approved>>

GoesAtOnce(s, seen, C) ==
    /\ status' = Written(seen.status, "approved", status)
    /\ slot' = Written(seen.slot, 0, slot)
    /\ spc' = [spc EXCEPT ![s] = "dispatch"]
    /\ scities' = [scities EXCEPT ![s] = C]
    /\ UNCHANGED approved

\* ... or gives it a slot.  Which, the other items of the queue decide.
GetsSlot(s, seen, C) ==
    /\ slot' \in (now + 1)..MaxNow
    /\ status' = "scheduled"
    /\ approved' = seen.approved \cup C
    /\ spc' = [spc EXCEPT ![s] = "idle"]
    /\ UNCHANGED scities

\* approve_news after its lock: the columns in view[s] are those read before it.
PanelApproves(s) ==
    LET seen == view[s]
        C    == Decidable(s, seen)
    IN  /\ Writes(s, "approve")
        /\ C # {}
        /\ \/ /\ seen.slot > now   \* a slot was chosen by hand: keep it
              /\ status' = "scheduled"
              /\ approved' = seen.approved \cup C
              /\ spc' = [spc EXCEPT ![s] = "idle"]
              /\ UNCHANGED <<slot, scities>>
           \/ /\ seen.slot <= now
              /\ \/ GoesAtOnce(s, seen, C)
                 \/ ~seen.urgent /\ GetsSlot(s, seen, C)
        /\ granted' = granted \cup C
        /\ view' = [view EXCEPT ![s] = NoRow]
        /\ UNCHANGED <<exists, targets, ids, urgent, chatVars, taskVars, redisLock,
                       now, ops, faults>>

\* approve_news with publish=False: cities remain, so the item stays pending.
PanelApprovesOnly(s) ==
    /\ Writes(s, "approveOnly")
    /\ Decidable(s, view[s]) # {}
    /\ status' = "pending"
    /\ Finish(s)
    /\ UNCHANGED <<exists, targets, approved, ids, slot, urgent, chatVars, taskVars,
                   redisLock, scities, now, ops, faults, granted>>

\* publish_now enqueues before it commits, and its row lock holds the task back until
\* then.  (Its check of the published chats never holds: what it decides is
\* disjoint from what is approved.)
PanelPublishes(s, t) ==
    LET seen == view[s]
        C    == Decidable(s, seen)
    IN  /\ Writes(s, "publish")
        /\ C # {}
        /\ \/ /\ status' = Written(seen.status, "approved", status)
              /\ slot' = Written(seen.slot, 0, slot)
              /\ approved' = seen.approved \cup C
              /\ UNCHANGED faults
           \/ /\ Fault("apiLost")   \* enqueued, but never committed
              /\ UNCHANGED <<status, slot, approved>>
        /\ granted' = granted \cup C
        /\ Enqueue(t, C)
        /\ Finish(s)
        /\ UNCHANGED <<exists, targets, ids, urgent, chatVars, redisLock, scities,
                       now, ops>>

\* schedule_news: at = 0 cancels the schedule.
PanelSchedules(s, at) ==
    LET seen == view[s]
    IN  /\ Writes(s, "schedule")
        /\ Recorded(seen.ids) = {}
        /\ \/ /\ at = 0
              /\ status' = IF seen.status = "scheduled" THEN "pending" ELSE status
              /\ slot' = Written(seen.slot, 0, slot)
              /\ UNCHANGED <<urgent, granted>>
           \/ /\ at > now
              /\ status' = Written(seen.status, "scheduled", status)
              /\ slot' = Written(seen.slot, at, slot)
              /\ urgent' = Written(seen.urgent, FALSE, urgent)
              /\ granted' = granted \cup (targets \cap Scope[s])
        /\ Finish(s)
        /\ UNCHANGED <<exists, targets, approved, ids, chatVars, taskVars, redisLock,
                       scities, now, ops, faults>>

\* update_news: the editor's set of target cities and its "at once" switch.
PanelEdits(s, T, isUrgent) ==
    /\ Writes(s, "edit")
    /\ targets' = T
    /\ urgent' = Written(view[s].urgent, isUrgent, urgent)
    /\ Finish(s)
    /\ UNCHANGED <<exists, status, approved, ids, slot, chatVars, taskVars, redisLock,
                   scities, now, ops, faults, granted>>

\* _approve of the bot: the row is read under the lock, so the view is the row.
\* (It lacks the panel's regard for a slot chosen by hand.)
BotApproves(s, op) ==
    LET C        == Decidable(s, Row)
        isUrgent == urgent \/ op = "now"
    IN  /\ op \in {"approve", "now"}
        /\ s \notin Panel
        /\ Begins(s, op)
        /\ exists
        /\ RowFree
        /\ C # {}
        /\ \/ GoesAtOnce(s, Row, C) /\ UNCHANGED faults
           \/ ~isUrgent /\ GetsSlot(s, Row, C) /\ UNCHANGED faults
           \/ /\ Fault("queue")   \* logged, and the status is committed
              /\ status' = "approved"
              /\ UNCHANGED <<slot, approved, spc, scities>>
        /\ urgent' = isUrgent
        /\ granted' = granted \cup C
        /\ UNCHANGED <<exists, targets, ids, chatVars, taskVars, redisLock, view, now>>

\* publish_news.delay once the approval is committed.
Dispatch(s, t) ==
    /\ spc[s] = "dispatch"
    /\ Enqueue(t, scities[s])
    /\ spc' = [spc EXCEPT ![s] = "idle"]
    /\ scities' = [scities EXCEPT ![s] = {}]
    /\ UNCHANGED <<rowVars, chatVars, redisLock, view, now, ops, faults, granted>>

Rejects(s) ==
    /\ Writes(s, "reject")
    /\ status' = Written(view[s].status, "rejected", status)
    /\ Finish(s)
    /\ UNCHANGED <<exists, targets, approved, ids, slot, urgent, chatVars, taskVars,
                   redisLock, scities, now, ops, faults, granted>>

\* delete_published: every message the session has seen recorded is removed; one
\* Telegram refuses to delete is logged and passed over.
TakesDown(s) ==
    /\ spc[s] \in {"unpublish", "delete"}
    /\ \E kept \in SUBSET Recorded(view[s].ids) :
          /\ live' = [c \in Chats |-> IF c \in kept THEN live[c]
                                      ELSE live[c] \ {view[s].ids[c]}]
          /\ IF kept = {} THEN UNCHANGED faults ELSE Fault("telegramDelete")
    /\ spc' = [spc EXCEPT ![s] = IF @ = "unpublish" THEN "unpublishing"
                                                   ELSE "deleting"]
    /\ UNCHANGED <<rowVars, sent, taskVars, redisLock, view, scities, now, ops,
                   granted>>

Unpublishes(s) ==
    /\ Writes(s, "unpublishing")
    /\ ids' = Written(view[s].ids, NoMessages, ids)
    /\ status' = Written(view[s].status, "withdrawn", status)
    /\ Finish(s)
    /\ UNCHANGED <<exists, targets, approved, slot, urgent, chatVars, taskVars,
                   redisLock, scities, now, ops, faults, granted>>

Deletes(s) ==
    /\ Writes(s, "deleting")
    /\ exists' = FALSE
    /\ Finish(s)
    /\ UNCHANGED <<status, targets, approved, ids, slot, urgent, chatVars, taskVars,
                   redisLock, scities, now, ops, faults, granted>>

\* bulk_delete_news: one DELETE, and nothing is said to Telegram.
BulkDeletes(s) ==
    /\ s \in Panel
    /\ Begins(s, "bulkDelete")
    /\ exists
    /\ RowFree
    /\ exists' = FALSE
    /\ UNCHANGED <<status, targets, approved, ids, slot, urgent, chatVars, taskVars,
                   redisLock, sessVars, now, faults, granted>>

\* The API or bot process dies between a session's steps.
ApiLost(s) ==
    /\ spc[s] \in {"unpublishing", "deleting", "dispatch"}
    /\ Fault("apiLost")
    /\ Finish(s)
    /\ scities' = [scities EXCEPT ![s] = {}]
    /\ UNCHANGED <<rowVars, chatVars, taskVars, redisLock, now, ops, granted>>

\* What a session does once it has started an operation.
SessionStep(s) ==
    \/ PanelApproves(s)
    \/ PanelApprovesOnly(s)
    \/ \E t \in Tasks : PanelPublishes(s, t)
    \/ \E at \in 0..MaxNow : PanelSchedules(s, at)
    \/ \E T \in (SUBSET Cities) \ {{}}, b \in BOOLEAN : PanelEdits(s, T, b)
    \/ \E t \in Tasks : Dispatch(s, t)
    \/ Rejects(s)
    \/ TakesDown(s)
    \/ Unpublishes(s)
    \/ Deletes(s)

Next ==
    \/ \E t \in Tasks : WorkerStep(t) \/ WorkerLost(t) \/ BeatPublishes(t)
    \/ \E t, u \in Tasks : Redeliver(t, u)
    \/ LockExpires
    \/ Tick
    \/ \E s \in Sessions :
          \/ \E op \in Operation : ReadRow(s, op) \/ BotApproves(s, op)
          \/ SessionStep(s)
          \/ Abandon(s)
          \/ BulkDeletes(s)
          \/ ApiLost(s)

Spec == Init /\ [][Next]_vars

\* Celery runs its queue, beat ticks, and a request that was started ends.  Nobody
\* has to press a button.
Fairness ==
    /\ \A t \in Tasks : WF_vars(WorkerStep(t)) /\ WF_vars(BeatPublishes(t))
    /\ \A s \in Sessions : WF_vars(SessionStep(s))
    /\ WF_vars(Tick)

FairSpec == Spec /\ Fairness
=============================================================================
