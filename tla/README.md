# TLA+ specifications of CityNews

CityNews collects news from sources, matches them to cities, lets moderators decide
them in a web panel or a Telegram bot, and posts what they approve in the Telegram
channels of the cities. These modules specify the parts of it where several
processes share state, check them with TLC on small instances, and prove the
central facts with TLAPS for every value of the constants.

    tlc -config PublicationBot.cfg MCPublication      a run
    tlapm PublicationProofs.tla                       the proofs

## Inventory

The system is a FastAPI process (panel), an aiogram process (bot), Celery workers with
beat, PostgreSQL, Redis (lock, broker) and Telegram. Nothing is shared in memory: the
processes meet in the rows of the database, in the broker's queue and in Redis keys.

| Component | State it keeps | Operations | Interacts with | What makes it correct |
|---|---|---|---|---|
| Publication (`workers/tasks.py` publish_news, publish_scheduled_news; `publisher_service.py`) | the `news` row: status, approved_city_ids, published_message_ids, scheduled_at; a Redis lock per item | publish to the missing channels, retry, give up, beat | Telegram; moderation through the row and the broker | no channel gets a post twice; every post is recorded; only approved cities get it; an approval is carried out in the end |
| Moderation, panel (`backend/app/api/news.py`) | none but the row as a request has read it | approve, publish, schedule, reject, edit, restore, regenerate, unpublish, delete, bulk delete, send to moderation | the row; publish_news.delay before or after the commit; channel and card, before the commit | a request does not undo another's decision; nobody decides a city that is not theirs |
| Moderation, bot (`telegram_bot/handlers/moderation.py`) | dedupe key of a callback | approve, publish at once, reject, withdraw, delete, purge, by the buttons of any card | as the panel; reads the row under its lock; redraws the card after the commit | as the panel |
| Moderation cards (`telegram_admin.py`, `news_moderation.py`) | the messages in the moderators' group; moderation_message_id of the row | send, redraw, take down or edit what is published | every handler that decides, and the publication | a card shows the status and offers what it allows |
| Publication queue (`_schedule_publication`) | scheduled_at, published_at, processed_at of the items of a city | next free slot | beat, publish | the posts of a channel are an interval apart; a city does not delay another |
| Telegram publisher (`telegram_publisher.py`) | ids sent so far | send the groups of a post, clean up after a failure | Telegram | all or nothing per channel |
| Ingestion (`pipeline.py`, `dedup.py`) | sources' last_fetched_at, last_success_at; hashes of the news | dispatch, fetch, match, deduplicate, create, auto-publish, send cards | beat, workers, moderation cards | an item is stored once and only where it belongs; what is stored is handed on; the archive of a new source is not imported |
| Submissions (`telegram_bot/handlers/submission.py`, process_submission) | the form of a dialogue in Redis; the news row | the steps of the dialogue, submit, rewrite, send the card | workers, moderation | a letter holds what its writer said and reaches the moderators; a decided item is not reopened |
| Access control (`security.py`, `deps.py`) | role, permissions, city rules | combine scopes; merge a role into its user at each request | all handlers | a restriction or a denial survives every combination |
| Users and roles (`api/users.py`, `settings_service.py`) | rows of users; the settings of roles, each written whole | create and remove roles, configure them, change users | access control | an override was given and stays; requests do not wait for each other for ever |
| Ads (`ad_publisher.py`, tasks) | status, schedule, recorded messages | publish when the schedule matches, by hand; retry | beat, the Telegram publisher | once per due time |
| City weather (tasks) | date of the last post | post within a window, by hand | beat, the Telegram publisher | once per city and day |
| Versions (`version_service.py`) | numbered snapshots | snapshot, restore | editors | numbers are unique and no text is lost |
| Sanitizer, matcher | none | pure functions | the publisher, ingestion | Telegram can parse every post; an item goes to the cities its text names |
| Web push, notifications, AI rewriting, media, parsers, templates, backups, frontend, migrations | – | – | – | not modelled, see below |

The hard part is the publication. A moderator's request, the task it enqueues, beat
and other moderators' requests interleave; publish_news sends to Telegram *inside* a
database transaction, so that a crash or a rollback leaves posts nobody recorded; the
broker redelivers, Celery retries, Redis locks expire, and panel requests decide by a
row they loaded before they had its lock. `hazards` in PROJECT.json lists these at
their lines. Around it the same three patterns recur: a side effect in Telegram or the
broker next to a commit, with nothing to repair the one if the other fails (cards,
weather, ads, letters); a row or a setting read first and written whole later (versions,
roles, the dialogue in Redis); a mark that is set too late or looked at too early
(last_success_at, weather_last_published_on, the status of an ad).

## Modules

| Module | What it is |
|---|---|
| `NewsPublication` | one item: its row, the tasks, the sessions of the moderators, the Redis lock, beat, and the channels |
| `ChannelPosts` | the abstract specification: a channel shows the item at most once and only after its city was granted |
| `PublicationProperties` | the properties, and the refinement mapping to ChannelPosts |
| `MCPublication` | instances for TLC |
| `PublicationProofs` | the theorems |
| `PublishQueue` | many items: the slots `_schedule_publication` gives them, beat, and the times of the posts |
| `MCPublishQueue` | instances for TLC |
| `QueueProofs` | the theorems |
| `NewsDesk` | one item again, by what its handlers make of its text, versions, post and cards |
| `MCNewsDesk` | instances for TLC |
| `DeskProofs` | the theorems |
| `NewsTable` | the rows of `news`, as intake writes them |
| `Ingestion` | sources, the beat task that dispatches them, ingest_source and the pipeline |
| `Submissions` | the dialogue with a reader, and process_submission |
| `Intake` | Ingestion and Submissions over one NewsTable, and their properties |
| `MCIntake` | instances for TLC |
| `IntakeProofs` | the theorems |
| `CityScopes` | the combination of role, configuration, overrides and restriction, as operators |
| `AccessControl` | requests that use and change users, roles and their settings; its properties |
| `MCAccess` | instances for TLC |
| `AccessProofs` | the theorems |
| `TelegramHtml` | html_sanitizer and what Telegram's parser accepts, as operators and recursive functions |
| `HtmlProofs` | lemmas about sequences and folds; the theorems about the sanitizer |
| `TelegramPost` | one post, call by call |
| `Calendar` | the clock of the beat tasks |
| `Ads`, `CityWeather` | the tasks that post ads and the weather, over TelegramPost |
| `Posting` | Ads and CityWeather together, and their properties |
| `MCPosting` | instances for TLC |
| `PostingProofs` | the theorems |

### NewsPublication and the code

*The row.* `status`, `targets`, `approved`, `ids`, `slot`, `urgent` are the columns of
`models/news.py`; `ids[c] = 0` means that channel `c` has no entry in
published_message_ids. `exists` is false once the row is deleted.

*Transactions.* A transaction of which no effect is visible before its commit, and
which takes the row lock last, is one action. Where the code reads and decides before it
has the lock there are two: `ReadRow` copies the row to `view[s]`, the write uses it.
SQLAlchemy does not refresh attributes it has loaded when a later
`SELECT ... FOR UPDATE` returns the same row, so the panel's approve and publish decide
by `view[s]` although they "re-read"; only target_cities is read anew. The bot's approve
reads under the lock (`BotApproves`, one action). An UPDATE writes only the attributes
that changed in the session (`Written`). `RowFree` is the row lock: whoever writes waits
until no publication is sending.

*publish_news.* `AcquireLock`/`SkipLocked` are the SET NX; `PublishRaises`,
`PublishNothing`, `PublishBegins` the start of `PublisherService.publish`; `Send` one
channel; `PublishCommits`, `PublishFails`, `PublishAborts` the three ends of the
transaction (a failure flushes FAILED and then raises, so `session_scope` rolls it
back); `ReleaseDone`, `Retry`, `GiveUp` the finally block and the retry. A task's
city list of None is the empty set.

*Faults.* `send`: Telegram refuses. `answer`: it has taken the post but the call fails.
`abort`: an exception between sends or at the commit. `workerLost`: the worker dies, its
message is delivered again or, when only the pool's child died, acknowledged.
`redeliver`: the broker's visibility timeout passes. `lockExpiry`: 180 s pass.
`telegramDelete`: a message cannot be deleted. `queue`: the bot cannot compute a slot and
only commits the status. `apiLost`: the API or bot process dies between its commit and
its `delay`, between Telegram and the commit, or after `delay` and before the commit.
The constant `Faults` chooses the kinds a run allows, `MaxFaults` how many in all.

*Abstracted.* Texts and cards (NewsDesk has them), media and notifications; the choice of a slot (any later
instant here); Redis being down; which of several chats with the same chat id a city has. *Left
out* of the handlers: the PATCH of status or scheduled_at by an editor, creating
and copying an item, previews, the bot's dedupe key and its spoiler toggle; restoring and
regenerating, which touch no column this module has, are in NewsDesk.

*History.* `granted` is not in the code: it records which cities somebody who may
decide them has approved.

### PublishQueue and the code

NewsPublication follows one item through every fault and takes its slot as a choice;
PublishQueue follows several items and a clock of minutes and takes a publication as one
step that succeeds. They share no state: what a slot is matters to the first only as
"later", and what can go wrong in a send does not matter to the second.

`status`, `slot`, `approved`, `processed`, `published` are columns of each item; 0 is
NULL. `Waiting`, `Published` and `Dispatched` are the three queries of
`_schedule_publication` over `Sharing(C)`, the items with a target among the cities
approved; `NextSlot` is the maximum of `candidates`, said by its property. An approval
has two steps: `ReadsQueue` locks the item's row (and no other) and computes,
`CommitsNow` or `CommitsSlot` commits. In the bot the item's own old slot is among those
it reads, since nothing was flushed before the queries; the panel has flushed the status
APPROVED and does not ask at all while the slot is to come (`KeepsSlot`).
`publish_news` waits for the row lock. `posted` is history: when each channel got the
item. *Abstracted*: reject, withdrawal and deletion, failed sends, the setting of
`publish_immediately` by a moderator (the constant `Urgent`), manual channels.

### NewsDesk and the code

NewsPublication asks in which channels an item is; NewsDesk asks whether what it shows
there, and on the card by which moderators act, is what the row says. It has one channel
and one city, and follows each handler statement by statement: `StepsOf(op)` is the order
of its effects. `ReadRow` is `_get_news`; `Snapshot`, `Takedown`, `EditPost`,
`UpdateCard` are the services it calls, each by the row as the session has it (`Own`);
`Write` is the flush or the SELECT FOR UPDATE, which takes the row's lock; `Commit`
writes the changed columns over whatever the row is now. The bot's approve reads under
the lock (`Take`), and every button of the bot redraws the card afterwards, from a row
read anew (`Fresh`, `Mark`). `publish_news` is `BeginPublication`, `Show` or
`RefusesPost`, `Commit`, `UpdateCard`; `notify_moderation` is `Fresh`, `SendCard`,
`KeepCard`. `cards` are all cards ever sent: `Press` takes a button of any of them.
`BulkDelete` is one DELETE. Faults: `card`, `edit`: Telegram refuses to edit a card or a
post; `abort`: a request of the panel fails after it has begun; `ai`; `refuse`: the post
is refused.

`excused` is history: what two overlapping handlers (`Spoils`), a fault or an operation
that updates neither post nor card (restore, regenerate, bulk delete) may have spoilt.
The properties are about the rest, which is what the code keeps; the configurations
below show that each excuse is needed. A snapshot's INSERT takes no lock here, which
allows more than PostgreSQL does. Beat enqueues a due item once at a time.

### Ingestion, Submissions and the code

`run[n]` is the n-th message of ingest_source, from `Enqueue` (beat, or the panel's
"check now") over `Fetch` and one `TakeItem` per entry of the feed to `Commit`,
`PushOut` and `Notify`; `Again` and `Anew` are the retry and the redelivery. The rows a
run inserts are its own until the commit; the first of them also writes the source's row
and holds its lock (`SourceFree`, `InsertFirst`). An item is what the matcher finds in
its text: how many keywords of a city, which cities are named, vetoed, whether the
country or a region; `Score` counts in sixtieths, and `TargetsOf` decides as
`_process_item` does. Dedup compares `story`: its five tests are one. What is inserted is
also `Reported`, for the cards and the publication tasks; an item that raises is passed
over before that, with nothing stored (`ItemFails`) or with a row nobody hears of
(`SlotFails`).

A dialogue is `state` and `data` in Redis; a handler reads, changes and writes them in
separate steps, and its steps are those of the source file's handlers. `form` is what it has collected, with the turn
of the dialogue in which each part was said, so that a part of an older turn shows.
`process_submission` is `Rewrite`, `StoreRewritten`, `NotifyLetter`, `PushLetter`.

*Abstracted*: the morphology of the matcher, media of items, follow-ups, embeddings,
AI profiles.

### CityScopes, AccessControl and the code

`ResolveCityScope`, `UserCityAccess`, `UserHasPermission` are the functions of
`security.py` over sets; `Merged` is what `get_current_user` makes of a user. Its result
is assigned to `user.permissions`; deps.py:75-76 and 87 say that it is not persisted as
the session is not committed, but `get_session` commits, and AccessControl models what
happens. A request is a sequence of steps, read or write of one setting, of the actor's
row or the target's, ending in a commit; `HeldUsers` and its counterpart for settings
are the row locks. `told`, `given` and `crossed` are history: what editors set last, what
anyone was ever given, whose row two requests had open at once. PostgreSQL aborts one
of two requests that wait for each other; it does so here.

*Left out*: colours and labels on their own, bans, passwords, two-factor login.

### TelegramPost, Ads, CityWeather and the code

A post is a sequence of media, a text as a sequence of tags and characters, buttons and a
place. A call of TelegramPost sends one message or album; a failed call deletes what was
sent, one by one, and a refused custom emoji starts the post again without emoji.
`Sanitize` is the HTMLParser subclass as a fold over the tags; `Cut` the cut of a caption.
Ads and CityWeather have a clock of few minutes a day; the parity of the day of the month
is that of the day.

## Runs

All instances of the publication have one item, the cities moscow and perm and, unless stated, a channel in
each. Deadlock is not checked: an item that is published and quiet has no step left.

| Run | Shows |
|---|---|
| `PublicationBot` | two moderators in the bot (one of all cities, one of perm), an editor in the panel who changes the cities and bulk-deletes; three tasks, one retry, two faults out of refused send, early lock expiry, duplicate delivery: all safety properties and the refinement of ChannelPosts |
| `PublicationPanel` | one moderator in the panel with stale reads and one in the bot approve, publish, schedule, delete, the lock may expire: no approval is forgotten |
| `PublicationCrash` | an item that skips moderation; everything fails that can except the lock's lifetime: executions exclude each other |
| `PublicationLive` | fairness; one channel, two refused sends, two retries, withdrawals: what is approved settles and is delivered |
| `CrashDoublePost` | **violation**: worker dies before the commit, the 180 s lock is over when the broker redelivers after 600 s: posted twice |
| `SkippedApproval` | **violation**: two moderators publish for their own cities; the second task meets the first's lock and is dropped for ever |
| `ScheduleScope` | **violation**: a moderator of perm schedules the item; it goes to moscow too |
| `QueueInTurn` | two items of moscow, one of them urgent, one of both cities, one of kazan that may be scheduled by hand; one approval at a time, of all cities, beat punctual: slots and posts of a channel are an interval apart, waiting is bounded and caused only by the item's own channels, everything approved is posted |
| `Desk` | an item that waits, with or without its card, or is in the channel; two handlers at once; three operations, or two and a fault, or one and two faults: versions lose nothing, the channel shows the row's text, the card fits the status, where handlers did not overlap |
| `Intake` | a source of two cities and a global one that publishes unseen, a letter; one fault, one operation of the panel: a story is stored once by a run and at most twice by two that overlap, items go where their text says, everything is handed on, a letter is complete and reaches the moderators |
| `Access` | a super admin and a moderator, a built-in and a custom role; any three requests, two at once: overrides were given and stick, restrictions hold in panel and bot, every request ends |
| `Posting` | two ads, two cities with three channels, two days of four minutes, a punctual beat; besides, every text of up to four tags and characters, also around an emoji and with emoji within emoji, and every choice of up to three media, posted by hand: posts are whole or gone and fail only for a cause; ads and weather come, and once for each minute or day they are due |

*Bounds.* Two cities and channels are enough for partial approval, partial failure and
crossed scopes. Three tasks are two moderators' tasks and a duplicate; a fourth would
only repeat what the third does. Two operations of two moderators in all orders are what
the stale reads need, a third is there for the editor or the withdrawal. Two faults: the
crash that doubles a post needs exactly two (worker, lock). `MaxNow` is 1 or 2: before
and after the slot. Which properties hold is a matter of the operations and faults a run
allows, and the cfg says which; where one of them breaks a property, a configuration below shows it.

`QueueInTurn` has an interval of two minutes, approvals up to minute 3 and a clock that
ends at 9, when the last slot they can give (7) has passed; three items share a channel,
so that a slot can follow a slot that follows a post.

`Desk` has two handlers because every overlap that matters is one of two; three operations
are an approval, something in between, and a press of a card that shows the state before.
Two cards are an old one and the item's; one retry and two faults use up the retries.
`Intake` starts from a few settings, so that the parts it combines do not multiply: both
sources together, one source with faults or with the panel, the letter alone and with a
source. Two runs are the overlap and the redelivery; eight events are the longest dialogue
with one part sent twice or a step back. `Access`: two requests give every stale read and
lock cycle, the third is the one that notices. `Posting`: an album of two, captions of
four and texts of eight characters stand for Telegram's 10, 1024 and 4096; three media are an album, a
rest and something that cannot be in an album; with a window of one minute two beats meet
the same day; seven minutes are a day, its midnight and most of the next.

*Fairness* (`FairSpec` of NewsPublication): a worker that can take a step takes it, beat runs every minute,
a request that was started ends, time passes. Nothing is assumed of the moderators, of
faults, or of Telegram beyond the bound on refusals. Weak fairness is enough: a task that
waits for a row lock waits for a task that is itself fair. `PublicationLive` has bot
sessions only: a panel request that publishes with a stale view after the first
publication has committed sets the status back to APPROVED, and its task may be skipped,
so that ApprovedSettles fails. In PublishQueue `publish_news` is strongly fair: a
moderator who approves the same item again and again disables it while holding the row
lock, and PostgreSQL serves those who wait for a row in turn. In Intake a worker that has
a message, and a handler that has begun, take their next step (weak fairness); nothing is
assumed of sources, readers, moderators or faults. In AccessControl a request takes its
next step if it can. In Posting nothing has to be assumed: that something comes is said
as a bound, by what must have come when the clock has passed it. NewsDesk has no liveness
of its own.

### Further disagreements

These configurations are not part of the runs; each reproduces, in seconds, a
disagreement between the code and what is said of it.

| Configuration | Property refuted | What happens |
|---|---|---|
| `WithdrawnReturns` | WithdrawnCanReturn | a withdrawn item has no city left to approve: unpublish keeps approved_city_ids (news.py:717: "After this the news can be edited and published again") |
| `RejectedPublished` | RejectedStaysUnpublished | rejected while its task waits: published (publish() does not look at the status; enums.py:42 calls REJECTED terminal) |
| `StaleApproved` | ApprovedNeverShrinks | the panel's approve writes back the approvals it read before the lock (news.py:331-333) |
| `StaleSlot` | ScheduledHasSlot | a schedule cancelled during an approval leaves SCHEDULED with scheduled_at NULL, which beat never selects |
| `PushScheduled` | ScheduledCanBePushed | the "publish at once" button on a queued item finds no city to approve (moderation.py, telegram_admin.py:160-161) |
| `GivenUp` | GivenUpIsRecorded | the retries are used up and the row says APPROVED; FAILED was rolled back |
| `QueueForgets` | RecordedIsPosted | one city waits for its slot, the second is approved when beat is due: the slot is cleared and the first city, recorded as approved, never gets its post |
| `QueueSameSlot` | SlotsApart | two moderators approve two items at the same time: the same slot |
| `TwinVersions` | NumbersDiffer | two editors save at once: two versions have the same number, and a restore by number finds either |
| `StaleCard` | CardAlwaysMatches | the bot redraws the card from a row read before the publication's commit, after the publication has redrawn it (moderation.py:292-294: the tags "always match the admin panel") |
| `FirstRunArchive` | ArchiveStaysOut | the first fetch of a feed without dates imports all of it: last_success_at is set before it is tested (pipeline.py:220, 257) |
| `LetterReopened` | DecidedStays | the push after the card fails, the task runs again and sets a decided letter to PENDING (tasks.py:149) |
| `ExceptedCities` | ExceptedCitiesHold | a role that may act "everywhere EXCEPT cities" (users.py:338) may act in these too, since a grant to the user or the merge comes first |
| `RolesDeadlock` | NoDeadlock | two requests wait for each other's rows |
| `OneAdADay` | AdRecurs | a recurring ad (models/ad.py) is PUBLISHED after its first post and not selected again (tasks.py:498) |
| `WeatherTwice` | NeverTwiceADay | a run that fails before its one commit: cities get the weather again (tasks.py:725-726) |

These have no file of their own: take the configuration named, put the property in the
place of its own, and change what is listed.

| Property refuted | Configuration and changes | What happens |
|---|---|---|
| PostedIsGranted | `PushScheduled`: `Panel = {s1}`, `MaxOps = 3`, `May <- EditWork` | scheduled for one city, then another is added: beat publishes to both |
| CoveredIsReceived | `PushScheduled`: `MaxOps = 1`, `Faults = {"send"}`, `MaxFaults = 1` | one of two channels refuses; its city counts as approved and covered all the same (publisher_service.py:285-291 against its comment) and is never offered again |
| WithdrawnIsDown | `RejectedPublished`: `May <- WithdrawWork` | withdrawn while being sent: WITHDRAWN with its post up |
| ApprovedSettles | `PushScheduled`: `FairSpec`, no `SYMMETRY`, `Chats = {chM}`, `Scope <- PermOnly`, `May <- JustApprove`, `MaxOps = 1` | an approval for a city without a channel stays APPROVED for ever |
| NothingForgotten | `PushScheduled`: `Scope <- SplitScope`, `Sessions = {s1, s2}` | one city of an item is being sent when the other is approved and waits for its slot: the publication sets PUBLISHED (publisher_service.py:309), and beat selects SCHEDULED only |
| SlotsApart | `QueueForgets`: `Spec`, `Items = {iM1, iP, iMP}` | the second decision on an item of two cities gives it a slot computed for the second city, or keeps that of the first |
| PostsApart | `QueueSameSlot`: `Moderators = {m1}`, `LastApproval = 5`, `Lag = 1` | a slot that has passed is not counted (tasks.py:289): what is approved before beat comes round goes out beside it |
| OwnQueueOnly | `QueueForgets`: `Spec`, `Items = {iP, iMP}` | an item of two cities approved for one delays an item of the other (tasks.py:281-284 says it must not) |
| WaitIsBounded | `QueueSameSlot`: `Moderators = {m1}`, `Items = {iM1, iM2}`, `ByHand = {iM1}` | an item scheduled by hand makes everything approved later wait behind it |
| NoTextLost | `TwinVersions` | two editors save at once: the text of the first is in no version |
| PostAlwaysMatches | `TwinVersions`: `Ready <- OneShown`, `Work = {"edit", "restore"}` | a version restored while the item is published: the channel keeps the old text (only update_news calls edit_published, news.py:266-271) |
| PostAlwaysMatches | `TwinVersions`: `Work = {"edit", "approve"}` | an edit that read the row before the publication does not edit the post |
| NoButtonsLeft | `TwinVersions`: `Work = {"send", "press"}` | deleted by one of two cards: the other keeps its buttons |
| NoStoryTwice | `FirstRunArchive`: `Sources = {regional, wire}`, `Items = {late, abroad}` | two sources bring the same story at once: stored twice |
| VetoHolds | `FirstRunArchive`: `Items = {federal}`, `Undated = {}` | a federal or regional item goes to a city although it has one of the city's excluding words |
| CardsForAll | `FirstRunArchive`: `FairSpec`, `Faults = {"lostLate"}`, `MaxFaults = 1` | a worker dies after the commit: nobody is shown the item |
| CardsForAll | `FirstRunArchive`: `FairSpec`, `Faults = {"card"}`, `MaxFaults = 1` | Telegram refuses the card: the same |
| CardsForAll | `FirstRunArchive`: `FairSpec`, `Sources = {wire}`, `Items = {abroad}`, `Undated = {}`, `AutoPublish = {wire}`, `Faults = {"item"}`, `MaxFaults = 1` | the search for a slot raises and pipeline.py:275 swallows it: the item stays APPROVED, without card or task |
| CardsForAll | `LetterReopened`: `FairSpec`, `LetterFaults = {"queue"}` | the task of a letter cannot be enqueued: it stays PROCESSING |
| DecidedStays | `LetterReopened`: `MaxLetterFaults = 0`, `Events = {"link", "text", "done", "skip", "anonymity", "rejected", "early"}` | a letter decided in the panel while the AI rewrites it is set to PENDING |
| LocationIsCurrent | `LetterReopened`: `MaxLetterFaults = 0`, `MaxEvents = 11`, `Events = {"suggest", "city", "text", "done", "location", "skip", "anonymity"}` | the location of an abandoned dialogue is in the next letter |
| LetterIsComplete | `LetterReopened`: `MaxLetterFaults = 0`, `Handlers = {h1, h2}`, `MaxEvents = 7`, `Events = {"link", "text", "media", "done", "skip", "anonymity"}` | two attachments handled at once: one is lost (submission.py:213-235) |
| LetterIsComplete | `LetterReopened`: `MaxLetterFaults = 0`, `Handlers = {h1, h2}`, `MaxEvents = 6`, `MaxLetters = 2` | the last button pressed twice: two letters, or an empty one |
| SuperAdminMayAll | `ExceptedCities`: `Payloads <- MCPayloads`, `Requests = {"put", "visit", "role"}` | "deny wins over everything except SUPER_ADMIN" (security.py:125): a promoted user keeps what the role denied |
| RemovedRoleIsVoid | `ExceptedCities`: `Payloads <- MCPayloads`, `Requests = {"put", "visit", "remove"}` | users of a removed role do not "immediately lose all access from it" (users.py:200-202): the merge has made it their own |
| BotAgrees | `ExceptedCities`: `Payloads <- MCPayloads`, `Requests = {"put"}` | the bot does not merge, and answers differently from the panel |
| NewRoleIsEmpty | `RolesDeadlock`: `Requests = {"put", "remove", "create"}`, `MaxRequests = 4` | a role created anew under an old name has the old configuration (users.py:137-138: "grants nothing until configured") |
| OverridesStay | `RolesDeadlock`: `Requests = {"put", "visit", "overrides"}` | an override is overwritten by a request that read the user before |
| OtherRolesKept | `RolesDeadlock`: `Requests = {"put", "create"}` | the configuration of another role is overwritten by a request that read the setting before |
| NeverRefused | `WeatherTwice`: `Starts <- CutStarts` | a caption cut at 1024 in the middle of its markup is refused (html_sanitizer.py:8-10 promises valid HTML; it is cut at telegram_publisher.py:196, 221) |
| NeverRefused | `WeatherTwice`: `Starts <- NestedStarts` | an emoji within an emoji keeps its tags (telegram_publisher.py:49-59), so that the second attempt is refused too, and the publication is lost |
| WholeOrGone | `WeatherTwice`: `Starts <- NoteStarts` | the text sent after a video note is left out or left behind (telegram_publisher.py:352-355) |
| NothingLeftBehind | `Posting`: `Starts <- AlbumStarts`, `PostFaults = {"refuse"}` | the buttons after an album fail: the album is not among what is deleted (telegram_publisher.py:376-382, 266-271) |
| AdOnce | `OneAdADay`: `MaxPostFaults = 1` | an ad is posted twice for one minute, the second time by a retry after a lost answer |
| AdOnce | `OneAdADay`: `Punctual = FALSE` | an ad whose task waits for a worker is posted after the minutes of its retries |
| FailureIsRecorded | `OneAdADay`: no `SYMMETRY`, `PostFaults = {"refuse"}`, `MaxPostFaults = 3` | FAILED is flushed and rolled back by the exception (ad_publisher.py:60-66) |
| SwitchedOffStaysOff | `OneAdADay`: no `SYMMETRY`, `AdWork = {"auto"}`, `MaxAdWork = 1` | an ad switched off while its task waits is posted |
| NeverTwiceADay | `WeatherTwice`: `Punctual = FALSE`, `WeatherFaults = {}`, `MaxNow = 3` | a second run overlaps the first: the same |
| WeatherComes | `WeatherTwice`: `TargetOf <- LateTargetOf` | a window that ends after midnight is cut off there, so that one failed run can cost the day (tasks.py:752-754) |

## Proofs

A theorem holds for every value of its module's constants: any number of cities, channels,
moderators, tasks, sources, readers, users, retries and faults. What is known of the
constants is in `ConstantsAssumption`, `QueueAssumption`, `DeskAssumption`,
`IngestionAssumption`, `SubmissionsAssumption`, `IntakeAssumption`, `ScopesAssumption`,
`AccessAssumption`, `PostAssumption`, `AdsAssumption`, `WeatherAssumption` and
`PostingAssumption`, which TLC evaluates in every run; they say what the constants are, and
that there is a user and a source and that a text may have a character. DeskAssumption adds that what NewsDesk starts from is a
row with at most one card, and that the sessions are finitely many.

### The publication (`PublicationProofs`)

| Theorem | Assumes | Says |
|---|---|---|
| `TypeCorrect` | – | `[]TypeOK` |
| `LockExcludes` | the lock does not expire early | one execution at a time |
| `NeverTwice` | `NothingIsUndone`: nobody withdraws; no lost answer, abort or dead worker | no channel shows the item twice |
| `NeverOrphaned` | `NothingIsUndone` | every post is recorded, or about to be |
| `OnlyWhereApproved` | `OnlyApprovals`: no auto-publish, no schedule by hand | posted only where granted |
| `PromiseKept` | both | the publication implements ChannelPosts |
| `ApprovalsStay` | `ApproveInBot`: whoever approves or publishes does so in the bot | an action property: no approval of a city is ever lost |
| `QueuedHasSlot` | `DecideInTurn`: moderators decide in the bot, or one in the panel decides alone | what is SCHEDULED has a slot, so that beat finds it |
| `NothingIsForgotten` | `DecideEverything`: every moderator decides all cities, nobody withdraws or edits, and only locks, duplicates and deletions go wrong | once all is quiet, an approved item is in all its channels |

The assumptions are as weak as the code allows: the runs `CrashDoublePost`,
`SkippedApproval` and `ScheduleScope` and the rows WithdrawnIsDown, NothingForgotten,
`StaleApproved` and `StaleSlot` of "Further disagreements" are what happens without them.
`PublicationBot` satisfies the first two and `ApproveInBot`, `PublicationPanel` decides
everything.

`NoDoublePost` is not inductive: that a channel shows one message says
nothing of what a sending task still has to do. `PostInv` adds that at most one task is
sending (the row lock), that what a sending task has posted or has yet to post has no
entry in the row, and that every message shown is in the row or in the sending task; so
a send meets an empty channel. The Redis lock is not used, which is why the theorem
holds although it may expire. `LockInv` adds to `OneExecution` that whoever executes
has the lock set. `GrantInv` follows the approved cities through the session that read
them, the row, the task and its channels: `approved`, `tcities`, `scities`, `view`,
`todo` hold only granted cities, and a task that is not free has at least one, because
an empty list would mean all targets; that is what a schedule by hand breaks.
`PromiseKept` needs both invariants: a send is a first post, taking down is a
withdrawal, everything else a grant or a stutter.

`SlotInv` adds to `ScheduledHasSlot` what a session in the panel knows between its read
and its write (`SeesSlot`): the slot it saw is the row's, and if the item is in the queue
it has seen that. The bot reads and writes in one step and needs nothing. `ForgetInv` is
about all channels at once, which is enough because sets of cities are empty or all
(`WholeInv`): an execution has sent, recorded or still has to do each channel
(`DutyDone`), so that what is approved is everywhere, or a task or a session on the way to
`delay` will see to it (`UnderWay`). A task that finds the lock set may go: the lock is set by
an execution only, and that one is under way.

### The queue (`QueueProofs`)

| Theorem | Assumes | Says |
|---|---|---|
| `TypeCorrect` | – | `[]TypeOK` |
| `SlotsAreApart` | `InTurn`: one moderator approves, each item for all its cities, and items scheduled by hand share no city with another | those who wait for a channel have slots an interval apart |
| `PostsAreApart` | `InTurn`, and beat is punctual (`Lag = 0`) | the posts of a channel are an interval apart, the urgent ones excepted |
| `WaitsForItsOwn` | `InTurn` | an action property: an item begins to wait only for one that keeps a channel of its own busy |
| `WaitsAreBounded` | `InTurn`, and the items are finitely many | nobody waits longer than an interval for each item that takes its slot from the queue, however late beat is |

The rows SlotsApart, PostsApart and OwnQueueOnly of "Further disagreements" and
`QueueSameSlot` show each part of `InTurn` and `Lag = 0` to be needed. `QueueInv` has four
parts besides the types. `Whole`: what is approved, called and posted of an item is all
its cities or none. `Dispatch`: an item approved at once is in flight in this very minute,
and an item in flight has just been approved or has come to its slot. `Spaced` is the
generalisation the two properties need: an item *claims* minutes, by its slot, its
publication, or because it is in flight, and the claims of items that share a channel are
apart, those a moderator is about to make included. `Blamed`: an item about to wait has
found another to blame.

`WaitsAreBounded` needs an invariant of its own, `Chain`: a slot to come is at most an interval
from now, or exactly an interval after the slot of another item of the queue, which is to come
too. An item that was published early keeps its slot, so the chain does not break where it
stood; as time passes a link is lost only when its successor is the next. Counted down from the
first violation (`ChainIsBounded`), the chain has at most one link for each item before one's
own. The row WaitIsBounded of "Further disagreements" shows why the channels of what is scheduled by hand
must be its own: its slot is no link.

### Requests and permissions (`AccessProofs`)

| Theorem | Says |
|---|---|
| `TypeCorrect` | `[]TypeOK`, half-done requests included |
| `RestrictionsHold` | a user restricted to cities acts and sees in these only, a denied permission is of no use, whatever roles and grants become, in the panel and in the bot |
| `OverridesAreGiven` | nobody has an override that no editor set and no role of theirs gave |
| `OverridesSurvive` | what an editor set is in the row, unless two requests had that row open at once |

None has a hypothesis. `TypeInv` adds to the types what the rest of a request may be (`PlanOK`): its
statements fit its operation and its values, and come in the order of the handlers, so
that a row that is written has been read. `RestrictedStays` follows from the types alone,
by lemmas about the operators of CityScopes: scopes combine to anything, but the cities of
a restricted user are intersected last. `GivenInv` follows an override through the
request: what it has merged from rows and settings as they were, what it is about to write
and what is committed was given. `StickInv` says of a request that nobody crosses that it
is `Faithful`: the row it read is still the committed one, it writes back at least what it
found, and what an editor sets is written after that.

### The desk (`DeskProofs`)

| Theorem | Says |
|---|---|
| `TypeCorrect` | `[]TypeOK` |
| `NothingOverwritten` | every text the row has had is in the row or in a version, numbered in turn, unless two changes of it overlapped |
| `ChannelIsCurrent` | the channel shows the row's text, and nothing of a withdrawn or deleted item, when nobody is at work on the post and none was excused |
| `CardsAreCurrent` | the same for the card: the status, the buttons, and no button of a deleted item |

No hypothesis again: which overlaps and faults are excused is part of the properties. `DeskType` says of
a handler what it may still have to do (`Plans`), what it holds of the row at that point,
and that one handler has the row's lock. Each property has an invariant that says, where
nothing was excused, that at most one handler is at work on the thing and how far it has
come: `TextInv` that it has read the row's text and its snapshot has the next number
(`UpToDate`); `PostInv` what the channel shows before and after the handler's own step
(`SeesPost`); `CardInv` that it has read what the card shows, that the card it rebuilt fits
the row it is going to commit, and that a publication which will rebuild the card is
enqueued (`SeesCard`, `CardSettled`).

### Intake (`IntakeProofs`)

| Theorem | Assumes | Says |
|---|---|---|
| `TypeCorrect` | – | `[]TypeOK` |
| `NothingStoredTwice` | – | no run stores a story that was on file when it began, or one twice, through retries, redeliveries and duplicate dispatches |
| `ItemsGoWhereTheyBelong` | – | items go to cities of their source, active when the run began, where their text says |
| `OverlapIsCheap` | – | two executions of one source that overlap store at most one story twice |
| `LettersAreComplete` | `[]OneAtATime`: no two handlers are busy with one reader | a letter has a city, a text and every attachment, unless an update of that dialogue was lost in a restart |
| `OneHandlerIsEnough` | there is one handler | the same |

`RunInv` says of a message what it has stored, what it holds back and what is committed of
it: `DraftsFit` and `WaitingFits` (stories that are neither known to the run nor stored by
it before, cities that fit the text), `Committed` (the rows of earlier executions), and
`Counted` (every execution but those that failed costs a retry or a fault, which is why
ids are never used again). `ApartInv` is why an overlap costs one story: the first row an
execution inserts takes the lock of the source's row, so that the second execution reads
what the first has committed for all its items but one. `DialogueInv` says how the data of
a dialogue fit its state when no update is in progress (`Fits`), and of an update in
progress, for each point of each script, what its data and what it has still to write
come to (`Continues`). `[]OneAtATime` is about the environment, aiogram's dispatcher,
which does not keep two updates of one reader apart: the rows LetterIsComplete of "Further
disagreements" lose a part of the letter that way, so that the theorem says what the
handlers guarantee by themselves.

### The sanitizer (`HtmlProofs`)

| Theorem | Says |
|---|---|
| `SanitizedIsAccepted` | for every text: Telegram can parse what the sanitizer makes of it |
| `StrippedIsAccepted` | for every text: and what it makes of that without custom emoji |
| `StrippedLosesEmojiOnly` | for every text that says something, so does what is made of it; and without custom emoji there is none left, unless one is within another |

A text is any finite sequence of opening and closing tags with any names, and characters. The
prover cannot do induction over data, so `StillOpen`, `Fed` and `StripEmoji` are recursive
functions over positions, and `FoldKeeps` shows once, by the least position at which it
would fail (`Least`), that such a fold stays within a set its step stays within. The set is `States`: what has been
written out leaves open exactly the tags that are on the stack (`Emitted`), and consists
of tags Telegram knows. The closing of several tags at once is the same argument
from the top of the stack down (`ClosesFrom`). What a fold makes of a text as it goes is
the same with a set for each position (`Stepwise`): once a character has been read one has been written
(`SanitizedSays`), and outside of an emoji no tag of one has been kept. The latter needs
that the text nests: `StrippedNoEmoji` follows the stack of open tags and the flag of
`Strip` together, an emoji being open exactly when the flag is set.

### Posts, ads and the weather (`PostingProofs`)

| Theorem | Assumes | Says |
|---|---|---|
| `TypeCorrect` | – | `[]TypeOK` |
| `PostsAreWholeOrGone` | `NotesNotFirst`: no list of media begins, in the order of its groups, with a video note | a post is in its channel with all of it, once, or not at all, unless an answer, a deletion or an album's buttons fail |
| `SpacedAdsArePostedOnce` | beat is punctual | an ad whose schedule leaves room for the retries is posted at most once for each minute it is due, in the minutes of its retries, but for editors, lost workers, commits and answers |
| `OneWeatherPostADay` | beat is punctual | a channel gets one weather post a day, in the window, unless a run that had begun with the city fails or two overlap |
| `EveryCityHasItsTurn` | beat is punctual; `WindowsFit`: fewer faults than a window has minutes, windows do not pass midnight, and the clock starts before they do | when its window is over, a city has had its turn |

| `FailuresHaveCause` | – | a post gets out unless Telegram refuses it for a reason of its own, an answer is lost, it says nothing, markup is cut, or an emoji is within an emoji |
| `DueAdsCome` | beat is punctual; `AdsAreDue`: it looks from the first minute on, no more can fail than an ad's task has retries, and an ad with a channel is selected and can be sent | what beat enqueues is posted and recorded, or a task of it is under way, unless an editor takes it in hand |

The rows WholeOrGone, AdOnce, NeverTwiceADay and WeatherComes of "Further disagreements" are what
happens without them. `Types` says more than TypeOK of a call: unless something is astray, the
channel shows exactly the messages of the requests it has made, and what is not over can
still be undone (`AccountedFor`). So WholeOrGone is a fact about the requests,
whatever the media: `PostSays` goes from the chunks of a list (each position in one chunk,
`ChunksOnce`) over the groups by type (`GroupsFit`) and their calls (`GroupSays`) to the
whole post, in which each attachment is said once, albums are of one kind, and caption,
buttons and place are where they should be. `CaptionedInv` carries the hypothesis to the posts being sent.

`WeatherInv` says of a city that is not excepted that one run has it in hand, and that
whatever was posted for it today is in that run's hand or marked (`Remembered`). `ComesInv`
gives each minute of a window that is over an account: the city is marked, or a fault was
spent in it, or beat's run is still to come or under way. `TasksInv` says
of a task of a spaced ad that it was enqueued in a due minute (`Timed`: the time it is
due, less its attempts), so that it ends before the turn of the next one and is the only
one (`AloneInTurn`); `PostsInv` of every post beat has made of the ad that it lies in a
turn that has begun, alone, and that since the task under way was enqueued nothing is
shown but what that task has sent. Neither looks at the ad's status: that an ad is not
selected again once it is PUBLISHED (AdRecurs above) plays no part, and TLC finds
SpacedAdOnce kept as well if the status is left as it is.

`CauseInv` says of a call what it sends (the sanitized text, or that without its emoji) and
that, unless it will be repeated, it has not failed for nothing. A text that says
something and is not cut can be parsed in every message of the post, text and captions
(`EveryMessage`, from `PostSays` with the texts that Telegram accepts), so that only the emoji of a
first attempt can stop it, and the second has none. `DueInv` is the account of an ad's task: the
attempts it has spent (`Spent`, one more as soon as its post has failed) and
what can still fail (`Left`) are never more than its retries. Every step that
spends an attempt is one of the faults: by `CauseInv` a post that can be sent fails for
nothing else. So the task of an ad is not given up before the ad is recorded, and as long as it is not,
beat finds it `Selected`. The run `Posting` satisfies `AdsAreDue`, and the invariants were checked on it first; what Telegram does with an emoji
within an emoji, and that the attempt without emoji fails of it, came out of the proof.

### Only model-checked

- Liveness, which this prover cannot do: ApprovedSettles, ApprovedIsDelivered of the publication,
  ApprovedIsPosted of the queue, HandedOn and LetterReachesModerators of Intake,
  RequestsEnd of AccessControl.

Every invariant and every action property of the passing runs has its theorem.

## Plan

1. Done: `NewsPublication`, its abstract specification, runs and proofs.
2. Done: `PublishQueue`, `NewsDesk`, `Intake`, `AccessControl`, `Posting` and their runs.
3. Done: their proofs, and those of the sanitizer.
4. Done: the last two invariants, AdComes and FailsForCause, the latter with emoji within
   emoji as a cause.

## Not modelled

Formatting and templates, media and watermarks, source parsers, AI providers, forecasts,
subscriptions of web push, backups, the frontend and migrations: they compute or
transport data and share no state with the parts above whose order matters. Of ads, the
counts of clicks and impressions and the list of media files (read, changed and written
whole) are left out; of users, bans, passwords and notification settings; of the panel,
creating and copying items, the PATCH of a status and previews; of the bot, the spoiler
toggle and the key that drops a redelivered callback.
