----------------------------- MODULE Submissions -----------------------------
(***************************************************************************)
(* A reader's letter: the dialogue with the bot that collects it, and the  *)
(* Celery task process_submission that prepares it for moderation.         *)
(*                                                                         *)
(* The bot runs every update as a task of its own and keeps the dialogue   *)
(* in Redis, where each get_data, set_data and set_state is a step, so the *)
(* handlers of two updates may interleave.                                 *)
(***************************************************************************)
EXTENDS NewsTable, Sequences

CONSTANTS
    Readers, Handlers,      \* Handlers: updates in progress at once
    NoCity,                 \* of a letter without a city
    Offered, Topics,        \* the cities the bot lists, the stories readers write about
    LetterRetries,          \* max_retries of process_submission
    Events,                 \* what readers do in the dialogue
    LetterFaults, MaxLetterFaults,      \* "card", "task", "lost", "queue", "bot"
    MaxEvents, MaxLetters   \* bounds

ASSUME SubmissionsAssumption ==
    /\ NoStory \notin Stories /\ NoCity \notin Cities
    /\ Offered \subseteq Cities /\ Topics \subseteq Stories
    /\ LetterRetries \in Nat /\ MaxLetterFaults \in Nat
    /\ MaxEvents \in Nat /\ MaxLetters \in Nat

VARIABLES
    state,      \* of a reader: the state of the dialogue
    data,       \* of a reader: what Redis holds of the dialogue
    handler,    \* the updates in progress: the steps each still has to take
    said,       \* of a reader (history): how often a city was chosen; since then, how much was
                \* attached and whether the bot lost an update
    letters,    \* the letters stored: the data each was made of; what was said (history)
    work,       \* of a letter: its process_submission task
    events,     \* how many there have been
    letterFaults    \* how many; the letters they cost the card (history)

submissionVars == <<state, data, handler, said, letters, work, events, letterFaults>>

NoData == [city |-> NoCity, cityTurn |-> 0, story |-> NoStory, textTurn |-> 0, media |-> <<>>, geo |-> 0, anonymous |-> FALSE]
Free == [reader |-> CHOOSE u \in Readers : TRUE, steps |-> <<>>, patch |-> NoData, seen |-> NoData, fields |-> {}]
Letters == 1..MaxLetters
NoWork == [pc |-> "none", attempt |-> 0]

\* q: how many of the MaxEvents events are used up.
SubmissionsInit(q) ==
    /\ state = [u \in Readers |-> "none"]
    /\ data = [u \in Readers |-> NoData]
    /\ handler = [h \in Handlers |-> Free]
    /\ said = [u \in Readers |-> [turn |-> 0, media |-> 0, lost |-> FALSE]]
    /\ letters = [k \in Letters |-> [form |-> NoData, said |-> 0, whole |-> TRUE]]
    /\ work = [k \in Letters |-> NoWork]
    /\ events = q.events
    /\ letterFaults = [count |-> 0, dropped |-> {}]

-------------------------------------------------------------------------------
(* The dialogue.  An update whose filter fits the state starts a handler;   *)
(* "read" and "write" are the two halves of FSMContext.update_data.         *)

Update == <<"read", "write">>
Create == <<"get", "clearState", "clearData", "create", "enqueue">>

\* The update `event` of reader u begins: its steps, and the fields it sets.
Begins(u, h, event, needed, steps, fields, patch) ==
    /\ event \in Events /\ events < MaxEvents
    /\ handler[h].steps = <<>>
    /\ needed = "any" \/ state[u] = needed
    /\ handler' = [handler EXCEPT ![h] = [reader |-> u, steps |-> steps, patch |-> patch,
                                          seen |-> NoData, fields |-> fields]]
    /\ events' = events + 1
    /\ UNCHANGED <<state, data, letters, work, letterFaults, news>>

Suggest(u, h) ==
    /\ Begins(u, h, "suggest", "any", <<"choosing_city">>, {}, NoData)
    /\ UNCHANGED said

Cancel(u, h) ==
    /\ Begins(u, h, "cancel", "any", <<"clearState", "clearData">>, {}, NoData)
    /\ UNCHANGED said

NewTurn(u) == said' = [said EXCEPT ![u] = [turn |-> @.turn + 1, media |-> 0, lost |-> FALSE]]

ChooseCity(u, h, c) ==
    /\ Begins(u, h, "city", "choosing_city", Update \o <<"entering_text">>, {"city", "cityTurn", "media"},
              [NoData EXCEPT !.city = c, !.cityTurn = said[u].turn + 1])
    /\ NewTurn(u)

\* /start suggest_<city>
DeepLink(u, h, c) ==
    /\ Begins(u, h, "link", "any", <<"clearState", "clearData">> \o Update \o <<"entering_text">>,
              {"city", "cityTurn", "media"},
              [NoData EXCEPT !.city = c, !.cityTurn = said[u].turn + 1])
    /\ NewTurn(u)

EnterText(u, h, s) ==
    /\ Begins(u, h, "text", "entering_text", Update \o <<"attaching_media">>, {"story", "textTurn"},
              [NoData EXCEPT !.story = s, !.textTurn = said[u].turn])
    /\ UNCHANGED said

\* The list is read, extended, and written back by an update_data of its own.
AttachMedia(u, h) ==
    /\ Begins(u, h, "media", "attaching_media", <<"get", "append">> \o Update, {"media"},
              [NoData EXCEPT !.media = <<said[u].turn>>])
    /\ said' = [said EXCEPT ![u].media = @ + 1]

MediaDone(u, h) ==
    /\ Begins(u, h, "done", "attaching_media", <<"attaching_location">>, {}, NoData)
    /\ UNCHANGED said

GotLocation(u, h) ==
    /\ Begins(u, h, "location", "attaching_location", Update \o <<"choosing_anonymity">>, {"geo"},
              [NoData EXCEPT !.geo = said[u].turn])
    /\ UNCHANGED said

SkipLocation(u, h) ==
    /\ Begins(u, h, "skip", "attaching_location", <<"choosing_anonymity">>, {}, NoData)
    /\ UNCHANGED said

ChooseAnonymity(u, h, yes) ==
    /\ Begins(u, h, "anonymity", "choosing_anonymity",
              Update \o (IF yes THEN Create ELSE <<"entering_author">>), {"anonymous"},
              [NoData EXCEPT !.anonymous = yes])
    /\ UNCHANGED said

EnterAuthor(u, h) ==
    /\ Begins(u, h, "author", "entering_author", Create, {}, NoData)
    /\ UNCHANGED said

\* The next step of the handler h is `step`; afterwards its record is `rest`.
Takes(h, step) == handler[h].steps # <<>> /\ Head(handler[h].steps) = step
Rest(h) == [handler[h] EXCEPT !.steps = Tail(@)]
Moves(h, rest) == handler' = [handler EXCEPT ![h] = rest]

SetState(h) ==
    LET r == handler[h] IN
    /\ \E s \in {"choosing_city", "entering_text", "attaching_media", "attaching_location",
                 "choosing_anonymity", "entering_author", "clearState"} :
           /\ Takes(h, s)
           /\ state' = [state EXCEPT ![r.reader] = IF s = "clearState" THEN "none" ELSE s]
    /\ Moves(h, Rest(h))
    /\ UNCHANGED <<data, said, letters, work, events, letterFaults, news>>

GetData(h) ==
    /\ Takes(h, "get") \/ Takes(h, "read")
    /\ Moves(h, [Rest(h) EXCEPT !.seen = data[handler[h].reader]])
    /\ UNCHANGED <<state, data, said, letters, work, events, letterFaults, news>>

\* The slip: the attachment replaces the list.
ReplaceMedia(h) ==
    /\ Takes(h, "append")
    /\ Moves(h, Rest(h))
    /\ UNCHANGED <<state, data, said, letters, work, events, letterFaults, news>>

AppendMedia(h) ==
    /\ Takes(h, "append")
    /\ Moves(h, [Rest(h) EXCEPT !.patch.media = handler[h].seen.media \o @])
    /\ UNCHANGED <<state, data, said, letters, work, events, letterFaults, news>>

\* set_data of everything that was read, with the handler's fields replaced.
SetData(h) ==
    LET r == handler[h] IN
    /\ \/ /\ Takes(h, "write")
          /\ data' = [data EXCEPT ![r.reader] =
                         [f \in DOMAIN NoData |-> IF f \in r.fields THEN r.patch[f] ELSE r.seen[f]]]
       \/ /\ Takes(h, "clearData")
          /\ data' = [data EXCEPT ![r.reader] = NoData]
    /\ Moves(h, Rest(h))
    /\ UNCHANGED <<state, said, letters, work, events, letterFaults, news>>

LetterId(k) == <<0, k, letters[k].form.story>>

\* _create_submission: the row, with whatever the data held.
CreateSubmission(h) ==
    LET seen == handler[h].seen IN
    /\ Takes(h, "create")
    /\ \E k \in Letters :
           /\ work[k].pc = "none" /\ \A j \in 1..(k - 1) : work[j].pc # "none"
           /\ letters' = [letters EXCEPT ![k] =
                  [form |-> seen, said |-> said[handler[h].reader].media, whole |-> ~said[handler[h].reader].lost]]
           /\ work' = [work EXCEPT ![k].pc = "stored"]
           /\ news' = With(news, [id \in {<<0, k, seen.story>>} |->
                         [story |-> seen.story, origin |-> "user", status |-> "processing",
                          cities |-> {seen.city} \ {NoCity}, card |-> FALSE]])
    /\ Moves(h, Rest(h))
    /\ UNCHANGED <<state, data, said, events, letterFaults>>

\* A fault, which costs the letters `ks` their card.
LetterFault(kind, ks) ==
    /\ kind \in LetterFaults
    /\ letterFaults.count < MaxLetterFaults
    /\ letterFaults' = [count |-> letterFaults.count + 1, dropped |-> letterFaults.dropped \cup ks]

\* process_submission.delay; if the broker refuses it, the bot only logs that.
EnqueueSubmission(h) ==
    /\ Takes(h, "enqueue")
    /\ \E k \in Letters :
           /\ work[k].pc = "stored" /\ letters[k].form = handler[h].seen
           /\ \/ work' = [work EXCEPT ![k].pc = "queued"] /\ UNCHANGED letterFaults
              \/ work' = [work EXCEPT ![k].pc = "done"] /\ LetterFault("queue", {k})
    /\ Moves(h, Rest(h))
    /\ UNCHANGED <<state, data, said, letters, events, news>>

\* The bot restarts: the handlers are gone, Redis still has the dialogues.
BotRestarts ==
    /\ LetterFault("bot", {k \in Letters : work[k].pc = "stored"})
    /\ handler' = [h \in Handlers |-> Free]
    /\ said' = [u \in Readers |-> [said[u] EXCEPT !.lost = @ \/ \E h \in Handlers :
                                       handler[h].reader = u /\ handler[h].steps # <<>>]]
    /\ UNCHANGED <<state, data, letters, work, events, news>>

-------------------------------------------------------------------------------
(* process_submission. *)

Goes(k, pc) == work' = [work EXCEPT ![k].pc = pc]

\* The row is read, and the AI rewrites it or does not.
Rewrite(k) ==
    /\ work[k].pc = "queued"
    /\ Goes(k, "rewriting")
    /\ UNCHANGED <<state, data, handler, said, letters, events, letterFaults, news>>

\* The text and status PENDING are committed, whatever the status is by now.
StoreRewritten(k) ==
    /\ work[k].pc = "rewriting"
    /\ news' = [news EXCEPT ![LetterId(k)].status = "pending"]
    /\ Goes(k, "notifying")
    /\ UNCHANGED <<state, data, handler, said, letters, events, letterFaults>>

\* The card; a letter without a city gets none, nor does one Telegram refuses.
NotifyLetter(k) ==
    /\ work[k].pc = "notifying"
    /\ \/ /\ news' = [news EXCEPT ![LetterId(k)].card = news[LetterId(k)].cities # {}]
          /\ UNCHANGED letterFaults
       \/ LetterFault("card", {k}) /\ UNCHANGED news
    /\ Goes(k, "pushing")
    /\ UNCHANGED <<state, data, handler, said, letters, events>>

\* The web push to the moderators, after the card.
PushLetter(k) ==
    /\ work[k].pc = "pushing"
    /\ Goes(k, "done")
    /\ UNCHANGED <<state, data, handler, said, letters, events, letterFaults, news>>

\* The slip: the exception is logged and not retried.
LetterGivenUp(k) ==
    /\ work[k].pc \in {"rewriting", "notifying", "pushing"}
    /\ LetterFault("task", {})
    /\ Goes(k, "done")
    /\ UNCHANGED <<state, data, handler, said, letters, events, news>>

\* An exception: what is not committed is undone, and the task runs again.
LetterFails(k) ==
    /\ work[k].pc \in {"rewriting", "notifying", "pushing"}
    /\ LetterFault("task", IF work[k].attempt < LetterRetries THEN {} ELSE {k})
    /\ work' = [work EXCEPT ![k] = IF @.attempt < LetterRetries
                                   THEN [pc |-> "queued", attempt |-> @.attempt + 1]
                                   ELSE [@ EXCEPT !.pc = "done"]]
    /\ UNCHANGED <<state, data, handler, said, letters, events, news>>

LetterWorkerDies(k) ==
    /\ work[k].pc \in {"rewriting", "notifying", "pushing"}
    /\ LetterFault("lost", {})
    /\ Goes(k, "queued")
    /\ UNCHANGED <<state, data, handler, said, letters, events, news>>

\* A moderator decides: on the card, or in the panel before there is one.
DecideLetter(k, status) ==
    /\ status \in {"approved", "rejected"} \cap Events
    /\ work[k].pc # "none"
    /\ news[LetterId(k)].status = "pending" \/ "early" \in Events
    /\ news[LetterId(k)].status \notin {"approved", "rejected"}
    /\ news' = [news EXCEPT ![LetterId(k)].status = status]
    /\ UNCHANGED submissionVars

LetterStep(k) == Rewrite(k) \/ StoreRewritten(k) \/ NotifyLetter(k) \/ PushLetter(k)

HandlerStep(h) ==
    SetState(h) \/ GetData(h) \/ AppendMedia(h) \/ SetData(h) \/ CreateSubmission(h) \/ EnqueueSubmission(h)

Speaks(u, h) ==
    \/ Suggest(u, h) \/ Cancel(u, h) \/ AttachMedia(u, h) \/ MediaDone(u, h)
    \/ GotLocation(u, h) \/ SkipLocation(u, h) \/ EnterAuthor(u, h)
    \/ \E c \in Offered : ChooseCity(u, h, c) \/ DeepLink(u, h, c)
    \/ \E s \in Topics : EnterText(u, h, s)
    \/ \E yes \in BOOLEAN : ChooseAnonymity(u, h, yes)

SubmissionsNext ==
    \/ \E h \in Handlers : HandlerStep(h) \/ \E u \in Readers : Speaks(u, h)
    \/ \E k \in Letters : LetterStep(k) \/ LetterFails(k) \/ LetterWorkerDies(k)
    \/ BotRestarts
    \/ \E k \in Letters, s \in {"approved", "rejected"} : DecideLetter(k, s)

SubmissionsFairness ==
    /\ \A h \in Handlers : WF_<<submissionVars, news>>(HandlerStep(h))
    /\ \A k \in Letters : WF_<<submissionVars, news>>(LetterStep(k))
===============================================================================
