------------------------------- MODULE NewsDesk -------------------------------
(***************************************************************************)
(* One item at the desk: its text and the versions kept of it, the post in *)
(* the channel, and the cards in the moderators' group, whose buttons are  *)
(* what moderators act by.                                                 *)
(*                                                                         *)
(* A handler reads the row, and works on what it has read: it renders post *)
(* and card from it, and writes the columns it has changed.  Its UPDATE    *)
(* takes the row's lock, but what it has read it does not read again.      *)
(* Telegram shows an edit at once, the database with the commit.           *)
(***************************************************************************)
EXTENDS Integers, SequencesExt

CONSTANTS
    Texts, NoText,
    Sessions,               \* requests, presses and tasks in progress at once
    Work,                   \* what people do: the operations of the panel, "press", "bulk", "send"
    PublishRetries,         \* max_retries of publish_news
    DeskFaults, MaxDeskFaults,  \* "card", "edit", "abort", "refuse", "ai"
    Ready,                  \* where a behaviour may start
    MaxCards, MaxWork       \* bounds

VARIABLES
    row,        \* the committed row of the item
    versions,   \* its committed versions
    post,       \* the text the channel shows, or NoText
    cards,      \* what the cards sent so far show
    desk,       \* the requests, presses and tasks in progress
    queue,      \* the messages of publish_news, by attempt; the tasks notify_moderation
    deskFaults, worked,     \* how many there have been
    was,        \* the texts the row has had (history)
    excused     \* what a fault or two handlers at once may have spoilt: "text", "post", "card" (history)

deskVars == <<row, versions, post, cards, desk, queue, deskFaults, worked, was, excused>>

Statuses == {"pending", "approved", "scheduled", "rejected", "published", "withdrawn"}
Row == [exists : BOOLEAN, text : Texts, status : Statuses, approved : BOOLEAN, up : BOOLEAN, card : 0..MaxCards]
Columns == {"exists", "text", "status", "approved", "up", "card"}
Nothing == [c \in {} |-> {}]

ASSUME DeskAssumption ==
    /\ NoText \notin Texts
    /\ PublishRetries \in Nat /\ MaxDeskFaults \in Nat /\ MaxCards \in Nat \ {0} /\ MaxWork \in Nat
    /\ IsFiniteSet(Sessions)
    /\ \A q \in Ready :
        /\ q.row \in Row /\ q.row.exists /\ q.row.card \in 0..1
        /\ q.faults \in 0..MaxDeskFaults /\ q.work \in 0..MaxWork

\* build_moderation_keyboard
Offers(r) ==
    CASE r.up -> {"unpublish", "purge"}
      [] ~r.up /\ r.status \in {"approved", "scheduled"} -> {"now", "reject", "delete"}
      [] ~r.up /\ r.status \in {"rejected", "withdrawn"} -> {"approve", "purge"}
      [] OTHER -> {"approve", "reject", "delete", "now"}

Card(r, offers) == [text |-> r.text, status |-> r.status, offers |-> offers]

Nobody == [op |-> "none", steps |-> <<>>, view |-> CHOOSE r \in Row : TRUE, new |-> Nothing,
           snap |-> <<>>, value |-> NoText, locked |-> FALSE, card |-> 0]

\* q: the row, with a card if it has one, and how much of the bounds is used up.
Init ==
    \E q \in Ready :
        /\ row = q.row
        /\ versions = <<>>
        /\ post = IF q.row.up THEN q.row.text ELSE NoText
        /\ cards = IF q.row.card = 1 THEN <<Card(q.row, Offers(q.row))>> ELSE <<>>
        /\ desk = [s \in Sessions |-> Nobody]
        /\ queue = [publish |-> <<>>, notify |-> 1 - q.row.card]
        /\ deskFaults = q.faults
        /\ worked = q.work
        /\ was = {q.row.text}
        /\ excused = {}

-------------------------------------------------------------------------------
(* What is begun. *)

\* The steps of each operation: panel, bot and worker.
StepsOf(op) ==
    CASE op = "edit" -> <<"read", "snapshot", "write", "post", "card", "commit">>
      [] op \in {"restore", "regenerate"} -> <<"read", "snapshot", "write", "commit">>
      [] op \in {"approve", "reject", "schedule", "cancel"} -> <<"read", "write", "card", "commit">>
      [] op = "unpublish" -> <<"read", "takedown", "write", "card", "commit">>
      [] op = "delete" -> <<"read", "takedown", "card", "write", "commit">>
      [] op = "publish_now" -> <<"read", "write", "commit">>
      [] op \in {"bot_approve", "bot_now"} -> <<"take", "fresh", "mark">>
      [] op = "bot_reject" -> <<"read", "write", "commit", "fresh", "mark">>
      [] op \in {"bot_unpublish", "bot_delete", "bot_purge"} -> <<"read", "takedown", "write", "commit", "fresh", "mark">>
      [] op = "publish_news" -> <<"begin", "show", "commit", "card">>
      [] op = "notify" -> <<"fresh", "offer", "keep">>

Presses == [approve |-> "bot_approve", now |-> "bot_now", reject |-> "bot_reject",
            unpublish |-> "bot_unpublish", delete |-> "bot_delete", purge |-> "bot_purge"]

\* What two operations at once may spoil: the text both write, the post one of
\* them does not know of, the card both edit.
TextWork == {"edit", "restore", "regenerate"}
PostWork == {"edit", "unpublish", "delete", "bot_unpublish", "bot_delete", "bot_purge", "publish_news"}
CardWork == PostWork \cup {"approve", "reject", "schedule", "cancel", "publish_now",
                          "bot_approve", "bot_now", "bot_reject", "notify"}
Spoils(op) ==
    {x \in {"text", "post", "card"} : op \in (CASE x = "text" -> TextWork [] x = "post" -> PostWork [] x = "card" -> CardWork)}

Begins(s, op, value, card) ==
    /\ desk[s].op = "none"
    /\ desk' = [desk EXCEPT ![s] = [Nobody EXCEPT !.op = op, !.steps = StepsOf(op), !.value = value, !.card = card]]
    /\ excused' = excused \cup (Spoils(op) \cap UNION {Spoils(desk[t].op) : t \in Sessions})

Works(kind) ==
    /\ kind \in Work /\ worked < MaxWork
    /\ worked' = worked + 1

\* A request of the panel: the new text, or what the queue makes of an approval.
Asks(s, op, value) ==
    /\ Works(op)
    /\ Begins(s, op, value, 0)
    /\ UNCHANGED <<row, versions, post, cards, queue, deskFaults, was>>

EditNews(s, text) == Asks(s, "edit", text)
RestoreVersion(s) == \E v \in ToSet(versions) : Asks(s, "restore", v.text)
RegenerateNews(s, text) == Asks(s, "regenerate", text)
\* slot: at once, into the queue, or (publish=False) neither.
ApproveNews(s, slot) == Asks(s, "approve", slot)
RejectNews(s) == Asks(s, "reject", NoText)
ScheduleNews(s) == Asks(s, "schedule", NoText)
CancelSchedule(s) == Asks(s, "cancel", NoText)
UnpublishNews(s) == Asks(s, "unpublish", NoText)
DeleteNews(s) == Asks(s, "delete", NoText)
PublishNow(s) == Asks(s, "publish_now", NoText)

\* A button of any card in the group, which may show what was the case once.
Press(s, k, button) ==
    /\ Works("press")
    /\ button \in cards[k].offers
    /\ \E slot \in {"approved", "scheduled"} :
           /\ button # "approve" => slot = "approved"
           /\ Begins(s, Presses[button], slot, k)
    /\ UNCHANGED <<row, versions, post, cards, queue, deskFaults, was>>

\* One DELETE; neither the post nor the card is touched.
BulkDelete ==
    /\ Works("bulk")
    /\ row.exists /\ \A s \in Sessions : ~desk[s].locked
    /\ row' = [row EXCEPT !.exists = FALSE]
    /\ versions' = <<>>
    /\ excused' = excused \cup {"post", "card"}
    /\ UNCHANGED <<post, cards, desk, queue, deskFaults, was>>

SendToModeration ==
    /\ Works("send")
    /\ row.exists
    /\ Len(cards) + queue.notify + Cardinality({s \in Sessions : desk[s].op = "notify"}) < MaxCards
    /\ queue' = [queue EXCEPT !.notify = @ + 1]
    /\ UNCHANGED <<row, versions, post, cards, desk, deskFaults, was, excused>>

\* publish_scheduled_news, when the slot has come.
BeatEnqueues ==
    /\ row.exists /\ row.status = "scheduled" /\ queue.publish = <<>>
    /\ queue' = [queue EXCEPT !.publish = Append(@, 0)]
    /\ UNCHANGED <<row, versions, post, cards, desk, deskFaults, worked, was, excused>>

\* A task of publish_news that meets the Redis lock of another is dropped.
PublishTask(s) ==
    /\ queue.publish # <<>>
    /\ queue' = [queue EXCEPT !.publish = Tail(@)]
    /\ IF \E t \in Sessions : desk[t].op = "publish_news"
       THEN UNCHANGED <<desk, excused>>
       ELSE Begins(s, "publish_news", Head(queue.publish), 0)
    /\ UNCHANGED <<row, versions, post, cards, deskFaults, worked, was>>

NotifyTask(s) ==
    /\ queue.notify > 0
    /\ queue' = [queue EXCEPT !.notify = @ - 1]
    /\ Begins(s, "notify", NoText, 0)
    /\ UNCHANGED <<row, versions, post, cards, deskFaults, worked, was>>

-------------------------------------------------------------------------------
(* The steps. *)

Takes(s, step) == desk[s].steps # <<>> /\ Head(desk[s].steps) = step
Rest(r) == [r EXCEPT !.steps = Tail(@)]
Ended(r) == IF r.steps = <<>> THEN Nobody ELSE r
Goes(s, r) == desk' = [desk EXCEPT ![s] = Ended(r)]
LockFree(s) == \A t \in Sessions \ {s} : ~desk[t].locked

\* The row as the session has it: what it read, with what it set.
Over(new, old) == [c \in DOMAIN new \cup DOMAIN old |-> IF c \in DOMAIN new THEN new[c] ELSE old[c]]
Own(r) == Over(r.new, r.view)

Fault(kind) ==
    /\ kind \in DeskFaults /\ deskFaults < MaxDeskFaults
    /\ deskFaults' = deskFaults + 1

\* What an operation is refused for, by the row it has read.
Refused(r, view) ==
    \/ ~view.exists /\ r.op \notin {"bot_delete", "bot_purge"}
    \/ r.op \in {"approve", "publish_now", "bot_approve", "bot_now"} /\ view.approved
    \/ r.op = "schedule" /\ view.up
    \/ r.op = "cancel" /\ view.up

\* A bot's deletion of what is gone goes on to mark the card.
ReadRow(s) ==
    LET r == desk[s] IN
    /\ Takes(s, "read")
    /\ desk' = [desk EXCEPT ![s] = IF Refused(r, row) THEN Nobody
                                   ELSE IF ~row.exists THEN [r EXCEPT !.steps = <<"fresh", "mark">>]
                                   ELSE [Rest(r) EXCEPT !.view = row]]
    /\ UNCHANGED <<row, versions, post, cards, queue, deskFaults, worked, was, excused>>

NextNumber == 1 + Max({0} \cup {v.number : v \in ToSet(versions)})

\* The slip: what is kept is what the row is about to become.
SnapshotAfterwards(s) ==
    LET r == desk[s] IN
    /\ Takes(s, "snapshot")
    /\ Goes(s, [Rest(r) EXCEPT !.snap = <<[number |-> NextNumber, text |-> r.value]>>])
    /\ UNCHANGED <<row, versions, post, cards, queue, deskFaults, worked, was, excused>>

\* VersionService.snapshot: the number after the greatest, and the row as read.
Snapshot(s) ==
    LET r == desk[s] IN
    /\ Takes(s, "snapshot")
    /\ Goes(s, [Rest(r) EXCEPT !.snap = <<[number |-> NextNumber, text |-> r.view.text]>>])
    /\ UNCHANGED <<row, versions, post, cards, queue, deskFaults, worked, was, excused>>

\* delete_published: whatever Telegram answers, the ids are dropped.
Takedown(s) ==
    LET r == desk[s] IN
    /\ Takes(s, "takedown")
    /\ Goes(s, IF r.view.up THEN [Rest(r) EXCEPT !.new = [up |-> FALSE]] ELSE Rest(r))
    /\ IF r.view.up
       THEN \/ /\ post' = NoText
               /\ UNCHANGED <<deskFaults, excused>>
            \/ /\ Fault("edit")
               /\ excused' = excused \cup {"post"}
               /\ UNCHANGED post
       ELSE UNCHANGED <<post, deskFaults, excused>>
    /\ UNCHANGED <<row, versions, cards, queue, worked, was>>

\* What the handler sets.
Sets(r) ==
    CASE r.op \in TextWork -> [text |-> r.value]
      [] r.op = "approve" ->
             [status |-> IF r.value = "unqueued" THEN "pending" ELSE r.value, approved |-> r.value = "scheduled"]
      [] r.op = "publish_now" -> [status |-> "approved", approved |-> TRUE]
      [] r.op \in {"reject", "bot_reject"} -> [status |-> "rejected"]
      [] r.op = "schedule" -> [status |-> "scheduled"]
      [] r.op = "cancel" -> IF r.view.status = "scheduled" THEN [status |-> "pending"] ELSE Nothing
      [] r.op \in {"unpublish", "bot_unpublish"} -> [status |-> "withdrawn"]
      [] r.op \in {"delete", "bot_delete", "bot_purge"} -> [exists |-> FALSE]

Changed(r) == {c \in DOMAIN r.new : r.new[c] # r.view[c]}
Deletes(r) == "exists" \in DOMAIN r.new

\* The UPDATE or DELETE, or the SELECT FOR UPDATE before it, takes the row's
\* lock; an UPDATE of a row that is gone is an error.  publish_now enqueues
\* its task here, before it commits.
Write(s) ==
    LET r == [Rest(desk[s]) EXCEPT !.new = Over(Sets(desk[s]), desk[s].new)]
        locks == Changed(r) # {} \/ r.op \in {"approve", "publish_now"} IN
    /\ Takes(s, "write")
    /\ locks => LockFree(s)
    /\ Goes(s, IF row.exists \/ Deletes(r) THEN [r EXCEPT !.locked = locks] ELSE Nobody)
    /\ queue' = IF r.op = "publish_now" /\ row.exists THEN [queue EXCEPT !.publish = Append(@, 0)] ELSE queue
    /\ UNCHANGED <<row, versions, post, cards, deskFaults, worked, was, excused>>

\* The slip: the post is rendered before the change.
EditPostAsRead(r) == r.view.text

EditPostAs(r) == Own(r).text

\* edit_published: a message that is gone cannot be edited.
EditPost(s) ==
    LET r == desk[s] IN
    /\ Takes(s, "post")
    /\ Goes(s, Rest(r))
    /\ IF r.view.up
       THEN \/ /\ post' = IF post = NoText THEN NoText ELSE EditPostAs(r)
               /\ UNCHANGED <<deskFaults, excused>>
            \/ /\ Fault("edit")
               /\ excused' = excused \cup {"post"}
               /\ UNCHANGED post
       ELSE UNCHANGED <<post, deskFaults, excused>>
    /\ UNCHANGED <<row, versions, cards, queue, worked, was>>

\* The slip: the keyboard of the row as it was read.
ButtonsAsRead(r) == IF r.op = "delete" THEN {} ELSE Offers(r.view)

\* keep_buttons: not on a card of what is deleted or approved in every city.
Buttons(r) == IF r.op = "delete" \/ (r.op = "approve" /\ r.value = "scheduled") THEN {} ELSE Offers(Own(r))

\* update_card, by the row the session has; an error is logged and forgotten.
UpdateCard(s) ==
    LET r == desk[s] IN
    /\ Takes(s, "card")
    /\ Goes(s, Rest(r))
    /\ IF r.view.card = 0
       THEN UNCHANGED <<cards, deskFaults, excused>>
       ELSE \/ /\ cards' = [cards EXCEPT ![r.view.card] = Card(Own(r), Buttons(r))]
               /\ UNCHANGED <<deskFaults, excused>>
            \/ /\ Fault("card")
               /\ excused' = excused \cup {"card"}
               /\ UNCHANGED cards
    /\ UNCHANGED <<row, versions, post, queue, worked, was>>

\* get_session, session_scope: the columns that were changed are written over
\* whatever the row is now.  An approval at once is dispatched after that.
Commit(s) ==
    LET r == desk[s]
        gone == ~row.exists /\ ~Deletes(r)
        new == [c \in Columns |-> IF c \in Changed(r) THEN r.new[c] ELSE row[c]] IN
    /\ Takes(s, "commit")
    /\ Goes(s, IF gone THEN Nobody ELSE [Rest(r) EXCEPT !.locked = FALSE])
    /\ IF gone
       THEN UNCHANGED <<row, versions, queue, was, excused>>
       ELSE /\ row' = new
            /\ versions' = IF new.exists THEN versions \o r.snap ELSE <<>>
            /\ queue' = IF r.op = "approve" /\ r.value = "approved"
                        THEN [queue EXCEPT !.publish = Append(@, 0)] ELSE queue
            /\ was' = was \cup {new.text}
            /\ excused' = IF r.op \in {"restore", "regenerate"} /\ row.up /\ "text" \in Changed(r)
                          THEN excused \cup {"post"} ELSE excused
    /\ UNCHANGED <<post, cards, deskFaults, worked>>

\* A request that fails is rolled back; what Telegram was told stays told.
RequestFails(s) ==
    LET r == desk[s] IN
    /\ r.op \in Work /\ r.steps # <<>> /\ Head(r.steps) # "read"
    /\ Fault("abort")
    /\ Goes(s, Nobody)
    /\ excused' = excused \cup (Spoils(r.op) \ {"text"})
    /\ UNCHANGED <<row, versions, post, cards, queue, worked, was>>

\* AIService.process raises; the version goes with the rest.
RewriteFails(s) ==
    /\ desk[s].op = "regenerate" /\ Takes(s, "write")
    /\ Fault("ai")
    /\ Goes(s, Nobody)
    /\ UNCHANGED <<row, versions, post, cards, queue, worked, was, excused>>

-------------------------------------------------------------------------------
(* The bot. *)

\* _approve reads under the lock, and nobody sees what it does before it commits.
Take(s) ==
    LET r == desk[s] IN
    /\ Takes(s, "take")
    /\ LockFree(s)
    /\ IF Refused(r, row)
       THEN /\ Goes(s, Nobody)
            /\ UNCHANGED <<row, queue>>
       ELSE /\ Goes(s, Rest(r))
            /\ row' = [row EXCEPT !.status = r.value, !.approved = r.value = "scheduled"]
            /\ queue' = IF r.value = "approved" THEN [queue EXCEPT !.publish = Append(@, 0)] ELSE queue
    /\ UNCHANGED <<versions, post, cards, deskFaults, worked, was, excused>>

\* _mark_card and _notify_moderation read the row again.
Fresh(s) ==
    LET r == desk[s] IN
    /\ Takes(s, "fresh")
    /\ Goes(s, IF r.op = "notify" /\ ~row.exists THEN Nobody ELSE [Rest(r) EXCEPT !.view = row, !.new = Nothing])
    /\ UNCHANGED <<row, versions, post, cards, queue, deskFaults, worked, was, excused>>

\* update_card, or else a line under the card that was pressed and its buttons anew.
Mark(s) ==
    LET r == desk[s]
        keeps == r.op \notin {"bot_delete", "bot_purge"}
        rebuilt == [cards EXCEPT ![r.view.card] = Card(r.view, IF keeps THEN Offers(r.view) ELSE {})]
        patched == [cards EXCEPT ![r.card].offers = IF keeps /\ row.exists THEN Offers(row) ELSE {}] IN
    /\ Takes(s, "mark")
    /\ Goes(s, Rest(r))
    /\ \/ /\ cards' = IF r.view.exists /\ r.view.card # 0 THEN rebuilt ELSE patched
          /\ UNCHANGED <<deskFaults, excused>>
       \/ /\ Fault("card")
          /\ cards' \in {cards, patched}
          /\ excused' = excused \cup {"card"}
    /\ UNCHANGED <<row, versions, post, queue, worked, was>>

-------------------------------------------------------------------------------
(* The tasks. *)

\* publish() reads under the lock, and keeps it.  What is in the channel stays.
BeginPublication(s) ==
    LET r == desk[s] IN
    /\ Takes(s, "begin")
    /\ LockFree(s)
    /\ desk' = [desk EXCEPT ![s] = IF ~row.exists THEN Nobody
                                   ELSE [r EXCEPT !.view = row, !.locked = TRUE,
                                                  !.steps = IF row.up THEN <<"commit", "card">> ELSE Tail(@)]]
    /\ UNCHANGED <<row, versions, post, cards, queue, deskFaults, worked, was, excused>>

Show(s) ==
    LET r == desk[s] IN
    /\ Takes(s, "show")
    /\ post' = r.view.text
    /\ Goes(s, [Rest(r) EXCEPT !.new = [up |-> TRUE, status |-> "published", approved |-> TRUE]])
    /\ UNCHANGED <<row, versions, cards, queue, deskFaults, worked, was, excused>>

\* The slip: one retry more.
RetriesOnceMore(attempt) == attempt <= PublishRetries

Retries(attempt) == attempt < PublishRetries

\* Telegram refuses the post: rolled back and retried; given up, it leaves the
\* card of an item published from the panel as it was.
RefusesPost(s) ==
    LET r == desk[s] IN
    /\ Takes(s, "show")
    /\ Fault("refuse")
    /\ Goes(s, Nobody)
    /\ IF Retries(r.value)
       THEN /\ queue' = [queue EXCEPT !.publish = Append(@, r.value + 1)]
            /\ UNCHANGED excused
       ELSE /\ excused' = excused \cup {"card"}
            /\ UNCHANGED queue
    /\ UNCHANGED <<row, versions, post, cards, worked, was>>

\* send_moderation_card.
SendCard(s) ==
    LET r == desk[s] IN
    /\ Takes(s, "offer")
    /\ \/ /\ cards' = Append(cards, Card(r.view, Offers(r.view)))
          /\ Goes(s, [Rest(r) EXCEPT !.card = Len(cards) + 1])
          /\ UNCHANGED deskFaults
       \/ /\ Fault("card")
          /\ Goes(s, Nobody)
          /\ UNCHANGED cards
    /\ UNCHANGED <<row, versions, post, queue, worked, was, excused>>

KeepCard(s) ==
    LET r == desk[s] IN
    /\ Takes(s, "keep")
    /\ LockFree(s)
    /\ Goes(s, Nobody)
    /\ row' = IF row.exists THEN [row EXCEPT !.card = r.card] ELSE row
    /\ UNCHANGED <<versions, post, cards, queue, deskFaults, worked, was, excused>>

-------------------------------------------------------------------------------
Asked(s) ==
    \/ \E text \in Texts : EditNews(s, text) \/ RegenerateNews(s, text)
    \/ \E slot \in {"approved", "scheduled", "unqueued"} : ApproveNews(s, slot)
    \/ RestoreVersion(s) \/ RejectNews(s) \/ ScheduleNews(s) \/ CancelSchedule(s)
    \/ UnpublishNews(s) \/ DeleteNews(s) \/ PublishNow(s)

Step(s) ==
    \/ ReadRow(s) \/ Snapshot(s) \/ Takedown(s) \/ Write(s) \/ EditPost(s) \/ UpdateCard(s) \/ Commit(s)
    \/ RequestFails(s) \/ RewriteFails(s)
    \/ Take(s) \/ Fresh(s) \/ Mark(s)
    \/ BeginPublication(s) \/ Show(s) \/ RefusesPost(s)
    \/ SendCard(s) \/ KeepCard(s)

Next ==
    \/ \E s \in Sessions :
        \/ Asked(s) \/ PublishTask(s) \/ NotifyTask(s) \/ Step(s)
        \/ \E k \in 1..Len(cards) : \E button \in cards[k].offers : Press(s, k, button)
    \/ BulkDelete \/ SendToModeration \/ BeatEnqueues

Spec == Init /\ [][Next]_deskVars

-------------------------------------------------------------------------------
(* Properties. *)

\* Every variable keeps its type: no card is kept that was not sent, and no
\* publication is retried more often than max_retries (tasks.py).
TypeOK ==
    /\ row \in Row /\ row.card <= Len(cards)
    /\ \A v \in ToSet(versions) : v.text \in Texts /\ v.number \in Nat \ {0}
    /\ post \in Texts \cup {NoText}
    /\ Len(cards) <= MaxCards
    /\ \A c \in ToSet(cards) : c.text \in Texts /\ c.status \in Statuses /\ c.offers \subseteq DOMAIN Presses
    /\ \A s \in Sessions : desk[s].view \in Row /\ (desk[s].locked => ~\E t \in Sessions \ {s} : desk[t].locked)
    /\ queue.notify \in Nat /\ queue.publish \in Seq(0..PublishRetries)
    /\ \A s \in Sessions : desk[s].op = "publish_news" => desk[s].value \in 0..PublishRetries
    /\ deskFaults \in 0..MaxDeskFaults /\ worked \in 0..MaxWork
    /\ was \subseteq Texts /\ excused \subseteq {"text", "post", "card"}

\* What a version holds the row has held; and unless two changes of the text
\* overlapped, every text the row has held is there still, in the row or in a
\* version that can be told from the others: a restore, a rewrite by the AI and
\* whatever fails half-way can be undone (VersionService).
VersionsKeepAll ==
    LET kept == {v.text : v \in ToSet(versions)} IN
    /\ kept \subseteq was
    /\ row.exists /\ "text" \notin excused =>
        /\ was \subseteq kept \cup {row.text}
        /\ \A n \in 1..Len(versions) : versions[n].number = n

Quiet(kind) == kind \notin excused /\ \A s \in Sessions : kind \notin Spoils(desk[s].op)

\* When nobody is at work on the post and nothing went wrong, the channel shows
\* the text of the row, and nothing of an item withdrawn or deleted, whatever
\* old cards were pressed and publications retried (edit_published,
\* delete_published, publish).
PostIsCurrent ==
    Quiet("post") => post = IF row.exists /\ row.up THEN row.text ELSE NoText

\* When nobody is at work on the card and nothing went wrong, the item's card
\* shows its status and offers only what the status allows; the card by which
\* an item was deleted, its own or an older one, offers nothing (update_card,
\* _mark_card).
CardFits ==
    Quiet("card") /\ row.card # 0 /\ queue.publish = <<>> =>
        IF row.exists
        THEN cards[row.card].status = row.status /\ cards[row.card].offers \subseteq Offers(row)
        ELSE \E c \in ToSet(cards) : c.offers = {}

(* What overlapping handlers, old cards and changes unshown make of these. *)

Still == queue.publish = <<>> /\ queue.notify = 0 /\ \A s \in Sessions : desk[s].op = "none"

\* A card is rebuilt after every decision, so that its status always matches
\* the panel's (the comment of _mark_card).
CardAlwaysMatches == Still /\ row.exists /\ row.card # 0 => cards[row.card].status = row.status

\* The published post is kept in sync with the news (update_news).
PostAlwaysMatches == Still /\ row.exists /\ row.up => post = row.text

\* A version is asked for by its number (restore_version).
NumbersDiffer == \A m, n \in 1..Len(versions) : versions[m].number = versions[n].number => m = n

\* No text is overwritten that no version keeps (VersionService.restore: what
\* is rolled back can be brought back).
NoTextLost == row.exists => was \subseteq {row.text} \cup {v.text : v \in ToSet(versions)}

\* No card in the group offers to decide on what is deleted.
NoButtonsLeft == Still /\ ~row.exists => \A c \in ToSet(cards) : c.offers = {}
===============================================================================
