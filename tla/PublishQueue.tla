---------------------------- MODULE PublishQueue ----------------------------
(***************************************************************************)
(* The publication queue: what spaces the posts of a channel apart.        *)
(* Approving an item calls _schedule_publication, which lets it go out at  *)
(* once or gives it the first slot that is publish_interval_minutes after  *)
(* everything waiting or recently published in the same cities.  Beat      *)
(* enqueues what is due.                                                   *)
(*                                                                         *)
(* NewsPublication follows one item and takes its slot as a choice; here   *)
(* there are many items, each with a channel per target city, and a        *)
(* publication is one step that succeeds.  The unit of time is the minute. *)
(*                                                                         *)
(* An approval locks only its own item: it reads the queue as committed    *)
(* (ReadsQueue) and then commits what it computed (CommitsSlot), while     *)
(* other moderators do the same for other items.                           *)
(***************************************************************************)
EXTENDS Integers, FiniteSets

CONSTANTS
    Items,
    Cities,
    TargetsOf,    \* TargetsOf[i]: news.target_cities
    Urgent,       \* the items with publish_immediately
    ByHand,       \* the items somebody may schedule by hand in the panel
    Interval,     \* pipeline.publish_interval_minutes
    Moderators,
    Partial,      \* whether a moderator may decide only some of an item's cities
    Lag,          \* by how many minutes beat and the publication may be late
    LastApproval, \* no approval begins after this instant, and a slot given by hand
                  \* is at most an interval later (bound)
    MaxNow        \* the last instant of the clock (bound)

ASSUME QueueAssumption ==
    /\ TargetsOf \in [Items -> (SUBSET Cities) \ {{}}]
    /\ Urgent \subseteq Items
    /\ ByHand \subseteq Items \ Urgent
    /\ Interval \in Nat
    /\ Partial \in BOOLEAN
    /\ {Lag, LastApproval} \subseteq Nat /\ MaxNow \in Nat \ {0}

VARIABLES
    status,     \* news.status
    slot,       \* news.scheduled_at, 0 for NULL
    approved,   \* news.approved_city_ids
    processed,  \* news.processed_at, 0 for NULL
    published,  \* news.published_at, 0 for NULL
    tasks,      \* the publish_news calls in the broker
    draft,      \* draft[m]: the approval moderator m's transaction is computing
    now,
    posted      \* posted[i][c]: when city c got item i, 0 for never

rows == <<status, slot, approved, processed, published>>
vars == <<rows, tasks, draft, now, posted>>

-----------------------------------------------------------------------------
Status == {"pending", "approved", "scheduled", "published"}
Calls  == [item : Items, cities : SUBSET Cities]

\* A slot of 0 says that the item goes out at once.
Drafts == [item : Items, cities : SUBSET Cities, slot : Nat]
NoDraft == [item |-> "none"]

TypeOK ==
    /\ status \in [Items -> Status]
    /\ slot \in [Items -> Nat]
    /\ approved \in [Items -> SUBSET Cities]
    /\ processed \in [Items -> Nat]
    /\ published \in [Items -> Nat]
    /\ tasks \subseteq Calls
    /\ draft \in [Moderators -> Drafts \cup {NoDraft}]
    /\ now \in 1..MaxNow
    /\ posted \in [Items -> [Cities -> Nat]]
    /\ \A i \in Items : status[i] = "scheduled" => slot[i] # 0

Init ==
    /\ status = [i \in Items |-> "pending"]
    /\ slot = [i \in Items |-> 0]
    /\ approved = [i \in Items |-> {}]
    /\ processed = [i \in Items |-> 0]
    /\ published = [i \in Items |-> 0]
    /\ tasks = {}
    /\ draft = [m \in Moderators |-> NoDraft]
    /\ now = 1
    /\ posted = [i \in Items |-> [c \in Cities |-> 0]]

-----------------------------------------------------------------------------
(* _schedule_publication *)

\* The items with a target among the cities C: _same_channel_condition.  The slip is the
\* query without it.
AllItems(C) == Items
Sharing(C) == {i \in Items : TargetsOf[i] \cap C # {}}

\* The instants a new slot of item i in C keeps its distance from: the slots still to come,
\* the publications, and the approvals that may not be published yet.  The item itself
\* counts as published, and as waiting if it is in Q: the panel has flushed its new status
\* before the query runs, the bot has not.
Waiting(C, Q) == {slot[j] : j \in {k \in Q \cap Sharing(C) : status[k] = "scheduled" /\ slot[k] >= now}}
Published(C) == {published[j] : j \in {k \in Sharing(C) : published[k] # 0}}
Dispatched(i, C) ==
    {processed[j] : j \in {k \in Sharing(C) \ {i} :
        status[k] = "approved" /\ processed[k] # 0 /\ processed[k] >= now - Interval}}

\* Slips: a helper that looks only back, and one that looks only ahead.
PublishedOnly(i, C, Q) == Published(C) \cup Dispatched(i, C)
WaitingOnly(i, C, Q) == Waiting(C, Q)
Markers(i, C, Q) == Waiting(C, Q) \cup Published(C) \cup Dispatched(i, C)

\* The latest of now and of every marker plus the interval.  The slip adds it twice.
TwiceTheGap(s, M) ==
    /\ s = now \/ \E m \in M : s = m + 2 * Interval
    /\ s >= now
    /\ \A m \in M : s >= m + 2 * Interval
NextSlot(s, M) ==
    /\ s = now \/ \E m \in M : s = m + Interval
    /\ s >= now
    /\ \A m \in M : s >= m + Interval

JumpsQueue(i) == i \in Urgent \/ Interval = 0

-----------------------------------------------------------------------------
(* Approvals, in the bot or the panel. *)

\* The cities moderator m decides of those of item i that are left.
MayDecide(i, C) ==
    LET left == TargetsOf[i] \ approved[i]
    IN  C # {} /\ C \subseteq left /\ (Partial \/ C = left)

Unlocked(i) == \A m \in Moderators : draft[m].item # i

\* An approval begins: the row of the item is locked, the queue is read.  The panel asks
\* for a new slot only if the item has none to come.
ReadsQueue(m, i, C, Q, s) ==
    /\ draft[m] = NoDraft
    /\ now <= LastApproval
    /\ Unlocked(i)
    /\ MayDecide(i, C)
    /\ Q = Items \/ (Q = Items \ {i} /\ slot[i] <= now)
    /\ IF JumpsQueue(i) THEN s = now ELSE NextSlot(s, Markers(i, C, Q))
    /\ draft' = [draft EXCEPT ![m] =
                    [item |-> i, cities |-> C, slot |-> IF s <= now THEN 0 ELSE s]]
    /\ UNCHANGED <<rows, tasks, now, posted>>

ForgetsStatus(i) == slot' = [slot EXCEPT ![i] = 0] /\ UNCHANGED status
GoesAtOnce(i) ==
    /\ slot' = [slot EXCEPT ![i] = 0]
    /\ status' = [status EXCEPT ![i] = "approved"]

\* Nothing published recently and an empty queue: it goes out at once, ...
CommitsNow(m) ==
    LET i == draft[m].item
    IN  /\ draft[m] # NoDraft
        /\ draft[m].slot = 0
        /\ GoesAtOnce(i)
        /\ processed' = [processed EXCEPT ![i] = now]
        /\ tasks' = tasks \cup {[item |-> i, cities |-> draft[m].cities]}
        /\ draft' = [draft EXCEPT ![m] = NoDraft]
        /\ UNCHANGED <<approved, published, now, posted>>

StaysApproved(i) == status' = [status EXCEPT ![i] = "approved"]
BecomesScheduled(i) == status' = [status EXCEPT ![i] = "scheduled"]

\* ... or it waits for its slot.
CommitsSlot(m) ==
    LET i == draft[m].item
    IN  /\ draft[m] # NoDraft
        /\ draft[m].slot # 0
        /\ BecomesScheduled(i)
        /\ slot' = [slot EXCEPT ![i] = draft[m].slot]
        /\ approved' = [approved EXCEPT ![i] = @ \cup draft[m].cities]
        /\ processed' = [processed EXCEPT ![i] = now]
        /\ draft' = [draft EXCEPT ![m] = NoDraft]
        /\ UNCHANGED <<published, tasks, now, posted>>

\* The panel keeps a slot that is still to come and adds the cities to it.
KeepsSlot(i, C) ==
    /\ now <= LastApproval
    /\ Unlocked(i)
    /\ MayDecide(i, C)
    /\ slot[i] > now
    /\ status' = [status EXCEPT ![i] = "scheduled"]
    /\ approved' = [approved EXCEPT ![i] = @ \cup C]
    /\ processed' = [processed EXCEPT ![i] = now]
    /\ UNCHANGED <<slot, published, tasks, draft, now, posted>>

\* schedule_news
SchedulesByHand(i, at) ==
    /\ i \in ByHand
    /\ now <= LastApproval
    /\ Unlocked(i)
    /\ \A c \in Cities : posted[i][c] = 0
    /\ at > now
    /\ status' = [status EXCEPT ![i] = "scheduled"]
    /\ slot' = [slot EXCEPT ![i] = at]
    /\ processed' = [processed EXCEPT ![i] = IF @ = 0 THEN now ELSE @]
    /\ UNCHANGED <<approved, published, tasks, draft, now, posted>>

-----------------------------------------------------------------------------
(* Beat, the workers and the clock. *)

\* A call with no cities approved means all of them.
CallCities(i) == IF approved[i] = {} THEN TargetsOf[i] ELSE approved[i]

Due == {i \in Items : status[i] = "scheduled" /\ slot[i] # 0 /\ slot[i] <= now}

\* publish_scheduled_news: all that is due, with the approved cities or, for want of any,
\* with all.
BeatEnqueues ==
    LET calls == {[item |-> i, cities |-> CallCities(i)] : i \in Due}
    IN  /\ ~(calls \subseteq tasks)
        /\ tasks' = tasks \cup calls
        /\ UNCHANGED <<rows, draft, now, posted>>

\* publish_news: the channels that do not have the item yet.  It waits for the row lock.
Publishes(call) ==
    LET i == call.item
        missing == {c \in call.cities \cap TargetsOf[i] : posted[i][c] = 0}
    IN  /\ call \in tasks
        /\ Unlocked(i)
        /\ tasks' = tasks \ {call}
        /\ IF missing = {}
             THEN UNCHANGED <<status, approved, published, posted>>
             ELSE /\ posted' = [posted EXCEPT ![i] =
                                  [c \in Cities |-> IF c \in missing THEN now ELSE @[c]]]
                  /\ published' = [published EXCEPT ![i] = now]
                  /\ status' = [status EXCEPT ![i] = "published"]
                  /\ approved' = [approved EXCEPT ![i] =
                                    @ \cup (call.cities \cap TargetsOf[i])]
        /\ UNCHANGED <<slot, processed, draft, now>>

\* A transaction takes no minute, and nothing is later than Lag.
Tick ==
    /\ now < MaxNow
    /\ \A m \in Moderators : draft[m] = NoDraft
    /\ tasks = {}
    /\ \A i \in Due : slot[i] + Lag > now
    /\ now' = now + 1
    /\ UNCHANGED <<rows, tasks, draft, posted>>

Approval(m) ==
    \/ \E i \in Items, s \in 1..(MaxNow + Interval) :
          \E C \in SUBSET TargetsOf[i], Q \in {Items, Items \ {i}} : ReadsQueue(m, i, C, Q, s)
    \/ CommitsNow(m)
    \/ CommitsSlot(m)

Next ==
    \/ \E m \in Moderators : Approval(m)
    \/ \E i \in Items : \E C \in SUBSET TargetsOf[i] : KeepsSlot(i, C)
    \/ \E i \in Items, at \in 1..(LastApproval + Interval) : SchedulesByHand(i, at)
    \/ BeatEnqueues
    \/ \E call \in tasks : Publishes(call)
    \/ Tick

Spec == Init /\ [][Next]_vars

\* Beat and the workers run, a transaction that was begun ends, time passes.  Weak fairness
\* would not do for publish_news, which is disabled while a moderator holds the row: the
\* database serves those who wait for a row in turn.
Fairness ==
    /\ \A m \in Moderators : WF_vars(CommitsNow(m) \/ CommitsSlot(m))
    /\ WF_vars(BeatEnqueues)
    /\ SF_vars(\E call \in tasks : Publishes(call))
    /\ WF_vars(Tick)

FairSpec == Spec /\ Fairness

-----------------------------------------------------------------------------
(* Properties.  They hold when approvals come one at a time and decide all   *)
(* cities of an item, and nothing scheduled by hand shares its channels;     *)
(* PostsApart also needs beat to be punctual.  The tests of the repository   *)
(* (test_publish_queue.py) are all of that kind.                             *)

Apart(t, u) == t + Interval <= u \/ u + Interval <= t

\* Items that wait for the same channel have slots an interval apart, so that several
\* approvals do not flood it (_schedule_publication).
SlotsApart ==
    \A i, j \in Items :
        /\ i # j
        /\ status[i] = "scheduled" /\ status[j] = "scheduled"
        /\ slot[i] >= now /\ slot[j] >= now
        /\ CallCities(i) \cap CallCities(j) # {}
        => Apart(slot[i], slot[j])

\* The posts of a channel really are an interval apart, but for the urgent ones.
PostsApart ==
    \A c \in Cities : \A i, j \in Items \ Urgent :
        i # j /\ posted[i][c] # 0 /\ posted[j][c] # 0 => Apart(posted[i][c], posted[j][c])

\* Nobody waits longer than an interval for each item that may have to wait, itself
\* included: an item approved again before its publication has run waits behind those
\* approved in between (the comment on +2*gap in _schedule_publication).
WaitIsBounded ==
    \A i \in Items \ ByHand : status[i] = "scheduled" =>
        slot[i] <= processed[i] + Interval * Cardinality(Items \ (Urgent \cup ByHand))

\* Another item keeps channel c busy: it has just been posted there, is about to be, or
\* waits for its slot.
Busy(c, i) ==
    \E j \in Items \ {i} :
        \/ posted[j][c] # 0 /\ posted[j][c] + Interval > now
        \/ status[j] = "scheduled" /\ c \in CallCities(j)
        \/ \E call \in tasks : call.item = j /\ c \in call.cities

\* An item is made to wait only by others in the channels it is approved for: a post in
\* one city does not delay another (_same_channel_condition).
OwnQueueOnly ==
    [][\A i \in Items \ ByHand :
          status'[i] = "scheduled" /\ status[i] # "scheduled" =>
              \E c \in approved'[i] : Busy(c, i)]_vars

\* A city recorded in approved_city_ids gets its post in the end.
RecordedIsPosted ==
    \A i \in Items, c \in Cities : c \in approved[i] ~> posted[i][c] # 0

\* What is approved or scheduled is posted in the end, in all its cities.
ApprovedIsPosted ==
    \A i \in Items :
        status[i] \in {"approved", "scheduled"} ~>
            \A c \in TargetsOf[i] : posted[i][c] # 0
=============================================================================
