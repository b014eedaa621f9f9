---------------------- MODULE PublicationProperties ----------------------
(***************************************************************************)
(* What the life of a news item should satisfy.  Which of these hold       *)
(* depends on who works on the item and on what fails; the runs of         *)
(* MCPublication say under which CONSTANTS they do.                        *)
(***************************************************************************)
EXTENDS NewsPublication, FiniteSets

\* A channel never shows the item twice: the filter of PublisherService.publish on
\* published_message_ids, under its row lock, holds against double-enqueued tasks,
\* redelivered messages, retries and an expired Redis lock.
NoDoublePost == \A c \in Chats : \A m, n \in live[c] : m = n

\* Every message a channel shows can be taken down: its id is in the row, or in the
\* transaction that is about to record it.
NoOrphanPost ==
    exists => \A c \in Chats : \A m \in live[c] :
                 \/ m = ids[c]
                 \/ \E t \in Tasks : tpc[t] = "sending" /\ posted[t][c] = m

\* The Redis lock lets one execution of publish_news at a time through.
OneExecution == \A t, u \in Tasks : Executing(t) /\ Executing(u) => t = u

\* The item goes only to cities approved by someone who may decide them.
PostedIsGranted == \A c \in Chats : live[c] # {} => CityOf[c] \in granted

\* An approval, once recorded, is never undone by another moderator's request.
ApprovedNeverShrinks == [][approved \subseteq approved']_approved

\* An item in the queue has a time, without which beat never picks it up.
ScheduledHasSlot == exists /\ status = "scheduled" => slot # 0

\* Every channel of the cities in C has the post, as far as the row knows.
HasReached(C) == \A c \in ChannelsOf(C) : ids[c] # 0

\* Nothing is under way for the item: no task, no request, no slot to wait for.
Quiet ==
    /\ \A t \in Tasks : tpc[t] = "free"
    /\ \A s \in Sessions : spc[s] = "idle"
    /\ status # "scheduled"

\* When all is quiet, every city somebody approved has its post, in each of its
\* channels: no approval was dropped on the way.
NothingForgotten ==
    exists /\ Quiet /\ status \in {"approved", "published"} =>
        HasReached(granted \cap targets)

\* An approved item does not stay approved: it is published or someone decides
\* otherwise.
ApprovedSettles == exists /\ status = "approved" ~> ~exists \/ status # "approved"

\* What is approved for a city is posted in the city's channels, unless somebody
\* decides otherwise.
ApprovedIsDelivered ==
    \A c \in Chats :
        CityOf[c] \in granted ~>
            sent[c] # 0 \/ ~exists \/ status \in {"rejected", "withdrawn"}

\* The publication keeps its promise to the readers: every step is an approval, a
\* first post in a channel of an approved city, a withdrawal, or unseen by them.
Promise == INSTANCE ChannelPosts WITH shown <- [c \in Chats |-> Cardinality(live[c])]
KeepsPromise == Promise!Spec

-----------------------------------------------------------------------------
(* What the documentation says of the code, and the code does not do. *)

\* An item is considered fully published only once every channel of its targets has
\* received it.
CoveredIsReceived ==
    exists /\ status = "published" /\ targets \subseteq approved => HasReached(targets)

\* An item rejected is not published before somebody approves it again.
RejectedStaysUnpublished == [][status = "rejected" => status' # "published"]_status

\* A withdrawn item is in no channel once the work in flight is over.
WithdrawnIsDown ==
    exists /\ Quiet /\ status = "withdrawn" => \A c \in Chats : live[c] = {}

\* A withdrawn item can be approved again by a moderator of all its cities.
WithdrawnCanReturn ==
    exists /\ status = "withdrawn" =>
        \A s \in Sessions : targets \subseteq Scope[s] => Decidable(s, Row) # {}

\* An item waiting for its slot can be pushed out at once by such a moderator.
ScheduledCanBePushed ==
    exists /\ status = "scheduled" =>
        \A s \in Sessions : targets \subseteq Scope[s] => Decidable(s, Row) # {}

\* When the last retry is used up, the row says that publication failed.
GivenUpIsRecorded ==
    [][\A t \in Tasks : tpc[t] = "failed" /\ tpc'[t] = "free" /\ exists
          => status' = "failed"]_vars
=============================================================================
