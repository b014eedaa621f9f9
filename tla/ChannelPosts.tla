--------------------------- MODULE ChannelPosts ---------------------------
(***************************************************************************)
(* What the publication of one item promises to the readers of the         *)
(* channels: a channel shows the item at most once, and only after someone *)
(* who may decide its city has approved the item for it.  Nothing is said  *)
(* of rows, locks, tasks or retries.                                       *)
(***************************************************************************)
EXTENDS Naturals

CONSTANTS
    Cities,
    Chats,
    CityOf

VARIABLES
    granted,   \* the cities the item is approved for
    shown      \* shown[c]: how often channel c shows it

Init ==
    /\ granted \in SUBSET Cities
    /\ shown = [c \in Chats |-> 0]

Grant(C) ==
    /\ granted' = granted \cup C
    /\ UNCHANGED shown

Post(c) ==
    /\ shown[c] = 0
    /\ CityOf[c] \in granted
    /\ shown' = [shown EXCEPT ![c] = 1]
    /\ UNCHANGED granted

Withdraw(S) ==
    /\ shown' = [c \in Chats |-> IF c \in S THEN 0 ELSE shown[c]]
    /\ UNCHANGED granted

Next ==
    \/ \E C \in SUBSET Cities : Grant(C)
    \/ \E c \in Chats : Post(c)
    \/ \E S \in SUBSET Chats : Withdraw(S)

Spec == Init /\ [][Next]_<<granted, shown>>
=============================================================================
