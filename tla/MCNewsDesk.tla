----------------------------- MODULE MCNewsDesk -----------------------------
(* Constants for TLC: two handlers at once, and an item that waits, with or   *)
(* without its card, or is in the channel. *)
EXTENDS NewsDesk, TLC

CONSTANTS t1, t2, t3, s1, s2

\* The first text is the one the item has at the start.
DeskSymmetry == Permutations(Sessions) \cup Permutations({t2, t3})

Waiting == [exists |-> TRUE, text |-> t1, status |-> "pending", approved |-> FALSE, up |-> FALSE, card |-> 1]
Shown == [Waiting EXCEPT !.status = "published", !.approved = TRUE, !.up = TRUE]
Start(r, faults, work) == [row |-> r, faults |-> faults, work |-> work]

Everything ==
    {"edit", "restore", "regenerate", "approve", "reject", "schedule", "cancel", "unpublish",
     "delete", "publish_now", "press", "bulk", "send"}

MCReady == {Start(r, MaxDeskFaults - f, f) : r \in {Waiting, Shown, [Waiting EXCEPT !.card = 0]}, f \in 0..2}
OnePending == {Start(Waiting, 0, 0)}
OneShown == {Start(Shown, 0, 0)}
=============================================================================
