-------------------------- MODULE MCPublication --------------------------
(***************************************************************************)
(* Instances of the publication model for TLC: two cities, a channel in    *)
(* each (or only in the first), and the moderators of each run.            *)
(***************************************************************************)
EXTENDS PublicationProperties, TLC

CONSTANTS moscow, perm, chM, chP, s1, s2, s3

MCCityOf   == [c \in Chats |-> IF c = chM THEN moscow ELSE perm]

\* Both moderators decide every city, or each one city, or only the first all.
FullScope  == [s \in Sessions |-> Cities]
SplitScope == [s \in Sessions |-> IF s = s1 THEN {moscow} ELSE {perm}]
FirstFull  == [s \in Sessions |-> IF s = s1 THEN Cities ELSE {perm}]
PermOnly   == [s \in Sessions |-> {perm}]

\* What the moderators do.
Each(S) == [s \in Sessions |-> S]
BotWork        == [s \in Sessions |-> IF s \in Panel THEN {"edit", "bulkDelete"}
                                      ELSE {"approve", "now", "reject"}]
ApproveOnlyBot == Each({"approve", "now"})
PanelWork      == Each({"approve", "approveOnly", "now", "publish", "schedule",
                        "bulkDelete"})
DeleteWork     == Each({"now", "publish", "delete", "reject"})
ScheduleWork   == Each({"approve", "schedule"})
EditWork       == Each({"schedule", "edit"})
JustApprove    == Each({"approve"})
JustPublish    == Each({"publish"})
JustSchedule   == Each({"schedule"})
RejectWork     == Each({"approve", "reject"})
LiveWork       == Each({"approve", "now", "unpublish"})
WithdrawWork   == Each({"now", "unpublish"})

TaskSymmetry == Permutations(Tasks)
==========================================================================
