-------------------------- MODULE MCPublishQueue --------------------------
(***************************************************************************)
(* Instances of the publication queue for TLC: items of moscow, of perm    *)
(* and of both, and one of kazan that somebody schedules by hand.          *)
(***************************************************************************)
EXTENDS PublishQueue, TLC

CONSTANTS moscow, perm, kazan, iM1, iM2, iP, iMP, iK

\* iM1 and iM2 go to moscow, iP to perm and iK to kazan, iMP to moscow and perm.
MCTargetsOf == [i \in Items |-> CASE i \in {iM1, iM2} -> {moscow}
                                  [] i = iP -> {perm}
                                  [] i = iK -> {kazan}
                                  [] OTHER -> {moscow, perm}]
==========================================================================
