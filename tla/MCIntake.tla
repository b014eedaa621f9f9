------------------------------- MODULE MCIntake -------------------------------
(* Constants for TLC: two sources, one bound to moscow and perm, one global. *)
EXTENDS Intake, TLC

CONSTANTS moscow, perm, world, nobucket, nocity, nostory, regional, wire, reader, h1, h2,
          named, federal, abroad, late, fire, flood, rates

NoWords == [c \in Cities |-> 0]
Plain == [keywords |-> NoWords, extra |-> NoWords, named |-> {}, vetoed |-> {}, region |-> {},
          russia |-> FALSE, world |-> FALSE, elsewhere |-> FALSE]

\* The feed of regional: `named` is about moscow and a city nobody monitors;
\* `federal` is about the country and names perm with a word that excludes it;
\* `late` has no date and is about the region, with too little of perm to be
\* perm's.  The feed of wire: `abroad` is world news, the same story as `late`.
MCTextOf == [i \in Items |->
    CASE i = named   -> [Plain EXCEPT !.named = {moscow}, !.elsewhere = TRUE]
      [] i = federal -> [Plain EXCEPT !.named = {perm}, !.vetoed = {perm}, !.russia = TRUE]
      [] i = late    -> [Plain EXCEPT !.region = {moscow, perm}, !.extra = [NoWords EXCEPT ![perm] = 1]]
      [] i = abroad  -> [Plain EXCEPT !.world = TRUE]]
MCSourceOf == [i \in Items |-> IF i = abroad THEN wire ELSE regional]
MCStoryOf == [i \in Items |-> CASE i = named -> fire [] i = federal -> rates [] OTHER -> flood]
MCLinkedTo == [s \in Sources |-> IF s = regional THEN {moscow, perm} ELSE {}]
\* Two sources; one source with faults, or with panel operations; letters.
Start(sources, t, messages, o, f, e) ==
    [sources |-> sources, now |-> t, messages |-> messages, ops |-> o, faults |-> f, events |-> e]

MCSettings ==
    {Start({regional, wire}, 0, 0, MaxOps, MaxFaults, MaxEvents),
     Start({regional}, 0, 0, MaxOps, 0, MaxEvents),
     Start({wire}, 0, 0, MaxOps, 0, MaxEvents),
     Start({regional}, 0, 0, 0, MaxFaults, MaxEvents),
     Start({}, MaxNow, MaxRuns, MaxOps, MaxFaults, 0)}

\* Everything at once, and letters alone with the sources there.
MCTogether == {Start(Sources, 0, 0, 0, 0, 0)}
===============================================================================
