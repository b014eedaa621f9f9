----------------------------- MODULE QueueProofs -----------------------------
(***************************************************************************)
(* What PublishQueue satisfies for any number of items, cities and         *)
(* minutes and any interval, when approvals come one at a time and decide  *)
(* whole items, and what is scheduled by hand has channels of its own.     *)
(***************************************************************************)
EXTENDS PublishQueue, FiniteSetTheorems, WellFoundedInduction, TLAPS

\* The conditions under which the queue keeps its distances.
InTurn ==
  /\ \A m1, m2 \in Moderators : m1 = m2
  /\ ~Partial
  /\ \A i \in ByHand, j \in Items : i # j => TargetsOf[i] \cap TargetsOf[j] = {}

-----------------------------------------------------------------------------
(* Items are decided and posted as a whole. *)

Whole ==
  /\ \A i \in Items : approved[i] \in {{}, TargetsOf[i]}
  /\ \A call \in tasks : call.cities = TargetsOf[call.item]
  /\ \A i \in Items : published[i] # 0 => approved[i] = TargetsOf[i]
  /\ \A i \in Items, c \in Cities : posted[i][c] = IF c \in TargetsOf[i] THEN published[i] ELSE 0
  /\ \A i \in Items \ ByHand : slot[i] # 0 => approved[i] = TargetsOf[i]
  /\ \A i \in Items : status[i] \in {"pending", "approved", "scheduled"} <=> published[i] = 0
  /\ \A i \in Items : published[i] <= now /\ processed[i] <= now
  /\ \A i \in Urgent : status[i] # "scheduled"
  /\ \A m \in Moderators : draft[m] # NoDraft =>
        /\ draft[m].item \in Items /\ draft[m].cities = TargetsOf[draft[m].item]
        /\ approved[draft[m].item] = {}
        /\ draft[m].slot # 0 => draft[m].slot > now /\ draft[m].item \notin Urgent

\* An item is about to be posted.
InFlight(i) == \E call \in tasks : call.item = i

\* What is approved at once is in flight, and what is in flight has just been
\* approved or has come to its slot.
Dispatch ==
  /\ \A i \in Items : status[i] = "approved" => InFlight(i)
  /\ \A i \in Items : InFlight(i) => processed[i] = now \/ status[i] = "scheduled"
  /\ \A i \in Items : InFlight(i) => status[i] \in {"approved", "scheduled"}
  /\ Lag = 0 => \A i \in Items : status[i] = "scheduled" => slot[i] >= now

\* The instants an item lays claim to in its channels.
Claims(i) ==
  {t \in {slot[i], published[i], now} :
               \/ t = slot[i] /\ status[i] = "scheduled" /\ slot[i] >= now
               \/ t = published[i] /\ published[i] # 0 /\ Lag = 0
               \/ t = now /\ InFlight(i) /\ Lag = 0}

Rivals(i, j) == i # j /\ i \notin Urgent /\ j \notin Urgent /\ TargetsOf[i] \cap TargetsOf[j] # {}

\* The instant a moderator is about to give an item.
Granted(m) == IF draft[m].slot = 0 THEN now ELSE draft[m].slot

Spaced ==
  /\ \A i, j \in Items : Rivals(i, j) =>
        \A t \in Claims(i), u \in Claims(j) : Apart(t, u)
  /\ \A m \in Moderators : draft[m] # NoDraft =>
        \A j \in Items : Rivals(draft[m].item, j) =>
            \A u \in Claims(j) : Apart(Granted(m), u)

\* An item that is about to wait does so for another one.
Blamed ==
  \A m \in Moderators : draft[m] # NoDraft /\ draft[m].slot # 0 /\ draft[m].item \notin ByHand =>
      Interval > 0 /\ \E c \in TargetsOf[draft[m].item] : Busy(c, draft[m].item)

QueueInv == TypeOK /\ Whole /\ Dispatch /\ Spaced /\ Blamed

-----------------------------------------------------------------------------
(* Types. *)

LEMMA Constants ==
  /\ \A i \in Items : TargetsOf[i] \in SUBSET Cities /\ TargetsOf[i] # {}
  /\ Urgent \subseteq Items /\ ByHand \subseteq Items \ Urgent
  /\ Interval \in Nat /\ Lag \in Nat /\ LastApproval \in Nat /\ MaxNow \in Nat /\ 1 \in 1..MaxNow
<1>0. TargetsOf \in [Items -> (SUBSET Cities) \ {{}}]
  BY QueueAssumption
<1>1. \A i \in Items : TargetsOf[i] \in SUBSET Cities /\ TargetsOf[i] # {}
  <2> SUFFICES ASSUME NEW i \in Items PROVE TargetsOf[i] \in SUBSET Cities /\ TargetsOf[i] # {}
    OBVIOUS
  <2>1. TargetsOf[i] \in (SUBSET Cities) \ {{}}
    BY <1>0
  <2> QED
    BY <2>1
<1>2. Urgent \subseteq Items /\ ByHand \subseteq Items \ Urgent
  BY QueueAssumption
<1>3. Interval \in Nat /\ Lag \in Nat /\ LastApproval \in Nat /\ MaxNow \in Nat \ {0}
  BY QueueAssumption
<1>4. 1 \in 1..MaxNow
  BY <1>3
<1> QED
  BY <1>1, <1>2, <1>3, <1>4

LEMMA DraftType ==
  ASSUME TypeOK, NEW m \in Moderators, draft[m] # NoDraft
  PROVE  draft[m].item \in Items /\ draft[m].cities \in SUBSET Cities /\ draft[m].slot \in Nat
  BY DEF TypeOK, Drafts

LEMMA TypeInit == Init => TypeOK
  BY Constants DEF Init, TypeOK, Status, Calls

LEMMA TypeStep == TypeOK /\ [Next]_vars => TypeOK'
<1> SUFFICES ASSUME TypeOK, [Next]_vars PROVE TypeOK'
  OBVIOUS
<1> USE Constants
<1>1. ASSUME NEW m \in Moderators, NEW i \in Items, NEW C \in SUBSET TargetsOf[i], NEW Q, NEW s \in 1..(MaxNow + Interval),
             ReadsQueue(m, i, C, Q, s)
      PROVE  TypeOK'
  <2>1. C \in SUBSET Cities /\ s \in Nat
    OBVIOUS
  <2>2. [item |-> i, cities |-> C, slot |-> IF s <= now THEN 0 ELSE s] \in Drafts
    BY <2>1 DEF Drafts
  <2>3. draft' \in [Moderators -> Drafts \cup {NoDraft}]
    BY <1>1, <2>2 DEF ReadsQueue, TypeOK
  <2> QED
    BY <1>1, <2>3 DEF ReadsQueue, TypeOK, rows
<1>2. ASSUME NEW m \in Moderators, CommitsNow(m) PROVE TypeOK'
  <2>1. draft[m].item \in Items /\ draft[m].cities \in SUBSET Cities
    BY <1>2, DraftType DEF CommitsNow
  <2>2. draft' \in [Moderators -> Drafts \cup {NoDraft}] /\ tasks' \subseteq Calls
    BY <1>2, <2>1 DEF CommitsNow, TypeOK, Calls
  <2>3. slot' \in [Items -> Nat] /\ processed' \in [Items -> Nat] /\ status' \in [Items -> Status]
    BY <1>2, <2>1 DEF CommitsNow, TypeOK, GoesAtOnce, Status
  <2>4. \A i \in Items : status'[i] = "scheduled" => slot'[i] # 0
    BY <1>2, <2>1 DEF CommitsNow, TypeOK, GoesAtOnce
  <2> QED
    BY <1>2, <2>2, <2>3, <2>4 DEF CommitsNow, TypeOK
<1>3. ASSUME NEW m \in Moderators, CommitsSlot(m) PROVE TypeOK'
  <2>1. draft[m].item \in Items /\ draft[m].cities \in SUBSET Cities /\ draft[m].slot \in Nat
    BY <1>3, DraftType DEF CommitsSlot
  <2>2. draft' \in [Moderators -> Drafts \cup {NoDraft}] /\ approved' \in [Items -> SUBSET Cities]
    BY <1>3, <2>1 DEF CommitsSlot, TypeOK
  <2>3. slot' \in [Items -> Nat] /\ processed' \in [Items -> Nat] /\ status' \in [Items -> Status]
    BY <1>3, <2>1 DEF CommitsSlot, TypeOK, BecomesScheduled, Status
  <2>4. \A i \in Items : status'[i] = "scheduled" => slot'[i] # 0
    BY <1>3, <2>1 DEF CommitsSlot, TypeOK, BecomesScheduled
  <2> QED
    BY <1>3, <2>2, <2>3, <2>4 DEF CommitsSlot, TypeOK
<1>4. ASSUME NEW i \in Items, NEW C \in SUBSET TargetsOf[i], KeepsSlot(i, C) PROVE TypeOK'
  <2>1. C \in SUBSET Cities
    OBVIOUS
  <2> QED
    BY <1>4, <2>1 DEF KeepsSlot, TypeOK, Status
<1>5. ASSUME NEW i \in Items, NEW at \in 1..(LastApproval + Interval), SchedulesByHand(i, at) PROVE TypeOK'
  BY <1>5 DEF SchedulesByHand, TypeOK, Status
<1>6. CASE BeatEnqueues
  <2>1. \A i \in Items : CallCities(i) \in SUBSET Cities
    BY DEF CallCities, TypeOK
  <2>2. tasks' \subseteq Calls
    BY <1>6, <2>1 DEF BeatEnqueues, TypeOK, Calls, Due
  <2> QED
    BY <1>6, <2>2 DEF BeatEnqueues, TypeOK, rows
<1>7. ASSUME NEW call \in tasks, Publishes(call) PROVE TypeOK'
  <2>1. call.item \in Items /\ call.cities \in SUBSET Cities
    BY DEF TypeOK, Calls
  <2>2. tasks' \subseteq tasks /\ UNCHANGED <<slot, processed, draft, now>>
    BY <1>7 DEF Publishes
  <2>3. CASE UNCHANGED <<status, approved, published, posted>>
    BY <2>2, <2>3 DEF TypeOK
  <2>4. CASE ~UNCHANGED <<status, approved, published, posted>>
    <3> DEFINE i == call.item
               missing == {c \in call.cities \cap TargetsOf[i] : posted[i][c] = 0}
    <3>1. /\ posted' = [posted EXCEPT ![i] = [c \in Cities |-> IF c \in missing THEN now ELSE @[c]]]
          /\ published' = [published EXCEPT ![i] = now] /\ status' = [status EXCEPT ![i] = "published"]
          /\ approved' = [approved EXCEPT ![i] = @ \cup (call.cities \cap TargetsOf[i])]
      BY <1>7, <2>4 DEF Publishes
    <3>2. now \in Nat /\ i \in Items
      BY <2>1 DEF TypeOK
    <3> HIDE DEF i, missing
    <3>3. posted[i] \in [Cities -> Nat]
      BY <3>2 DEF TypeOK
    <3>4. [c \in Cities |-> IF c \in missing THEN now ELSE posted[i][c]] \in [Cities -> Nat]
      BY <3>2, <3>3
    <3>5. posted' \in [Items -> [Cities -> Nat]]
      BY <3>1, <3>2, <3>4 DEF TypeOK
    <3>6. published' \in [Items -> Nat] /\ status' \in [Items -> Status] /\ approved' \in [Items -> SUBSET Cities]
      BY <2>1, <3>1, <3>2 DEF TypeOK, Status
    <3>7. \A j \in Items : status'[j] = "scheduled" => slot'[j] # 0
      BY <2>2, <3>1 DEF TypeOK
    <3> QED
      BY <2>2, <3>5, <3>6, <3>7 DEF TypeOK
  <2> QED
    BY <2>3, <2>4
<1>8. CASE Tick
  BY <1>8 DEF Tick, TypeOK, rows
<1>9. CASE UNCHANGED vars
  BY <1>9 DEF vars, rows, TypeOK
<1> QED
  BY <1>1, <1>2, <1>3, <1>4, <1>5, <1>6, <1>7, <1>8, <1>9 DEF Next, Approval

\* Every variable keeps its type, whatever moderators, beat and workers do.
THEOREM TypeCorrect == Spec => []TypeOK
  BY TypeInit, TypeStep, PTL DEF Spec

-----------------------------------------------------------------------------
(* Items are decided and posted as a whole. *)

LEMMA WholeInit == Init => Whole
  BY Constants DEF Init, Whole

\* What a commit or a publication is about.
LEMMA WholeStep ==
  ASSUME InTurn, TypeOK, TypeOK', Whole, [Next]_vars
  PROVE  Whole'
<1> USE Constants
<1>1. ASSUME NEW m \in Moderators, NEW i \in Items, NEW C \in SUBSET TargetsOf[i], NEW Q, NEW s \in 1..(MaxNow + Interval),
             ReadsQueue(m, i, C, Q, s)
      PROVE  Whole'
  <2>1. /\ C = TargetsOf[i] /\ approved[i] = {}
        /\ \A n \in Moderators : n = m
    BY <1>1 DEF ReadsQueue, MayDecide, InTurn, Whole
  <2>2. draft'[m] = [item |-> i, cities |-> C, slot |-> IF s <= now THEN 0 ELSE s]
    BY <1>1 DEF ReadsQueue, TypeOK
  <2>3. s > now => i \notin Urgent
    BY <1>1 DEF ReadsQueue, JumpsQueue, TypeOK
  <2>4. now \in Nat /\ s \in Nat
    BY DEF TypeOK
  <2>5. draft'[m].item = i /\ draft'[m].cities = TargetsOf[i] /\ (draft'[m].slot # 0 => draft'[m].slot > now /\ i \notin Urgent)
    BY <2>1, <2>2, <2>3, <2>4
  <2>6. UNCHANGED <<status, slot, approved, processed, published, tasks, now, posted>>
    BY <1>1 DEF ReadsQueue, rows
  <2> QED
    BY <2>1, <2>5, <2>6 DEF Whole
<1>2. ASSUME NEW m \in Moderators, CommitsNow(m) PROVE Whole'
  <2> DEFINE i == draft[m].item
  <2>1. i \in Items /\ draft[m].cities = TargetsOf[i] /\ approved[i] = {} /\ published[i] = 0
    BY <1>2 DEF CommitsNow, Whole
  <2>2. /\ slot' = [slot EXCEPT ![i] = 0] /\ status' = [status EXCEPT ![i] = "approved"]
        /\ processed' = [processed EXCEPT ![i] = now]
        /\ tasks' = tasks \cup {[item |-> i, cities |-> draft[m].cities]}
        /\ UNCHANGED <<approved, published, now, posted>>
        /\ \A n \in Moderators : draft'[n] = NoDraft
    BY <1>2 DEF CommitsNow, GoesAtOnce, InTurn, TypeOK
  <2> HIDE DEF i
  <2>3. \A call \in tasks' : call.cities = TargetsOf[call.item]
    BY <2>1, <2>2 DEF Whole
  <2>4. \A j \in Items : status'[j] \in {"pending", "approved", "scheduled"} <=> published'[j] = 0
    BY <2>1, <2>2 DEF Whole, TypeOK
  <2>5. \A j \in Items : published'[j] <= now' /\ processed'[j] <= now'
    BY <2>1, <2>2 DEF Whole, TypeOK
  <2>6. (\A j \in Urgent : status'[j] # "scheduled") /\ (\A j \in Items \ ByHand : slot'[j] # 0 => approved'[j] = TargetsOf[j])
    BY <2>1, <2>2 DEF Whole, TypeOK
  <2> QED
    BY <2>2, <2>3, <2>4, <2>5, <2>6 DEF Whole
<1>3. ASSUME NEW m \in Moderators, CommitsSlot(m) PROVE Whole'
  <2> DEFINE i == draft[m].item
  <2>1. /\ i \in Items /\ draft[m].cities = TargetsOf[i] /\ approved[i] = {} /\ published[i] = 0 /\ i \notin Urgent
    <3>1. draft[m] # NoDraft /\ draft[m].slot # 0
      BY <1>3 DEF CommitsSlot
    <3>2. i \in Items /\ draft[m].cities = TargetsOf[i] /\ approved[i] = {} /\ i \notin Urgent
      BY <3>1 DEF Whole
    <3>3. TargetsOf[i] # {}
      BY <3>2
    <3>4. published[i] # 0 => approved[i] = TargetsOf[i]
      BY <3>2 DEF Whole
    <3> QED
      BY <3>2, <3>3, <3>4
  <2>2. /\ slot' = [slot EXCEPT ![i] = draft[m].slot] /\ status' = [status EXCEPT ![i] = "scheduled"]
        /\ approved' = [approved EXCEPT ![i] = @ \cup draft[m].cities] /\ processed' = [processed EXCEPT ![i] = now]
        /\ UNCHANGED <<published, tasks, now, posted>>
        /\ \A n \in Moderators : draft'[n] = NoDraft
    BY <1>3 DEF CommitsSlot, BecomesScheduled, InTurn, TypeOK
  <2> HIDE DEF i
  <2>3. \A j \in Items : approved'[j] = IF j = i THEN TargetsOf[i] ELSE approved[j]
    BY <2>1, <2>2 DEF TypeOK
  <2>4. \A j \in Items : status'[j] \in {"pending", "approved", "scheduled"} <=> published'[j] = 0
    BY <2>1, <2>2 DEF Whole, TypeOK
  <2>5. \A j \in Items : published'[j] <= now' /\ processed'[j] <= now'
    BY <2>1, <2>2 DEF Whole, TypeOK
  <2>6. (\A j \in Urgent : status'[j] # "scheduled") /\ (\A j \in Items \ ByHand : slot'[j] # 0 => approved'[j] = TargetsOf[j])
    BY <2>1, <2>2, <2>3 DEF Whole, TypeOK
  <2>7. \A j \in Items : approved'[j] \in {{}, TargetsOf[j]} /\ (published'[j] # 0 => approved'[j] = TargetsOf[j])
    BY <2>2, <2>3 DEF Whole
  <2>8. \A j \in Items, c \in Cities : posted'[j][c] = IF c \in TargetsOf[j] THEN published'[j] ELSE 0
    BY <2>2 DEF Whole
  <2>9. \A call \in tasks' : call.cities = TargetsOf[call.item]
    BY <2>2 DEF Whole
  <2> QED
    BY <2>2, <2>4, <2>5, <2>6, <2>7, <2>8, <2>9 DEF Whole
<1>4. ASSUME NEW i \in Items, NEW C \in SUBSET TargetsOf[i], KeepsSlot(i, C) PROVE Whole'
  <2>1. C = TargetsOf[i] /\ approved[i] = {} /\ slot[i] # 0
    <3>1. C # {} /\ C = TargetsOf[i] \ approved[i] /\ slot[i] > now
      BY <1>4 DEF KeepsSlot, MayDecide, InTurn
    <3>2. approved[i] \in {{}, TargetsOf[i]}
      BY DEF Whole
    <3>3. slot[i] \in Nat /\ now \in Nat /\ now > 0
      BY DEF TypeOK
    <3> QED
      BY ONLY <3>1, <3>2, <3>3
  <2>2. i \in ByHand /\ published[i] = 0
    BY <2>1 DEF Whole
  <2>3. \A j \in Items : approved'[j] = IF j = i THEN TargetsOf[i] ELSE approved[j]
    BY <1>4, <2>1 DEF KeepsSlot, TypeOK
  <2>4. /\ status' = [status EXCEPT ![i] = "scheduled"] /\ processed' = [processed EXCEPT ![i] = now]
        /\ UNCHANGED <<slot, published, tasks, draft, now, posted>> /\ Unlocked(i)
    BY <1>4 DEF KeepsSlot
  <2>5. \A j \in Items : /\ status'[j] \in {"pending", "approved", "scheduled"} <=> published'[j] = 0
                         /\ published'[j] <= now' /\ processed'[j] <= now'
    BY <2>2, <2>4 DEF Whole, TypeOK
  <2>6. \A j \in Urgent : status'[j] # "scheduled"
    BY <2>2, <2>4 DEF Whole, TypeOK
  <2> QED
    BY <2>2, <2>3, <2>4, <2>5, <2>6 DEF Whole, Unlocked
<1>5. ASSUME NEW i \in Items, NEW at \in 1..(LastApproval + Interval), SchedulesByHand(i, at) PROVE Whole'
  <2>1. published[i] = 0
    BY <1>5 DEF SchedulesByHand, Whole
  <2>2. /\ status' = [status EXCEPT ![i] = "scheduled"] /\ slot' = [slot EXCEPT ![i] = at] /\ i \in ByHand
        /\ processed' = [processed EXCEPT ![i] = IF @ = 0 THEN now ELSE @]
        /\ UNCHANGED <<approved, published, tasks, draft, now, posted>>
    BY <1>5 DEF SchedulesByHand
  <2>3. \A j \in Items : /\ status'[j] \in {"pending", "approved", "scheduled"} <=> published'[j] = 0
                         /\ published'[j] <= now' /\ processed'[j] <= now'
    BY <2>1, <2>2 DEF Whole, TypeOK
  <2>4. /\ \A j \in Urgent : status'[j] # "scheduled"
        /\ \A j \in Items \ ByHand : slot'[j] # 0 => approved'[j] = TargetsOf[j]
    BY <2>2 DEF Whole, TypeOK
  <2> QED
    BY <2>2, <2>3, <2>4 DEF Whole
<1>6. CASE BeatEnqueues
  <2>1. \A i \in Items : CallCities(i) = TargetsOf[i]
    BY DEF CallCities, Whole
  <2>2. \A call \in tasks' : call.cities = TargetsOf[call.item]
    BY <1>6, <2>1 DEF BeatEnqueues, Whole, Due
  <2> QED
    BY <1>6, <2>2 DEF BeatEnqueues, rows, Whole
<1>7. ASSUME NEW call \in tasks, Publishes(call) PROVE Whole'
  <2> DEFINE i == call.item
  <2>1. i \in Items /\ call.cities = TargetsOf[i] /\ Unlocked(i)
    BY <1>7 DEF TypeOK, Calls, Whole, Publishes
  <2>2. tasks' \subseteq tasks /\ UNCHANGED <<slot, processed, draft, now>>
    BY <1>7 DEF Publishes
  <2>3. CASE UNCHANGED <<status, approved, published, posted>>
    BY <2>2, <2>3 DEF Whole
  <2>4. CASE ~UNCHANGED <<status, approved, published, posted>>
    <3>1. /\ {c \in call.cities \cap TargetsOf[i] : posted[i][c] = 0} # {}
          /\ posted' = [posted EXCEPT ![i] = [c \in Cities |-> IF c \in {d \in call.cities \cap TargetsOf[i] : posted[i][d] = 0} THEN now ELSE @[c]]]
          /\ published' = [published EXCEPT ![i] = now] /\ status' = [status EXCEPT ![i] = "published"]
          /\ approved' = [approved EXCEPT ![i] = @ \cup (call.cities \cap TargetsOf[i])]
      BY <1>7, <2>4 DEF Publishes
    <3> HIDE DEF i
    <3>2. published[i] = 0 /\ \A c \in Cities : posted[i][c] = 0
      BY <2>1, <3>1 DEF Whole
    <3>3. \A j \in Items : approved'[j] = IF j = i THEN TargetsOf[i] ELSE approved[j]
      <4>1. approved[i] \in {{}, TargetsOf[i]} /\ call.cities \cap TargetsOf[i] = TargetsOf[i]
        BY <2>1 DEF Whole
      <4>2. approved[i] \cup (call.cities \cap TargetsOf[i]) = TargetsOf[i]
        BY <4>1
      <4> QED
        BY <2>1, <3>1, <4>2 DEF TypeOK
    <3>4. \A j \in Items, c \in Cities : posted'[j][c] = IF c \in TargetsOf[j] THEN published'[j] ELSE 0
      <4>1. \A c \in Cities : posted'[i][c] = IF c \in TargetsOf[i] THEN now ELSE 0
        BY <2>1, <3>1, <3>2 DEF TypeOK
      <4>2. \A j \in Items \ {i} : posted'[j] = posted[j] /\ published'[j] = published[j]
        BY <3>1 DEF TypeOK
      <4>3. published'[i] = now
        BY <2>1, <3>1 DEF TypeOK
      <4> QED
        BY <4>1, <4>2, <4>3 DEF Whole
    <3>p. /\ published' = [j \in Items |-> IF j = i THEN now ELSE published[j]]
          /\ status' = [j \in Items |-> IF j = i THEN "published" ELSE status[j]] /\ now \in Nat /\ now > 0
      <4>1. now \in Nat /\ now > 0
        BY DEF TypeOK
      <4> QED
        BY <4>1, <2>1, <3>1 DEF TypeOK
    <3>5. \A j \in Items : /\ status'[j] \in {"pending", "approved", "scheduled"} <=> published'[j] = 0
                           /\ published'[j] <= now' /\ processed'[j] <= now'
      BY <2>1, <2>2, <3>p DEF Whole
    <3>6. \A j \in Urgent : status'[j] # "scheduled"
      BY <3>1 DEF Whole, TypeOK
    <3>7. \A j \in Items : published'[j] # 0 => approved'[j] = TargetsOf[j]
      BY <3>1, <3>3 DEF Whole, TypeOK
    <3> QED
      BY <2>1, <2>2, <3>3, <3>4, <3>5, <3>6, <3>7 DEF Whole, Unlocked
  <2> QED
    BY <2>3, <2>4
<1>8. CASE Tick
  <2>1. (\A m \in Moderators : draft[m] = NoDraft) /\ now' = now + 1 /\ UNCHANGED <<status, slot, approved, processed, published, tasks, draft, posted>>
    BY <1>8 DEF Tick, rows
  <2> QED
    BY <2>1 DEF Whole, TypeOK
<1>9. CASE UNCHANGED vars
  BY <1>9 DEF vars, rows, Whole
<1> QED
  BY <1>1, <1>2, <1>3, <1>4, <1>5, <1>6, <1>7, <1>8, <1>9 DEF Next, Approval


-----------------------------------------------------------------------------
(* What is approved at once, or due, is on its way. *)

\* What each action does, under the conditions: the effects the invariants depend on.
LEMMA ReadsAll ==
  ASSUME TypeOK, Whole, InTurn, NEW m, NEW i \in Items, NEW C, NEW Q,
         NEW s \in 1..(MaxNow + Interval), ReadsQueue(m, i, C, Q, s)
  PROVE  C = TargetsOf[i] /\ approved[i] = {} /\ s >= now
<1>1. C # {} /\ C = TargetsOf[i] \ approved[i]
  BY DEF ReadsQueue, MayDecide, InTurn
<1>2. approved[i] \in {{}, TargetsOf[i]}
  BY DEF Whole
<1>3. s >= now
  <2>1. now \in Nat /\ s \in Nat
    BY Constants DEF TypeOK
  <2> QED
    BY <2>1 DEF ReadsQueue, NextSlot
<1> QED
  BY ONLY <1>1, <1>2, <1>3

LEMMA ReadsEffect ==
  ASSUME TypeOK, Whole, InTurn, NEW m \in Moderators, NEW i \in Items, NEW C \in SUBSET TargetsOf[i], NEW Q,
         NEW s \in 1..(MaxNow + Interval), ReadsQueue(m, i, C, Q, s)
  PROVE  /\ UNCHANGED <<status, slot, approved, processed, published, tasks, now, posted>>
         /\ C = TargetsOf[i] /\ approved[i] = {} /\ (Q = Items \/ Q = Items \ {i})
         /\ s >= now
         /\ \A n \in Moderators : /\ n = m /\ draft'[n].item = i
                                  /\ draft'[n].slot = IF s <= now THEN 0 ELSE s
<1>1. /\ C = TargetsOf[i] /\ approved[i] = {}
      /\ \A n \in Moderators : n = m
  BY DEF ReadsQueue, MayDecide, InTurn, Whole
<1>2. draft'[m] = [item |-> i, cities |-> C, slot |-> IF s <= now THEN 0 ELSE s]
  BY DEF ReadsQueue, TypeOK
<1>3. draft'[m].item = i /\ draft'[m].slot = IF s <= now THEN 0 ELSE s
  BY <1>2
<1>4. s >= now
  BY DEF ReadsQueue, NextSlot, TypeOK
<1> QED
  BY <1>1, <1>3, <1>4 DEF ReadsQueue, rows

LEMMA CommitsNowEffect ==
  ASSUME TypeOK, Whole, InTurn, NEW m \in Moderators, CommitsNow(m)
  PROVE  LET i == draft[m].item IN
         /\ i \in Items /\ published[i] = 0 /\ draft[m].slot = 0 /\ draft[m] # NoDraft
         /\ \A j \in Items : /\ status'[j] = IF j = i THEN "approved" ELSE status[j]
                             /\ slot'[j] = IF j = i THEN 0 ELSE slot[j]
                             /\ processed'[j] = IF j = i THEN now ELSE processed[j]
         /\ tasks' = tasks \cup {[item |-> i, cities |-> draft[m].cities]}
         /\ UNCHANGED <<approved, published, now, posted>>
         /\ \A n \in Moderators : draft'[n] = NoDraft
<1>1. draft[m].item \in Items /\ published[draft[m].item] = 0
  BY Constants DEF CommitsNow, Whole
<1> QED
  BY <1>1 DEF CommitsNow, GoesAtOnce, InTurn, TypeOK

LEMMA CommitsSlotEffect ==
  ASSUME TypeOK, Whole, InTurn, NEW m \in Moderators, CommitsSlot(m)
  PROVE  LET i == draft[m].item IN
         /\ i \in Items /\ published[i] = 0 /\ draft[m].slot > now /\ draft[m].slot # 0 /\ draft[m] # NoDraft
         /\ \A j \in Items : /\ status'[j] = IF j = i THEN "scheduled" ELSE status[j]
                             /\ slot'[j] = IF j = i THEN draft[m].slot ELSE slot[j]
                             /\ processed'[j] = IF j = i THEN now ELSE processed[j]
                             /\ approved'[j] = IF j = i THEN TargetsOf[i] ELSE approved[j]
         /\ UNCHANGED <<published, tasks, now, posted>>
         /\ \A n \in Moderators : draft'[n] = NoDraft
<1>1. /\ draft[m].item \in Items /\ published[draft[m].item] = 0 /\ draft[m].slot > now
      /\ approved[draft[m].item] \cup draft[m].cities = TargetsOf[draft[m].item]
  BY Constants DEF CommitsSlot, Whole
<1>2. /\ draft[m].slot # 0 /\ draft[m] # NoDraft
      /\ UNCHANGED <<published, tasks, now, posted>>
      /\ \A n \in Moderators : draft'[n] = NoDraft
  BY DEF CommitsSlot, InTurn, TypeOK
<1>3. \A j \in Items : /\ status'[j] = IF j = draft[m].item THEN "scheduled" ELSE status[j]
                       /\ slot'[j] = IF j = draft[m].item THEN draft[m].slot ELSE slot[j]
  BY DEF CommitsSlot, BecomesScheduled, TypeOK
<1>4. \A j \in Items : /\ processed'[j] = IF j = draft[m].item THEN now ELSE processed[j]
                       /\ approved'[j] = IF j = draft[m].item THEN TargetsOf[draft[m].item] ELSE approved[j]
  BY <1>1 DEF CommitsSlot, TypeOK
<1> QED
  BY <1>1, <1>2, <1>3, <1>4

\* Only what is scheduled by hand has its slot kept.
LEMMA ByHandEffect ==
  ASSUME TypeOK, Whole, InTurn, NEW i \in Items,
         \/ \E C \in SUBSET TargetsOf[i] : KeepsSlot(i, C)
         \/ \E at \in 1..(LastApproval + Interval) : SchedulesByHand(i, at)
  PROVE  /\ i \in ByHand /\ Unlocked(i) /\ published[i] = 0
         /\ status'[i] = "scheduled" /\ slot'[i] > now
         /\ \A j \in Items \ {i} : /\ status'[j] = status[j] /\ slot'[j] = slot[j]
                                   /\ processed'[j] = processed[j]
         /\ UNCHANGED <<published, tasks, draft, now, posted>>
<1> USE Constants
<1>1. ASSUME NEW C \in SUBSET TargetsOf[i], KeepsSlot(i, C)
      PROVE  /\ i \in ByHand /\ published[i] = 0 /\ slot'[i] > now
  <2>1. slot[i] # 0 /\ slot'[i] > now
    BY <1>1 DEF KeepsSlot, TypeOK
  <2>2. C = TargetsOf[i] /\ approved[i] = {}
    BY <1>1 DEF KeepsSlot, MayDecide, InTurn, Whole
  <2> QED
    BY <1>1, <2>1, <2>2 DEF Whole
<1>2. ASSUME NEW at \in 1..(LastApproval + Interval), SchedulesByHand(i, at)
      PROVE  /\ i \in ByHand /\ published[i] = 0 /\ slot'[i] > now
  BY <1>2 DEF SchedulesByHand, Whole, TypeOK
<1>3. CASE \E C \in SUBSET TargetsOf[i] : KeepsSlot(i, C)
  BY <1>1, <1>3 DEF KeepsSlot, TypeOK
<1>4. CASE \E at \in 1..(LastApproval + Interval) : SchedulesByHand(i, at)
  BY <1>2, <1>4 DEF SchedulesByHand, TypeOK
<1> QED
  BY <1>3, <1>4

\* A call in the broker always posts its item, and is the only one about it.
LEMMA PublishesEffect ==
  ASSUME TypeOK, Whole, Dispatch, NEW call \in tasks, Publishes(call)
  PROVE  LET i == call.item IN
         /\ i \in Items /\ Unlocked(i) /\ published[i] = 0
         /\ \A j \in Items : /\ status'[j] = IF j = i THEN "published" ELSE status[j]
                             /\ published'[j] = IF j = i THEN now ELSE published[j]
                             /\ j # i => posted'[j] = posted[j] /\ approved'[j] = approved[j]
         /\ \A c \in TargetsOf[i] : posted'[i][c] = now
         /\ tasks' = {other \in tasks : other.item # i}
         /\ UNCHANGED <<slot, processed, draft, now>>
<1> USE Constants
<1> DEFINE i == call.item
           missing == {c \in call.cities \cap TargetsOf[i] : posted[i][c] = 0}
<1>1. i \in Items /\ call.cities = TargetsOf[i] /\ published[i] = 0
  <2>1. i \in Items /\ InFlight(i) /\ call.cities = TargetsOf[i]
    BY DEF TypeOK, Calls, InFlight, Whole
  <2> QED
    BY <2>1 DEF Dispatch, Whole
<1>2. missing = TargetsOf[i] /\ missing # {}
  BY <1>1 DEF Whole
<1>3. tasks' = {other \in tasks : other.item # i}
  <2>1. \A other \in tasks : other = [item |-> other.item, cities |-> other.cities]
    BY DEF TypeOK, Calls
  <2>2. \A other \in tasks : other.item = i => other = call
    BY <2>1 DEF Whole
  <2> QED
    BY <2>2 DEF Publishes
<1>4. /\ posted' = [posted EXCEPT ![i] = [c \in Cities |-> IF c \in missing THEN now ELSE @[c]]]
      /\ published' = [published EXCEPT ![i] = now] /\ status' = [status EXCEPT ![i] = "published"]
      /\ approved' = [approved EXCEPT ![i] = @ \cup (call.cities \cap TargetsOf[i])]
      /\ Unlocked(i) /\ UNCHANGED <<slot, processed, draft, now>>
  BY <1>2 DEF Publishes
<1> HIDE DEF i, missing
<1>5. \A c \in TargetsOf[i] : posted'[i][c] = now
  BY <1>1, <1>2, <1>4 DEF TypeOK
<1>6. \A j \in Items : /\ status'[j] = IF j = i THEN "published" ELSE status[j]
                       /\ published'[j] = IF j = i THEN now ELSE published[j]
                       /\ j # i => posted'[j] = posted[j] /\ approved'[j] = approved[j]
  BY <1>4 DEF TypeOK
<1> QED
  BY <1>1, <1>3, <1>4, <1>5, <1>6 DEF i

LEMMA BeatEffect ==
  ASSUME BeatEnqueues
  PROVE  \A j \in Items : InFlight(j)' <=> InFlight(j) \/ j \in Due
<1> DEFINE r(i) == [item |-> i, cities |-> CallCities(i)]
<1>1. tasks' = tasks \cup {r(i) : i \in Due}
  BY DEF BeatEnqueues
<1>2. \A i \in Due : r(i).item = i
  OBVIOUS
<1> HIDE DEF r
<1> SUFFICES ASSUME NEW j \in Items PROVE InFlight(j)' <=> InFlight(j) \/ j \in Due
  OBVIOUS
<1>3. ASSUME j \in Due PROVE InFlight(j)'
  <2>1. r(j) \in tasks' /\ r(j).item = j
    BY <1>1, <1>2, <1>3
  <2> QED
    BY <2>1 DEF InFlight
<1>4. ASSUME InFlight(j)' PROVE InFlight(j) \/ j \in Due
  <2>1. PICK call \in tasks' : call.item = j
    BY <1>4 DEF InFlight
  <2>2. CASE call \in tasks
    BY <2>1, <2>2 DEF InFlight
  <2>3. CASE \E i \in Due : call = r(i)
    BY <1>2, <2>1, <2>3
  <2> QED
    BY <1>1, <2>1, <2>2, <2>3
<1>5. ASSUME InFlight(j) PROVE InFlight(j)'
  BY <1>1, <1>5 DEF InFlight
<1> QED
  BY <1>3, <1>4, <1>5

LEMMA DispatchInit == Init => Dispatch
  BY DEF Init, Dispatch, InFlight

LEMMA DispatchStep ==
  ASSUME InTurn, TypeOK, Whole, Dispatch, [Next]_vars
  PROVE  Dispatch'
<1> USE Constants
<1>1. ASSUME NEW m \in Moderators, NEW i \in Items, NEW C \in SUBSET TargetsOf[i], NEW Q, NEW s \in 1..(MaxNow + Interval),
             ReadsQueue(m, i, C, Q, s)
      PROVE  Dispatch'
  <2>1. UNCHANGED <<status, slot, processed, tasks, now>>
    BY <1>1, ReadsEffect
  <2> QED
    BY <2>1 DEF Dispatch, InFlight
<1>2. ASSUME NEW m \in Moderators, CommitsNow(m) PROVE Dispatch'
  <2> DEFINE i == draft[m].item
  <2>1. /\ i \in Items /\ published[i] = 0
        /\ \A j \in Items : /\ status'[j] = IF j = i THEN "approved" ELSE status[j]
                            /\ slot'[j] = IF j = i THEN 0 ELSE slot[j]
                            /\ processed'[j] = IF j = i THEN now ELSE processed[j]
        /\ tasks' = tasks \cup {[item |-> i, cities |-> draft[m].cities]}
        /\ now' = now
    BY <1>2, CommitsNowEffect
  <2> HIDE DEF i
  <2>2. \A j \in Items : InFlight(j)' <=> InFlight(j) \/ j = i
    <3> DEFINE r == [item |-> i, cities |-> draft[m].cities]
    <3>1. r.item = i /\ tasks' = tasks \cup {r}
      BY <2>1
    <3> HIDE DEF r
    <3> QED
      BY <3>1 DEF InFlight
  <2> QED
    BY <2>1, <2>2 DEF Dispatch
<1>3. ASSUME NEW m \in Moderators, CommitsSlot(m) PROVE Dispatch'
  <2> DEFINE i == draft[m].item
  <2>1. /\ i \in Items /\ draft[m].slot > now
        /\ \A j \in Items : /\ status'[j] = IF j = i THEN "scheduled" ELSE status[j]
                            /\ slot'[j] = IF j = i THEN draft[m].slot ELSE slot[j]
                            /\ processed'[j] = IF j = i THEN now ELSE processed[j]
        /\ tasks' = tasks /\ now' = now
    BY <1>3, CommitsSlotEffect
  <2>2. draft[m].slot \in Nat /\ now \in Nat
    BY <1>3, DraftType DEF CommitsSlot, TypeOK
  <2> HIDE DEF i
  <2>3. \A j \in Items : InFlight(j)' <=> InFlight(j)
    BY <2>1 DEF InFlight
  <2> QED
    BY <2>1, <2>2, <2>3 DEF Dispatch
<1>4. ASSUME NEW i \in Items,
             \/ \E C \in SUBSET TargetsOf[i] : KeepsSlot(i, C)
             \/ \E at \in 1..(LastApproval + Interval) : SchedulesByHand(i, at)
      PROVE  Dispatch'
  <2>1. /\ status'[i] = "scheduled" /\ slot'[i] > now
        /\ \A j \in Items \ {i} : /\ status'[j] = status[j] /\ slot'[j] = slot[j]
                                  /\ processed'[j] = processed[j]
        /\ UNCHANGED <<tasks, now>>
    BY <1>4, ByHandEffect
  <2>2. \A j \in Items : InFlight(j)' <=> InFlight(j)
    BY <2>1 DEF InFlight
  <2>3. slot'[i] >= now
    BY <1>4, <2>1, TypeStep DEF TypeOK, Next
  <2> QED
    BY <2>1, <2>2, <2>3 DEF Dispatch
<1>6. CASE BeatEnqueues
  <2>1. UNCHANGED <<status, slot, processed, now>>
    BY <1>6 DEF BeatEnqueues, rows
  <2>2. \A j \in Items : InFlight(j)' <=> InFlight(j) \/ j \in Due
    BY <1>6, BeatEffect
  <2>3. \A j \in Due : status[j] = "scheduled"
    BY DEF Due
  <2> QED
    BY <2>1, <2>2, <2>3 DEF Dispatch
<1>7. ASSUME NEW call \in tasks, Publishes(call) PROVE Dispatch'
  <2> DEFINE i == call.item
  <2>1. /\ \A j \in Items : status'[j] = IF j = i THEN "published" ELSE status[j]
        /\ tasks' = {other \in tasks : other.item # i}
        /\ UNCHANGED <<slot, processed, now>>
    BY <1>7, PublishesEffect
  <2> HIDE DEF i
  <2>2. \A j \in Items : InFlight(j)' <=> InFlight(j) /\ j # i
    BY <2>1 DEF InFlight
  <2> QED
    BY <2>1, <2>2 DEF Dispatch
<1>8. CASE Tick
  <2>1. /\ tasks = {} /\ now' = now + 1 /\ UNCHANGED <<status, slot, processed, tasks>>
        /\ \A i \in Due : slot[i] + Lag > now
    BY <1>8 DEF Tick, rows
  <2>2. \A j \in Items : ~InFlight(j) /\ ~InFlight(j)' /\ status[j] # "approved"
    BY <2>1 DEF Dispatch, InFlight
  <2>3. ASSUME Lag = 0, NEW i \in Items, status[i] = "scheduled" PROVE slot[i] >= now + 1
    <3>1. now \in Nat /\ slot[i] \in Nat /\ slot[i] # 0 /\ slot[i] >= now
      BY <2>3 DEF TypeOK, Dispatch
    <3>2. CASE slot[i] <= now
      BY <2>1, <2>3, <3>1, <3>2 DEF Due
    <3> QED
      BY <3>1, <3>2
  <2> QED
    BY <2>1, <2>2, <2>3 DEF Dispatch
<1>9. CASE UNCHANGED vars
  BY <1>9 DEF vars, rows, Dispatch, InFlight
<1> QED
  BY <1>1, <1>2, <1>3, <1>4, <1>6, <1>7, <1>8, <1>9 DEF Next, Approval


-----------------------------------------------------------------------------
(* Rivals lay claim to instants that are an interval apart. *)

LEMMA ClaimIs ==
  ASSUME NEW i
  PROVE  \A t : t \in Claims(i) <=> \/ t = slot[i] /\ status[i] = "scheduled" /\ slot[i] >= now
                                    \/ t = published[i] /\ published[i] # 0 /\ Lag = 0
                                    \/ t = now /\ InFlight(i) /\ Lag = 0
  BY DEF Claims

LEMMA ClaimType ==
  ASSUME TypeOK, NEW i \in Items
  PROVE  Claims(i) \subseteq Nat
  BY DEF Claims, TypeOK

LEMMA ApartOneWay ==
  ASSUME NEW t \in Nat, NEW u \in Nat, Interval = 0 \/ u + Interval <= t
  PROVE  Apart(t, u)
  BY Constants DEF Apart

\* A step that leaves nobody's transaction open keeps the items apart if every claim was
\* there before, or is apart from those of the rivals.
LEMMA KeepsApart ==
  ASSUME Spaced, NEW i \in Items,
         \A j \in Items \ {i} : Claims(j)' \subseteq Claims(j),
         \A j \in Items, t \in Claims(i)' : t \in Claims(i) \/ (Rivals(i, j) => \A u \in Claims(j) : Apart(t, u)),
         \A m \in Moderators : \/ draft'[m] = NoDraft
                               \/ draft'[m] = draft[m] /\ Granted(m)' = Granted(m) /\ ~Rivals(draft[m].item, i)
  PROVE  Spaced'
<1>1. \A j, k \in Items : Rivals(j, k)' <=> Rivals(j, k)
  BY DEF Rivals
<1>2. ASSUME NEW j \in Items, NEW k \in Items, Rivals(j, k), NEW t \in Claims(j)', NEW u \in Claims(k)'
      PROVE  Apart(t, u)
  <2>1. CASE j # i /\ k # i
    BY <1>2, <2>1 DEF Spaced
  <2>2. CASE j = i
    <3>1. k # i /\ u \in Claims(k)
      BY <1>2, <2>2 DEF Rivals
    <3>2. CASE t \in Claims(i)
      BY <1>2, <2>2, <3>1, <3>2 DEF Spaced
    <3>3. CASE t \notin Claims(i)
      BY <1>2, <2>2, <3>1, <3>3
    <3> QED
      BY <3>2, <3>3
  <2>3. CASE k = i
    <3>1. j # i /\ t \in Claims(j) /\ Rivals(i, j)
      BY <1>2, <2>3 DEF Rivals
    <3>2. CASE u \in Claims(i)
      BY <1>2, <2>3, <3>1, <3>2 DEF Spaced
    <3>3. CASE u \notin Claims(i)
      <4>1. Apart(u, t)
        BY <1>2, <2>3, <3>1, <3>3
      <4> QED
        BY <4>1 DEF Apart
    <3> QED
      BY <3>2, <3>3
  <2> QED
    BY <2>1, <2>2, <2>3
<1>3. ASSUME NEW m \in Moderators, draft'[m] # NoDraft, NEW j \in Items, Rivals(draft'[m].item, j), NEW u \in Claims(j)'
      PROVE  Apart(Granted(m)', u)
  <2>1. draft'[m] = draft[m] /\ Granted(m)' = Granted(m) /\ j # i
    BY <1>3
  <2>2. u \in Claims(j) /\ Rivals(draft[m].item, j) /\ draft[m] # NoDraft
    BY <1>3, <2>1
  <2>3. Apart(Granted(m), u)
    BY <2>2 DEF Spaced
  <2> QED
    BY <2>1, <2>3
<1>4. \A j, k \in Items : Rivals(j, k)' => \A t \in Claims(j)', u \in Claims(k)' : Apart(t, u)
  BY <1>1, <1>2
<1>5. \A m \in Moderators : draft'[m] # NoDraft =>
        \A j \in Items : Rivals(draft'[m].item, j) => \A u \in Claims(j)' : Apart(Granted(m)', u)
  BY <1>3
<1> QED
  BY <1>4, <1>5 DEF Spaced, Rivals, Apart

\* So does a step that adds no claim.
LEMMA StaysSpaced ==
  ASSUME Spaced, \A j \in Items : Claims(j)' \subseteq Claims(j),
         \A m \in Moderators : draft'[m] = NoDraft \/ (draft'[m] = draft[m] /\ Granted(m)' = Granted(m))
  PROVE  Spaced'
<1>1. ASSUME NEW j \in Items, NEW k \in Items, Rivals(j, k)
      PROVE  \A t \in Claims(j)', u \in Claims(k)' : Apart(t, u)
  BY <1>1 DEF Spaced
<1>2. ASSUME NEW m \in Moderators, draft'[m] # NoDraft, NEW j \in Items, Rivals(draft'[m].item, j), NEW u \in Claims(j)'
      PROVE  Apart(Granted(m)', u)
  <2>1. draft'[m] = draft[m] /\ Granted(m)' = Granted(m) /\ u \in Claims(j)
    BY <1>2
  <2>2. Apart(Granted(m), u)
    BY <1>2, <2>1 DEF Spaced
  <2> QED
    BY <2>1, <2>2
<1>3. \A m \in Moderators : draft'[m] # NoDraft =>
        \A j \in Items : Rivals(draft'[m].item, j) => \A u \in Claims(j)' : Apart(Granted(m)', u)
  BY <1>2
<1> QED
  BY <1>1, <1>3 DEF Spaced, Rivals, Apart

LEMMA SpacedInit == Init => Spaced
  BY DEF Init, Spaced, Claims, InFlight

\* A slot that is asked for is an interval after all that the rivals lay claim to.
LEMMA ReadsSpaced ==
  ASSUME InTurn, TypeOK, Whole, Dispatch, NEW i \in Items, NEW C, NEW Q, NEW s \in Nat,
         C = TargetsOf[i], Q = Items \/ Q = Items \ {i}, s >= now,
         IF JumpsQueue(i) THEN s = now ELSE NextSlot(s, Markers(i, C, Q)),
         NEW j \in Items, Rivals(i, j), NEW u \in Claims(j)
  PROVE  Apart(s, u)
<1> USE Constants
<1>1. u \in Nat /\ now \in Nat /\ now # 0
  BY ClaimType DEF TypeOK
<1>2. CASE Interval = 0
  BY <1>1, <1>2, ApartOneWay
<1>3. CASE Interval # 0
  <2>1. \A mk \in Markers(i, C, Q) : s >= mk + Interval
    BY <1>3 DEF JumpsQueue, Rivals, NextSlot
  <2>2. j \in Sharing(C) \ {i} /\ j \in Q \cap Sharing(C)
    BY DEF Sharing, Rivals
  <2>3. ASSUME status[j] = "scheduled", slot[j] >= now PROVE slot[j] \in Markers(i, C, Q)
    BY <2>2, <2>3 DEF Markers, Waiting
  <2>4. CASE u = slot[j] /\ status[j] = "scheduled" /\ slot[j] >= now
    BY <1>1, <2>1, <2>3, <2>4, ApartOneWay
  <2>5. CASE u = published[j] /\ published[j] # 0
    <3>1. u \in Markers(i, C, Q)
      BY <2>2, <2>5 DEF Markers, Published
    <3> QED
      BY <1>1, <2>1, <3>1, ApartOneWay
  <2>6. CASE u = now /\ InFlight(j) /\ Lag = 0
    <3>1. CASE status[j] = "scheduled"
      <4>1. slot[j] >= now /\ slot[j] \in Nat
        BY <2>6, <3>1 DEF Dispatch, TypeOK
      <4>2. s >= slot[j] + Interval
        BY <2>1, <2>3, <3>1, <4>1
      <4>3. s >= u + Interval
        BY <1>1, <2>6, <4>1, <4>2
      <4> QED
        BY <1>1, <4>3, ApartOneWay
    <3>2. CASE status[j] # "scheduled"
      <4>1. status[j] = "approved" /\ processed[j] = now
        BY <2>6, <3>2 DEF Dispatch
      <4>2. processed[j] # 0 /\ processed[j] >= now - Interval
        BY <1>1, <4>1
      <4>3. u \in Markers(i, C, Q)
        BY <2>2, <2>6, <4>1, <4>2 DEF Markers, Dispatched
      <4> QED
        BY <1>1, <2>1, <4>3, ApartOneWay
    <3> QED
      BY <3>1, <3>2
  <2> QED
    BY <2>4, <2>5, <2>6, ClaimIs
<1> QED
  BY <1>2, <1>3


LEMMA SpacedStep ==
  ASSUME InTurn, TypeOK, Whole, Dispatch, Spaced, [Next]_vars
  PROVE  Spaced'
<1> USE Constants
<1>1. ASSUME NEW m \in Moderators, NEW i \in Items, NEW C \in SUBSET TargetsOf[i], NEW Q, NEW s \in 1..(MaxNow + Interval),
             ReadsQueue(m, i, C, Q, s)
      PROVE  Spaced'
  <2>1. /\ UNCHANGED <<status, slot, published, tasks, now>>
        /\ \A n \in Moderators : n = m
        /\ draft'[m].item = i /\ draft'[m].slot = IF s <= now THEN 0 ELSE s
        /\ C = TargetsOf[i] /\ (Q = Items \/ Q = Items \ {i}) /\ s >= now
        /\ IF JumpsQueue(i) THEN s = now ELSE NextSlot(s, Markers(i, C, Q))
    <3>1. IF JumpsQueue(i) THEN s = now ELSE NextSlot(s, Markers(i, C, Q))
      BY <1>1 DEF ReadsQueue
    <3>2. UNCHANGED <<status, slot, published, tasks, now>>
      BY <1>1 DEF ReadsQueue, rows
    <3>3. Q = Items \/ Q = Items \ {i}
      BY <1>1 DEF ReadsQueue
    <3>6. C = TargetsOf[i]
      BY <1>1, ReadsAll
    <3>7. s >= now
      BY <1>1, ReadsAll
    <3>4. \A n \in Moderators : n = m
      BY DEF InTurn
    <3>5. draft'[m].item = i /\ draft'[m].slot = IF s <= now THEN 0 ELSE s
      <4>1. draft'[m] = [item |-> i, cities |-> C, slot |-> IF s <= now THEN 0 ELSE s]
        BY <1>1 DEF ReadsQueue, TypeOK
      <4> QED
        BY <4>1
    <3> QED
      BY <3>1, <3>2, <3>3, <3>4, <3>5, <3>6, <3>7
  <2>2. s \in Nat /\ now \in Nat
    BY DEF TypeOK
  <2>3. Granted(m)' = s
    BY <2>1, <2>2 DEF Granted
  <2>4. \A j \in Items : Claims(j)' = Claims(j)
    BY <2>1 DEF Claims, InFlight
  <2>5. \A j \in Items : Rivals(i, j) => \A u \in Claims(j) : Apart(s, u)
    BY <2>1, <2>2, ReadsSpaced
  <2>6. ASSUME NEW j \in Items, NEW k \in Items, Rivals(j, k)
        PROVE  \A t \in Claims(j)', u \in Claims(k)' : Apart(t, u)
    BY <2>4, <2>6 DEF Spaced
  <2>7. \A n \in Moderators, j \in Items : Rivals(draft'[n].item, j) => \A u \in Claims(j)' : Apart(Granted(n)', u)
    BY <2>1, <2>3, <2>4, <2>5
  <2> QED
    BY <2>6, <2>7 DEF Spaced, Rivals, Apart
<1>2. ASSUME NEW m \in Moderators, CommitsNow(m) PROVE Spaced'
  <2>0. PICK i \in Items : i = draft[m].item
    BY <1>2, DraftType DEF CommitsNow
  <2>1. /\ published[i] = 0 /\ draft[m].slot = 0 /\ draft[m] # NoDraft
        /\ \A j \in Items : /\ status'[j] = IF j = i THEN "approved" ELSE status[j]
                            /\ slot'[j] = IF j = i THEN 0 ELSE slot[j]
        /\ tasks' = tasks \cup {[item |-> i, cities |-> draft[m].cities]}
        /\ UNCHANGED <<published, now>>
        /\ \A n \in Moderators : draft'[n] = NoDraft
    BY <1>2, <2>0, CommitsNowEffect
  <2>2. \A j \in Items : Rivals(i, j) => \A u \in Claims(j) : Apart(now, u)
    BY <2>0, <2>1 DEF Spaced, Granted
  <2>3. \A j \in Items \ {i} : InFlight(j)' <=> InFlight(j)
    BY <2>1 DEF InFlight
  <2>4. \A j \in Items \ {i} : Claims(j)' \subseteq Claims(j)
    BY <2>1, <2>3 DEF Claims
  <2>5. \A t \in Claims(i)' : t = now
    BY <2>1 DEF Claims
  <2> QED
    BY <2>1, <2>2, <2>4, <2>5, KeepsApart
<1>3. ASSUME NEW m \in Moderators, CommitsSlot(m) PROVE Spaced'
  <2>0. PICK i \in Items : i = draft[m].item
    BY <1>3, DraftType DEF CommitsSlot
  <2>1. /\ published[i] = 0 /\ draft[m].slot # 0 /\ draft[m] # NoDraft
        /\ \A j \in Items : /\ status'[j] = IF j = i THEN "scheduled" ELSE status[j]
                            /\ slot'[j] = IF j = i THEN draft[m].slot ELSE slot[j]
        /\ UNCHANGED <<published, tasks, now>>
        /\ \A n \in Moderators : draft'[n] = NoDraft
    BY <1>3, <2>0, CommitsSlotEffect
  <2>2. \A j \in Items : Rivals(i, j) => \A u \in Claims(j) : Apart(draft[m].slot, u)
    BY <2>0, <2>1 DEF Spaced, Granted
  <2>3. \A j \in Items : InFlight(j)' <=> InFlight(j)
    BY <2>1 DEF InFlight
  <2>4. \A j \in Items \ {i} : Claims(j)' \subseteq Claims(j)
    BY <2>1, <2>3 DEF Claims
  <2>5. \A t \in Claims(i)' : t = draft[m].slot \/ t \in Claims(i)
    BY <2>1, <2>3 DEF Claims
  <2> QED
    BY <2>1, <2>2, <2>4, <2>5, KeepsApart
<1>4. ASSUME NEW i \in Items,
             \/ \E C \in SUBSET TargetsOf[i] : KeepsSlot(i, C)
             \/ \E at \in 1..(LastApproval + Interval) : SchedulesByHand(i, at)
      PROVE  Spaced'
  <2>1. /\ i \in ByHand
        /\ \A j \in Items \ {i} : status'[j] = status[j] /\ slot'[j] = slot[j]
        /\ UNCHANGED <<published, tasks, draft, now>>
    BY <1>4, ByHandEffect
  <2>2. \A j \in Items : ~Rivals(i, j) /\ ~Rivals(j, i)
    BY <2>1 DEF Rivals, InTurn
  <2>3. \A j \in Items \ {i} : Claims(j)' \subseteq Claims(j)
    BY <2>1 DEF Claims, InFlight
  <2>4. \A n \in Moderators : draft'[n] = NoDraft \/ (draft'[n] = draft[n] /\ Granted(n)' = Granted(n) /\ ~Rivals(draft[n].item, i))
    BY <2>1, <2>2, DraftType DEF Granted
  <2> QED
    BY <2>2, <2>3, <2>4, KeepsApart
<1>6. CASE BeatEnqueues
  <2>1. UNCHANGED <<status, slot, published, draft, now>>
    BY <1>6 DEF BeatEnqueues, rows
  <2>2. ASSUME NEW j \in Items PROVE Claims(j)' \subseteq Claims(j)
    <3>1. now \in Nat /\ slot[j] \in Nat
      BY DEF TypeOK
    <3>2. ASSUME Lag = 0, j \in Due PROVE status[j] = "scheduled" /\ slot[j] = now
      BY <3>1, <3>2 DEF Due, Dispatch
    <3>3. InFlight(j)' <=> InFlight(j) \/ j \in Due
      BY <1>6, BeatEffect
    <3> QED
      BY <2>1, <3>1, <3>2, <3>3 DEF Claims
  <2> QED
    BY <2>1, <2>2, StaysSpaced DEF Granted
<1>7. ASSUME NEW call \in tasks, Publishes(call) PROVE Spaced'
  <2> DEFINE i == call.item
  <2>1. /\ i \in Items
        /\ \A j \in Items : /\ status'[j] = IF j = i THEN "published" ELSE status[j]
                            /\ published'[j] = IF j = i THEN now ELSE published[j]
        /\ tasks' = {other \in tasks : other.item # i}
        /\ UNCHANGED <<slot, processed, draft, now>>
    BY <1>7, PublishesEffect
  <2>2. InFlight(i)
    BY DEF InFlight
  <2> HIDE DEF i
  <2>3. \A j \in Items : InFlight(j)' => InFlight(j)
    BY <2>1 DEF InFlight
  <2>4. \A j \in Items : Claims(j)' \subseteq Claims(j)
    BY <2>1, <2>2, <2>3 DEF Claims
  <2> QED
    BY <2>1, <2>4, StaysSpaced DEF Granted
<1>8. CASE Tick
  <2>1. /\ tasks = {} /\ now' = now + 1 /\ UNCHANGED <<status, slot, published, tasks, draft>>
        /\ \A m \in Moderators : draft[m] = NoDraft
    BY <1>8 DEF Tick, rows
  <2>2. now \in Nat /\ slot \in [Items -> Nat]
    BY DEF TypeOK
  <2>3. \A j \in Items : Claims(j)' \subseteq Claims(j)
    BY <2>1, <2>2 DEF Claims, InFlight
  <2>4. \A m \in Moderators : draft'[m] = NoDraft \/ (draft'[m] = draft[m] /\ Granted(m)' = Granted(m))
    BY <2>1
  <2> QED
    BY <2>3, <2>4, StaysSpaced
<1>9. CASE UNCHANGED vars
  <2>1. UNCHANGED <<status, slot, published, tasks, draft, now>>
    BY <1>9 DEF vars, rows
  <2>2. \A j \in Items : Claims(j)' \subseteq Claims(j)
    BY <2>1 DEF Claims, InFlight
  <2> QED
    BY <2>1, <2>2, StaysSpaced DEF Granted
<1> QED
  BY <1>1, <1>2, <1>3, <1>4, <1>6, <1>7, <1>8, <1>9 DEF Next, Approval


-----------------------------------------------------------------------------
(* Whoever waits, waits for another item. *)

LEMMA BlamedInit == Init => Blamed
  BY DEF Init, Blamed

\* What keeps a channel busy goes on doing so while items of others are decided or posted.
LEMMA StaysBusy ==
  ASSUME NEW c, NEW i, Busy(c, i),
         \A j \in Items \ {i} : posted'[j] = posted[j] /\ status'[j] = status[j] /\ CallCities(j)' = CallCities(j),
         \A call \in tasks : call.item # i => call \in tasks',
         now' = now
  PROVE  Busy(c, i)'
<1>1. PICK j \in Items \ {i} : \/ posted[j][c] # 0 /\ posted[j][c] + Interval > now
                               \/ status[j] = "scheduled" /\ c \in CallCities(j)
                               \/ \E call \in tasks : call.item = j /\ c \in call.cities
  BY DEF Busy
<1>2. \/ posted'[j][c] # 0 /\ posted'[j][c] + Interval > now'
      \/ status'[j] = "scheduled" /\ c \in CallCities(j)'
      \/ \E call \in tasks' : call.item = j /\ c \in call.cities
  BY <1>1
<1> QED
  BY <1>2 DEF Busy

LEMMA BlamedStep ==
  ASSUME InTurn, TypeOK, Whole, Whole', Dispatch, Blamed, [Next]_vars
  PROVE  Blamed'
<1> USE Constants
<1>0. \A j \in Items : CallCities(j) = TargetsOf[j] /\ CallCities(j)' = TargetsOf[j]
  BY DEF CallCities, Whole
<1>1. ASSUME NEW m \in Moderators, NEW i \in Items, NEW C \in SUBSET TargetsOf[i], NEW Q, NEW s \in 1..(MaxNow + Interval),
             ReadsQueue(m, i, C, Q, s)
      PROVE  Blamed'
  <2>1. /\ UNCHANGED <<status, slot, approved, published, tasks, now, posted>>
        /\ C = TargetsOf[i] /\ approved[i] = {}
        /\ \A n \in Moderators : n = m
    <3>1. UNCHANGED <<status, slot, approved, published, tasks, now, posted>>
      BY <1>1 DEF ReadsQueue, rows
    <3>2. C = TargetsOf[i] /\ approved[i] = {}
      BY <1>1, ReadsAll
    <3>3. \A n \in Moderators : n = m
      BY DEF InTurn
    <3> QED
      BY <3>1, <3>2, <3>3
  <2>2. draft'[m].item = i /\ draft'[m].slot = IF s <= now THEN 0 ELSE s
    <3>1. draft'[m] = [item |-> i, cities |-> C, slot |-> IF s <= now THEN 0 ELSE s]
      BY <1>1 DEF ReadsQueue, TypeOK
    <3> QED
      BY <3>1
  <2>3. now \in Nat /\ s \in Nat /\ published[i] = 0
    BY <2>1 DEF TypeOK, Whole
  <2>4. ASSUME s > now, i \notin ByHand
        PROVE  Interval > 0 /\ \E c \in TargetsOf[i] : Busy(c, i)
    <3>1. Interval > 0 /\ NextSlot(s, Markers(i, C, Q))
      BY <1>1, <2>3, <2>4 DEF ReadsQueue, JumpsQueue
    <3>2. PICK mk \in Markers(i, C, Q) : s = mk + Interval
      BY <2>3, <2>4, <3>1 DEF NextSlot
    <3>3. ASSUME NEW k \in Sharing(C), k # i PROVE \E c \in TargetsOf[i] : c \in TargetsOf[k] /\ c \in Cities
      BY <2>1, <3>3 DEF Sharing
    <3>4. CASE mk \in Waiting(C, Q)
      <4>1. PICK k \in Q \cap Sharing(C) : status[k] = "scheduled" /\ slot[k] >= now
        BY <3>4 DEF Waiting
      <4>2. k # i
        <5>1. slot[i] = 0
          BY <2>1, <2>4 DEF Whole
        <5> QED
          BY <4>1, <5>1 DEF TypeOK
      <4>3. PICK c \in TargetsOf[i] : c \in TargetsOf[k]
        BY <3>3, <4>2
      <4>4. k \in Items \ {i}
        BY <4>1, <4>2 DEF Sharing
      <4> QED
        BY <1>0, <3>1, <4>1, <4>3, <4>4 DEF Busy
    <3>5. CASE mk \in Published(C)
      <4>1. PICK k \in Sharing(C) : published[k] # 0 /\ mk = published[k]
        BY <3>5 DEF Published
      <4>2. k # i /\ k \in Items
        BY <2>3, <4>1 DEF Sharing
      <4>3. PICK c \in TargetsOf[i] : c \in TargetsOf[k] /\ c \in Cities
        BY <3>3, <4>2
      <4>4. posted[k][c] = published[k]
        BY <4>2, <4>3 DEF Whole
      <4>5. published[k] + Interval > now
        BY <2>4, <3>2, <4>1
      <4> QED
        BY <3>1, <4>1, <4>2, <4>3, <4>4, <4>5 DEF Busy
    <3>6. CASE mk \in Dispatched(i, C)
      <4>1. PICK k \in Sharing(C) \ {i} : status[k] = "approved"
        BY <3>6 DEF Dispatched
      <4>2. PICK c \in TargetsOf[i] : c \in TargetsOf[k]
        BY <3>3
      <4>3. k \in Items \ {i} /\ InFlight(k)
        BY <4>1 DEF Sharing, Dispatch
      <4>4. PICK call \in tasks : call.item = k
        BY <4>3 DEF InFlight
      <4>5. c \in call.cities
        BY <4>2, <4>4 DEF Whole
      <4> QED
        BY <3>1, <4>2, <4>3, <4>4, <4>5 DEF Busy
    <3> QED
      BY <3>2, <3>4, <3>5, <3>6 DEF Markers
  <2>5. \A c : Busy(c, i)' <=> Busy(c, i)
    BY <2>1 DEF Busy, CallCities
  <2>6. draft'[m].slot # 0 /\ i \notin ByHand => Interval > 0 /\ \E c \in TargetsOf[i] : Busy(c, i)'
    BY <2>1, <2>2, <2>3, <2>4, <2>5
  <2>7. SUFFICES ASSUME draft'[m].slot # 0, draft'[m].item \notin ByHand
                 PROVE  Interval > 0 /\ \E c \in TargetsOf[draft'[m].item] : Busy(c, draft[m].item)'
    BY <2>1 DEF Blamed
  <2> QED
    BY <2>2, <2>6, <2>7
<1>2. ASSUME NEW m \in Moderators, CommitsNow(m) \/ CommitsSlot(m) PROVE Blamed'
  <2>1. \A n \in Moderators : draft'[n] = NoDraft
    BY <1>2, CommitsNowEffect, CommitsSlotEffect
  <2> QED
    BY <2>1 DEF Blamed
<1>3. ASSUME draft' = draft,
             \A i \in Items, c \in Cities : Unlocked(i) \/ Interval = 0 \/ (Busy(c, i) => Busy(c, i)')
      PROVE  Blamed'
  <2>0. SUFFICES ASSUME NEW m \in Moderators, draft[m] # NoDraft, draft[m].slot # 0, draft[m].item \notin ByHand
                 PROVE  Interval > 0 /\ \E c \in TargetsOf[draft[m].item] : Busy(c, draft[m].item)'
    BY <1>3 DEF Blamed
  <2>1. PICK i \in Items : i = draft[m].item
    BY <2>0, DraftType
  <2>2. PICK c \in TargetsOf[i] : Interval > 0 /\ Busy(c, i)
    BY <2>0, <2>1 DEF Blamed
  <2>3. Busy(c, i)'
    BY <1>3, <2>1, <2>2 DEF Unlocked
  <2>4. draft'[m].item = i
    BY <1>3, <2>1
  <2> QED
    BY <2>1, <2>2, <2>3, <2>4
<1>4. ASSUME NEW k \in Items,
             \/ \E C \in SUBSET TargetsOf[k] : KeepsSlot(k, C)
             \/ \E at \in 1..(LastApproval + Interval) : SchedulesByHand(k, at)
      PROVE  Blamed'
  <2>1. /\ status'[k] = "scheduled" /\ \A j \in Items \ {k} : status'[j] = status[j]
        /\ UNCHANGED <<tasks, draft, now, posted>>
    BY <1>4, ByHandEffect
  <2>2. ASSUME NEW i \in Items, NEW c, Busy(c, i) PROVE Busy(c, i)'
    BY <1>0, <2>1, <2>2 DEF Busy
  <2> QED
    BY <1>3, <2>1, <2>2
<1>6. CASE BeatEnqueues
  <2>1. UNCHANGED <<status, posted, draft, now>> /\ tasks \subseteq tasks'
    BY <1>6 DEF BeatEnqueues, rows
  <2>2. ASSUME NEW i \in Items, NEW c, Busy(c, i) PROVE Busy(c, i)'
    BY <1>0, <2>1, <2>2, StaysBusy
  <2> QED
    BY <1>3, <2>1, <2>2
<1>7. ASSUME NEW call \in tasks, Publishes(call) PROVE Blamed'
  <2> DEFINE k == call.item
  <2>1. /\ k \in Items /\ published[k] = 0
        /\ \A j \in Items : /\ status'[j] = IF j = k THEN "published" ELSE status[j]
                            /\ j # k => posted'[j] = posted[j]
        /\ \A c \in TargetsOf[k] : posted'[k][c] = now
        /\ tasks' = {other \in tasks : other.item # k}
        /\ UNCHANGED <<draft, now>>
    BY <1>7, PublishesEffect
  <2> HIDE DEF k
  <2>2. ASSUME NEW i \in Items, NEW c \in Cities, Interval # 0, ~Unlocked(i), Busy(c, i) PROVE Busy(c, i)'
    <3>0. now \in Nat /\ now > 0 /\ posted \in [Items -> [Cities -> Nat]]
      BY DEF TypeOK
    <3>1. PICK j \in Items \ {i} : \/ posted[j][c] # 0 /\ posted[j][c] + Interval > now
                                   \/ status[j] = "scheduled" /\ c \in CallCities(j)
                                   \/ \E other \in tasks : other.item = j /\ c \in other.cities
      BY <2>2 DEF Busy
    <3>2. CASE j # k
      BY <1>0, <2>1, <3>1, <3>2 DEF Busy
    <3>3. CASE j = k
      <4>1. posted[k][c] = 0
        BY <2>1 DEF Whole
      <4>2. c \in TargetsOf[k]
        BY <1>0, <3>1, <3>3, <4>1 DEF Whole
      <4>3. posted'[k][c] # 0 /\ posted'[k][c] + Interval > now'
        BY <2>1, <2>2, <3>0, <4>2
      <4> QED
        BY <3>3, <4>3 DEF Busy
    <3> QED
      BY <3>2, <3>3
  <2> QED
    BY <1>3, <2>1, <2>2
<1>8. CASE Tick
  BY <1>8 DEF Tick, Blamed
<1>9. CASE UNCHANGED vars
  <2>1. UNCHANGED <<status, approved, posted, tasks, draft, now>>
    BY <1>9 DEF vars, rows
  <2>2. ASSUME NEW i \in Items, NEW c, Busy(c, i) PROVE Busy(c, i)'
    BY <1>0, <2>1, <2>2, StaysBusy
  <2> QED
    BY <1>3, <2>1, <2>2
<1> QED
  BY <1>1, <1>2, <1>4, <1>6, <1>7, <1>8, <1>9 DEF Next, Approval


-----------------------------------------------------------------------------

LEMMA Inductive == ASSUME InTurn PROVE Spec => []QueueInv
<1>1. Init => QueueInv
  BY TypeInit, WholeInit, DispatchInit, SpacedInit, BlamedInit DEF QueueInv
<1>2. QueueInv /\ [Next]_vars => QueueInv'
  <2> SUFFICES ASSUME QueueInv, [Next]_vars PROVE QueueInv'
    OBVIOUS
  <2>1. TypeOK /\ Whole /\ Dispatch /\ Spaced /\ Blamed /\ TypeOK'
    BY TypeStep DEF QueueInv
  <2>2. Whole'
    BY <2>1, WholeStep
  <2>3. Dispatch' /\ Spaced'
    BY <2>1, DispatchStep, SpacedStep
  <2>4. Blamed'
    BY <2>1, <2>2, BlamedStep
  <2> QED
    BY <2>1, <2>2, <2>3, <2>4 DEF QueueInv
<1> QED
  BY <1>1, <1>2, PTL DEF Spec

\* However many items are approved one after another, those that wait for the same channel
\* have slots an interval apart: _schedule_publication sees every item that is waiting,
\* being sent, or was sent within the interval.
THEOREM SlotsAreApart == ASSUME InTurn PROVE Spec => []SlotsApart
<1>1. QueueInv => SlotsApart
  <2> SUFFICES ASSUME QueueInv, NEW i \in Items, NEW j \in Items, i # j,
                      status[i] = "scheduled", status[j] = "scheduled", slot[i] >= now, slot[j] >= now,
                      CallCities(i) \cap CallCities(j) # {}
               PROVE  Apart(slot[i], slot[j])
    BY DEF SlotsApart
  <2>1. CallCities(i) = TargetsOf[i] /\ CallCities(j) = TargetsOf[j]
    BY DEF QueueInv, Whole, CallCities
  <2>2. Rivals(i, j)
    BY <2>1 DEF QueueInv, Whole, Rivals
  <2>3. slot[i] \in Claims(i) /\ slot[j] \in Claims(j)
    BY ClaimIs
  <2> QED
    BY <2>2, <2>3 DEF QueueInv, Spaced
<1> QED
  BY <1>1, Inductive, PTL

\* If beat and the workers are punctual, the posts themselves are an interval apart in every
\* channel, but for the urgent ones.
THEOREM PostsAreApart == ASSUME InTurn, Lag = 0 PROVE Spec => []PostsApart
<1>1. QueueInv => PostsApart
  <2> SUFFICES ASSUME QueueInv, NEW c \in Cities, NEW i \in Items \ Urgent, NEW j \in Items \ Urgent, i # j,
                      posted[i][c] # 0, posted[j][c] # 0
               PROVE  Apart(posted[i][c], posted[j][c])
    BY DEF PostsApart
  <2>1. /\ c \in TargetsOf[i] /\ posted[i][c] = published[i]
        /\ c \in TargetsOf[j] /\ posted[j][c] = published[j]
    BY DEF QueueInv, Whole
  <2>2. Rivals(i, j)
    BY <2>1 DEF Rivals
  <2>3. published[i] \in Claims(i) /\ published[j] \in Claims(j)
    BY <2>1, ClaimIs
  <2> QED
    BY <2>1, <2>2, <2>3 DEF QueueInv, Spaced
<1> QED
  BY <1>1, Inductive, PTL

\* An item begins to wait only because another one was just posted, is being posted or waits
\* in one of its channels, however late beat is: an approval never queues up behind nothing,
\* nor behind the posts of other cities.
THEOREM WaitsForItsOwn == ASSUME InTurn PROVE Spec => OwnQueueOnly
<1> USE Constants
<1>1. ASSUME QueueInv, [Next]_vars, NEW i \in Items \ ByHand, status'[i] = "scheduled", status[i] # "scheduled"
      PROVE  \E c \in approved'[i] : Busy(c, i)
  <2>0. TypeOK /\ Whole /\ Dispatch /\ Blamed
    BY <1>1 DEF QueueInv
  <2>1. ASSUME NEW m \in Moderators, CommitsSlot(m) PROVE \E c \in approved'[i] : Busy(c, i)
    <3>1. /\ draft[m].slot # 0 /\ draft[m] # NoDraft
          /\ \A j \in Items : /\ status'[j] = IF j = draft[m].item THEN "scheduled" ELSE status[j]
                              /\ approved'[j] = IF j = draft[m].item THEN TargetsOf[draft[m].item] ELSE approved[j]
      BY <2>0, <2>1, CommitsSlotEffect
    <3>2. i = draft[m].item /\ approved'[i] = TargetsOf[i]
      BY <1>1, <3>1
    <3> QED
      BY <2>0, <3>1, <3>2 DEF Blamed
  <2>2. ASSUME NEW m \in Moderators, CommitsNow(m) PROVE FALSE
    <3>1. \A j \in Items : status'[j] = IF j = draft[m].item THEN "approved" ELSE status[j]
      BY <2>0, <2>2, CommitsNowEffect
    <3> QED
      BY <1>1, <3>1
  <2>3. ASSUME NEW m \in Moderators, NEW k \in Items, NEW C \in SUBSET TargetsOf[k], NEW Q, NEW s \in 1..(MaxNow + Interval),
               ReadsQueue(m, k, C, Q, s)
        PROVE  FALSE
    BY <1>1, <2>3 DEF ReadsQueue, rows
  <2>4. ASSUME NEW k \in Items,
               \/ \E C \in SUBSET TargetsOf[k] : KeepsSlot(k, C)
               \/ \E at \in 1..(LastApproval + Interval) : SchedulesByHand(k, at)
        PROVE  FALSE
    <3>1. k \in ByHand /\ \A j \in Items \ {k} : status'[j] = status[j]
      BY <2>0, <2>4, ByHandEffect
    <3> QED
      BY <1>1, <3>1
  <2>5. ASSUME NEW call \in tasks, Publishes(call) PROVE FALSE
    <3>1. \A j \in Items : status'[j] = IF j = call.item THEN "published" ELSE status[j]
      BY <2>0, <2>5, PublishesEffect
    <3> QED
      BY <1>1, <3>1
  <2>6. CASE BeatEnqueues \/ Tick \/ UNCHANGED vars
    BY <1>1, <2>6 DEF BeatEnqueues, Tick, vars, rows
  <2> QED
    BY <1>1, <2>1, <2>2, <2>3, <2>4, <2>5, <2>6 DEF Next, Approval
<1>2. QueueInv /\ [Next]_vars =>
        [\A i \in Items \ ByHand :
            status'[i] = "scheduled" /\ status[i] # "scheduled" => \E c \in approved'[i] : Busy(c, i)]_vars
  BY <1>1
<1> QED
  BY <1>2, Inductive, PTL DEF Spec, OwnQueueOnly

-----------------------------------------------------------------------------
(* How long the queue gets. *)

\* The items that take their slots from the queue.
Waiters == Items \ (Urgent \cup ByHand)

\* A slot is an interval away from now, or from the slot of an item that waits as well.
Linked(t) ==
  \/ t <= now + Interval
  \/ \E k \in Waiters : slot[k] >= now /\ slot[k] + Interval = t

\* The slots still to come form a chain that starts at the present.  An item published
\* early keeps its slot and stays a link.
Chain ==
  /\ \A j \in Waiters : slot[j] >= now => Interval > 0 /\ Linked(slot[j])
  /\ \A m \in Moderators : draft[m] # NoDraft /\ draft[m].slot # 0 /\ draft[m].item \notin ByHand =>
        Linked(draft[m].slot)

LEMMA ChainInit == Init => Chain
  BY DEF Init, Chain, Waiters

\* As time passes a link falls out of the chain only when its successor is the next.
LEMMA StaysLinked ==
  ASSUME TypeOK, TypeOK', now' \in {now, now + 1}, \A k \in Waiters : slot'[k] = slot[k] \/ slot[k] < now,
         NEW t \in Nat, Linked(t)
  PROVE  Linked(t)'
<1>0. now \in Nat /\ now' \in Nat /\ Interval \in Nat
  BY Constants DEF TypeOK
<1>1. CASE t <= now + Interval
  <2>1. t <= now' + Interval
    BY <1>0, <1>1
  <2> QED
    BY <2>1 DEF Linked
<1>2. CASE \E k \in Waiters : slot[k] >= now /\ slot[k] + Interval = t
  <2>1. PICK k \in Waiters : slot[k] >= now /\ slot[k] + Interval = t
    BY <1>2
  <2>2. PICK u \in Nat : u = slot[k]
    BY DEF Waiters, TypeOK
  <2>3. u >= now /\ u + Interval = t
    BY <2>1, <2>2
  <2>4. slot'[k] = u
    BY <1>0, <2>2, <2>3
  <2>5. CASE u >= now'
    BY <2>3, <2>4, <2>5 DEF Linked
  <2>6. CASE u + 1 <= now'
    <3>1. u + Interval <= now' + Interval
      BY <1>0, <2>6
    <3> QED
      BY <2>3, <3>1 DEF Linked
  <2> QED
    BY <1>0, <2>5, <2>6
<1> QED
  BY <1>1, <1>2 DEF Linked

\* What an approval reads of the queue is past, or the slot of an item that waits.
LEMMA ReadsLinked ==
  ASSUME TypeOK, Whole, InTurn, NEW m \in Moderators, NEW i \in Items \ ByHand, NEW C \in SUBSET TargetsOf[i],
         NEW Q, NEW s \in 1..(MaxNow + Interval), ReadsQueue(m, i, C, Q, s)
  PROVE  Linked(s)
<1> USE Constants
<1>0. now \in Nat /\ s \in Nat /\ Interval \in Nat
  BY DEF TypeOK
<1>1. i \in Items /\ C = TargetsOf[i]
  BY ReadsEffect
<1>2. CASE s = now
  BY <1>0, <1>2 DEF Linked
<1>3. CASE s # now
  <2>1. NextSlot(s, Markers(i, C, Q))
    BY <1>3 DEF ReadsQueue
  <2>2. PICK mk \in Markers(i, C, Q) : s = mk + Interval
    BY <1>3, <2>1 DEF NextSlot
  <2>3. CASE mk \in Waiting(C, Q)
    <3>1. PICK k \in Q \cap Sharing(C) : status[k] = "scheduled" /\ slot[k] >= now /\ mk = slot[k]
      BY <2>3 DEF Waiting
    <3>2. k \in Items /\ TargetsOf[k] \cap TargetsOf[i] # {}
      BY <1>1, <3>1 DEF Sharing
    <3>3. k \notin Urgent
      BY <3>1 DEF Whole
    <3>4. k \notin ByHand
      BY <3>2 DEF InTurn
    <3> QED
      BY <2>2, <3>1, <3>2, <3>3, <3>4 DEF Linked, Waiters
  <2>4. CASE mk \in Published(C)
    <3>1. PICK k \in Items : mk = published[k]
      BY <2>4 DEF Published, Sharing
    <3>2. mk <= now /\ mk \in Nat
      BY <3>1 DEF Whole, TypeOK
    <3> QED
      BY <1>0, <2>2, <3>2 DEF Linked
  <2>5. CASE mk \in Dispatched(i, C)
    <3>1. PICK k \in Items : mk = processed[k]
      BY <2>5 DEF Dispatched, Sharing
    <3>2. mk <= now /\ mk \in Nat
      BY <3>1 DEF Whole, TypeOK
    <3> QED
      BY <1>0, <2>2, <3>2 DEF Linked
  <2> QED
    BY <2>2, <2>3, <2>4, <2>5 DEF Markers
<1> QED
  BY <1>2, <1>3

\* A step that gives no slot in the queue keeps the chain.
LEMMA StaysChained ==
  ASSUME TypeOK, TypeOK', Chain, now' \in {now, now + 1}, \A k \in Waiters : slot'[k] = slot[k],
         \A n \in Moderators : draft'[n] = NoDraft \/ draft'[n] = draft[n]
  PROVE  Chain'
<1>1. ASSUME NEW t \in Nat, Linked(t) PROVE Linked(t)'
  BY <1>1, StaysLinked
<1>2. ASSUME NEW j \in Waiters, slot'[j] >= now'
      PROVE  Interval > 0 /\ \E t \in Nat : t = slot'[j] /\ Linked(t)'
  <2>1. PICK t : t = slot[j]
    OBVIOUS
  <2>2. t \in Nat /\ t = slot'[j] /\ t >= now
    BY <1>2, <2>1 DEF TypeOK, Waiters
  <2>3. Interval > 0 /\ Linked(t)
    BY <2>1, <2>2 DEF Chain
  <2> QED
    BY <1>1, <2>2, <2>3
<1>3. ASSUME NEW n \in Moderators, draft'[n] # NoDraft, draft'[n].slot # 0, draft'[n].item \notin ByHand
      PROVE  \E t \in Nat : t = draft'[n].slot /\ Linked(t)'
  <2>1. PICK t : t = draft[n].slot
    OBVIOUS
  <2>2. draft'[n] = draft[n]
    BY <1>3
  <2>3. t \in Nat
    BY <1>3, <2>1, <2>2, DraftType
  <2>4. Linked(t)
    BY <1>3, <2>1, <2>2 DEF Chain
  <2> QED
    BY <1>1, <2>1, <2>2, <2>3, <2>4
<1> QED
  BY <1>2, <1>3 DEF Chain, Linked

LEMMA ChainStep ==
  ASSUME InTurn, QueueInv, TypeOK', Chain, [Next]_vars
  PROVE  Chain'
<1> USE Constants
<1>0. TypeOK /\ Whole /\ Dispatch /\ Blamed
  BY DEF QueueInv
<1>1. ASSUME NEW m \in Moderators, NEW i \in Items, NEW C \in SUBSET TargetsOf[i], NEW Q, NEW s \in 1..(MaxNow + Interval),
             ReadsQueue(m, i, C, Q, s)
      PROVE  Chain'
  <2>1. /\ UNCHANGED <<slot, now>>
        /\ \A n \in Moderators : draft'[n].item = i /\ draft'[n].slot = IF s <= now THEN 0 ELSE s
    <3>1. UNCHANGED <<slot, now>>
      BY <1>1 DEF ReadsQueue, rows
    <3>2. \A n \in Moderators : draft'[n].item = i /\ draft'[n].slot = IF s <= now THEN 0 ELSE s
      <4>1. draft'[m] = [item |-> i, cities |-> C, slot |-> IF s <= now THEN 0 ELSE s]
        BY <1>0, <1>1 DEF ReadsQueue, TypeOK
      <4>2. draft'[m].item = i /\ draft'[m].slot = IF s <= now THEN 0 ELSE s
        BY <4>1
      <4>3. \A n \in Moderators : n = m
        BY DEF InTurn
      <4> QED
        BY <4>2, <4>3
    <3> QED
      BY <3>1, <3>2
  <2>2. i \notin ByHand => Linked(s)
    BY <1>0, <1>1, ReadsLinked
  <2>3. i \notin ByHand => Linked(s)'
    BY <2>1, <2>2 DEF Linked
  <2>4. \A j \in Waiters : slot'[j] >= now' => Interval > 0 /\ Linked(slot[j])
    BY <2>1 DEF Chain
  <2> QED
    BY <2>1, <2>3, <2>4 DEF Chain, Linked
<1>2. ASSUME NEW m \in Moderators, CommitsNow(m) PROVE Chain'
  <2>1. /\ draft[m] # NoDraft /\ now' = now
        /\ \A j \in Items : slot'[j] = IF j = draft[m].item THEN 0 ELSE slot[j]
        /\ \A n \in Moderators : draft'[n] = NoDraft
    BY <1>0, <1>2, CommitsNowEffect
  <2>2. draft[m].item \in Items /\ (draft[m].item \notin ByHand => slot[draft[m].item] = 0)
    BY <1>0, <2>1 DEF Whole
  <2>3. \A k \in Waiters : slot'[k] = slot[k]
    BY <2>1, <2>2 DEF Waiters
  <2> QED
    BY <1>0, <2>1, <2>3, StaysChained
<1>3. ASSUME NEW m \in Moderators, CommitsSlot(m) PROVE Chain'
  <2> DEFINE i == draft[m].item
  <2>1. /\ i \in Items /\ draft[m].slot # 0 /\ draft[m] # NoDraft
        /\ \A j \in Items : slot'[j] = IF j = i THEN draft[m].slot ELSE slot[j]
        /\ now' = now
        /\ \A n \in Moderators : draft'[n] = NoDraft
    BY <1>0, <1>3, CommitsSlotEffect
  <2>2. i \notin ByHand => slot[i] = 0
    BY <1>0, <2>1 DEF Whole
  <2>3. PICK s : s = draft[m].slot
    OBVIOUS
  <2>4. s \in Nat /\ now \in Nat /\ now > 0
    BY <1>0, <2>1, <2>3, DraftType DEF TypeOK
  <2>5. i \notin ByHand => Interval > 0 /\ Linked(s)
    BY <1>0, <2>1, <2>3 DEF Chain, Blamed
  <2> HIDE DEF i
  <2>6. \A k \in Waiters : slot'[k] = slot[k] \/ slot[k] < now
    BY <2>1, <2>2, <2>4 DEF Waiters
  <2>7. ASSUME NEW t \in Nat, Linked(t) PROVE Linked(t)'
    BY <1>0, <2>1, <2>6, <2>7, StaysLinked
  <2>8. ASSUME NEW j \in Waiters, slot'[j] >= now'
        PROVE  Interval > 0 /\ \E t \in Nat : t = slot'[j] /\ Linked(t)'
    <3>1. CASE j = i
      <4>1. slot'[j] = s /\ i \notin ByHand
        BY <2>1, <2>3, <3>1 DEF Waiters
      <4> QED
        BY <2>4, <2>5, <2>7, <4>1
    <3>2. CASE j # i
      <4>1. PICK t : t = slot[j]
        OBVIOUS
      <4>2. t \in Nat /\ t = slot'[j] /\ t >= now
        BY <1>0, <2>1, <2>8, <3>2, <4>1 DEF TypeOK, Waiters
      <4>3. Interval > 0 /\ Linked(t)
        BY <4>1, <4>2 DEF Chain
      <4> QED
        BY <2>7, <4>2, <4>3
    <3> QED
      BY <3>1, <3>2
  <2> QED
    BY <2>1, <2>8 DEF Chain, Linked
<1>4. ASSUME NEW k \in Items,
             \/ \E C \in SUBSET TargetsOf[k] : KeepsSlot(k, C)
             \/ \E at \in 1..(LastApproval + Interval) : SchedulesByHand(k, at)
      PROVE  Chain'
  <2>1. k \in ByHand /\ (\A j \in Items \ {k} : slot'[j] = slot[j]) /\ UNCHANGED <<draft, now>>
    BY <1>0, <1>4, ByHandEffect
  <2>2. \A j \in Waiters : slot'[j] = slot[j]
    BY <2>1 DEF Waiters
  <2> QED
    BY <1>0, <2>1, <2>2, StaysChained
<1>5. CASE BeatEnqueues
  BY <1>0, <1>5, StaysChained DEF BeatEnqueues, rows
<1>6. ASSUME NEW call \in tasks, Publishes(call) PROVE Chain'
  <2>1. UNCHANGED <<slot, draft, now>>
    BY <1>6 DEF Publishes
  <2> QED
    BY <1>0, <2>1, StaysChained
<1>7. CASE Tick
  BY <1>0, <1>7, StaysChained DEF Tick, rows
<1>8. CASE UNCHANGED vars
  BY <1>0, <1>8, StaysChained DEF vars, rows
<1> QED
  BY <1>1, <1>2, <1>3, <1>4, <1>5, <1>6, <1>7, <1>8 DEF Next, Approval

\* The links of the chain up to the slot of j.
Ahead(j) == {k \in Waiters : now <= slot[k] /\ slot[k] <= slot[j]}

LEMMA Least ==
  ASSUME NEW S, S \subseteq Nat, S # {}
  PROVE  \E m \in S : \A k \in S : m <= k
<1> DEFINE R == OpToRel(<, Nat)
<1>1. R = {pair \in Nat \X Nat : pair[1] < pair[2]}
  BY DEF OpToRel
<1>2. IsWellFoundedOn(R, Nat)
  BY NatLessThanWellFounded, Zenon
<1> HIDE DEF R
<1>3. PICK m \in S : \A k \in S : <<k, m>> \notin R
  BY <1>2, WFMin
<1>4. ASSUME NEW k \in S PROVE m <= k
  <2> SUFFICES ASSUME k < m PROVE FALSE
    OBVIOUS
  <2>1. <<k, m>> \in R
    BY <1>1
  <2> QED
    BY <1>3, <2>1
<1> QED
  BY <1>4

\* An interval more for each item more.
LEMMA OneMore ==
  ASSUME NEW a \in Nat, NEW b \in Nat, a < b, NEW t \in Nat, NEW u \in Nat, NEW d \in Nat, t <= u + d * a
  PROVE  t + d <= u + d * b
<1>1. PICK c \in Nat : b = a + 1 + c
  <2>1. b - a - 1 \in Nat /\ b = a + 1 + (b - a - 1)
    OBVIOUS
  <2> QED
    BY <2>1
<1>2. d * b = d * a + d + d * c
  BY <1>1
<1>3. d * c \in Nat /\ d * a \in Nat
  OBVIOUS
<1> QED
  BY <1>2, <1>3

LEMMA AtLeastOne ==
  ASSUME NEW b \in Nat, 0 < b, NEW u \in Nat, NEW d \in Nat
  PROVE  u + d <= u + d * b /\ d * b \in Nat
<1>1. u <= u + d * 0 /\ 0 \in Nat
  OBVIOUS
<1>2. u + d <= u + d * b
  BY <1>1, OneMore
<1> QED
  BY <1>2

LEMMA FewerAhead ==
  ASSUME IsFiniteSet(Waiters), NEW S \in SUBSET Waiters, NEW T \in SUBSET Waiters, NEW x \in T, S \subseteq T \ {x}
  PROVE  Cardinality(S) \in Nat /\ Cardinality(T) \in Nat /\ Cardinality(S) < Cardinality(T)
<1>1. IsFiniteSet(T)
  BY FS_Subset
<1>2. IsFiniteSet(T \ {x}) /\ Cardinality(T \ {x}) = Cardinality(T) - 1
  BY <1>1, FS_RemoveElement
<1>3. IsFiniteSet(S) /\ Cardinality(S) <= Cardinality(T \ {x})
  BY <1>2, FS_Subset
<1>4. Cardinality(S) \in Nat /\ Cardinality(T) \in Nat
  BY <1>1, <1>3, FS_CardinalityType
<1> QED
  BY <1>2, <1>3, <1>4

\* A chain is as long as it has links.
LEMMA ChainIsBounded ==
  ASSUME TypeOK, Chain, IsFiniteSet(Waiters), NEW j \in Waiters, slot[j] >= now
  PROVE  slot[j] <= now + Interval * Cardinality(Ahead(j))
<1> USE Constants
<1>0. now \in Nat /\ (\A k \in Waiters : slot[k] \in Nat) /\ (\A k \in Waiters : Ahead(k) \in SUBSET Waiters)
  BY DEF TypeOK, Waiters, Ahead
<1> DEFINE Bad == {k \in Waiters : slot[k] >= now /\ ~(slot[k] <= now + Interval * Cardinality(Ahead(k)))}
<1>1. SUFFICES ASSUME Bad # {} PROVE FALSE
  OBVIOUS
<1>2. PICK i \in Bad : \A k \in Bad : slot[i] <= slot[k]
  <2> DEFINE S == {slot[k] : k \in Bad}
  <2>1. S \subseteq Nat /\ S # {}
    BY <1>0, <1>1
  <2> HIDE DEF S
  <2>2. PICK s \in S : \A t \in S : s <= t
    BY <2>1, Least
  <2> QED
    BY <2>2 DEF S
<1>3. /\ i \in Waiters /\ slot[i] \in Nat /\ slot[i] >= now
      /\ ~(slot[i] <= now + Interval * Cardinality(Ahead(i)))
  BY <1>0
<1>4. i \in Ahead(i)
  BY <1>0, <1>3 DEF Ahead
<1>5. Interval > 0 /\ Linked(slot[i])
  BY <1>3 DEF Chain
<1>6. CASE slot[i] <= now + Interval
  <2>1. 0 < Cardinality(Ahead(i)) /\ Cardinality(Ahead(i)) \in Nat
    BY <1>0, <1>3, <1>4, FewerAhead, FS_EmptySet
  <2>2. /\ now + Interval <= now + Interval * Cardinality(Ahead(i))
        /\ Interval * Cardinality(Ahead(i)) \in Nat
    BY <1>0, <2>1, AtLeastOne
  <2> QED
    BY <1>0, <1>3, <1>6, <2>2
<1>7. CASE \E k \in Waiters : slot[k] >= now /\ slot[k] + Interval = slot[i]
  <2>1. PICK k \in Waiters : slot[k] >= now /\ slot[k] + Interval = slot[i]
    BY <1>7
  <2>2. slot[k] < slot[i] /\ slot[k] \in Nat
    BY <1>0, <1>3, <1>5, <2>1
  <2>3. slot[k] <= now + Interval * Cardinality(Ahead(k))
    <3>1. ~(slot[i] <= slot[k])
      BY <1>3, <2>2
    <3>2. k \notin Bad
      BY <1>2, <3>1
    <3> QED
      BY <2>1, <3>2
  <2>4. Ahead(k) \subseteq Ahead(i) \ {i}
    BY <1>0, <1>3, <2>2 DEF Ahead
  <2>5. /\ Cardinality(Ahead(k)) \in Nat /\ Cardinality(Ahead(i)) \in Nat
        /\ Cardinality(Ahead(k)) < Cardinality(Ahead(i))
    BY <1>0, <1>3, <1>4, <2>1, <2>4, FewerAhead
  <2>6. slot[k] + Interval <= now + Interval * Cardinality(Ahead(i))
    BY <1>0, <2>2, <2>3, <2>5, OneMore
  <2> QED
    BY <1>3, <2>1, <2>6
<1> QED
  BY <1>5, <1>6, <1>7 DEF Linked

LEMMA BoundStep ==
  ASSUME InTurn, QueueInv, Chain, IsFiniteSet(Items), WaitIsBounded, [Next]_vars
  PROVE  WaitIsBounded'
<1> USE Constants
<1>0. TypeOK /\ Whole /\ Dispatch
  BY DEF QueueInv
<1>1. ASSUME \A i \in Items \ ByHand : status'[i] = "scheduled" =>
                status[i] = "scheduled" /\ slot'[i] = slot[i] /\ processed'[i] = processed[i]
      PROVE  WaitIsBounded'
  BY <1>1 DEF WaitIsBounded
<1>2. ASSUME NEW m \in Moderators, NEW i \in Items, NEW C \in SUBSET TargetsOf[i], NEW Q, NEW s \in 1..(MaxNow + Interval),
             ReadsQueue(m, i, C, Q, s)
      PROVE  WaitIsBounded'
  BY <1>1, <1>2 DEF ReadsQueue, rows
<1>3. ASSUME NEW m \in Moderators, CommitsNow(m) PROVE WaitIsBounded'
  <2>1. \A j \in Items : /\ status'[j] = IF j = draft[m].item THEN "approved" ELSE status[j]
                         /\ slot'[j] = IF j = draft[m].item THEN 0 ELSE slot[j]
                         /\ processed'[j] = IF j = draft[m].item THEN now ELSE processed[j]
    BY <1>0, <1>3, CommitsNowEffect
  <2> QED
    BY <1>1, <2>1
<1>4. ASSUME NEW m \in Moderators, CommitsSlot(m) PROVE WaitIsBounded'
  <2>1. /\ draft[m].item \in Items /\ draft[m].slot # 0 /\ draft[m] # NoDraft
        /\ \A j \in Items : /\ status'[j] = IF j = draft[m].item THEN "scheduled" ELSE status[j]
                            /\ slot'[j] = IF j = draft[m].item THEN draft[m].slot ELSE slot[j]
                            /\ processed'[j] = IF j = draft[m].item THEN now ELSE processed[j]
    BY <1>0, <1>4, CommitsSlotEffect
  <2>2. PICK i, s : i = draft[m].item /\ s = draft[m].slot
    OBVIOUS
  <2>3. s \in Nat /\ now \in Nat /\ now > 0
    BY <1>0, <2>1, <2>2, DraftType DEF TypeOK
  <2>4. ASSUME i \notin ByHand
        PROVE  s <= now + Interval * Cardinality(Waiters)
    <3>1. i \in Waiters /\ slot[i] = 0 /\ Linked(s)
      <4>1. i \notin Urgent /\ slot[i] = 0
        BY <1>0, <2>1, <2>2, <2>4 DEF Whole
      <4>2. Linked(s)
        BY <2>1, <2>2, <2>4 DEF Chain
      <4> QED
        BY <2>1, <2>2, <2>4, <4>1, <4>2 DEF Waiters
    <3>2. IsFiniteSet(Waiters) /\ Waiters \in SUBSET Waiters
      BY FS_Subset DEF Waiters
    <3>3. CASE s <= now + Interval
      <4>1. 0 < Cardinality(Waiters) /\ Cardinality(Waiters) \in Nat
        BY <3>1, <3>2, FewerAhead, FS_EmptySet
      <4>2. /\ now + Interval <= now + Interval * Cardinality(Waiters)
            /\ Interval * Cardinality(Waiters) \in Nat
        BY <2>3, <4>1, AtLeastOne
      <4> QED
        BY <2>3, <3>3, <4>2
    <3>4. CASE \E k \in Waiters : slot[k] >= now /\ slot[k] + Interval = s
      <4>1. PICK k \in Waiters : slot[k] >= now /\ slot[k] + Interval = s
        BY <3>4
      <4>2. slot[k] <= now + Interval * Cardinality(Ahead(k))
        BY <1>0, <3>2, <4>1, ChainIsBounded
      <4>3. Ahead(k) \subseteq Waiters \ {i}
        BY <2>3, <3>1 DEF Ahead
      <4>4. /\ Cardinality(Ahead(k)) \in Nat /\ Cardinality(Waiters) \in Nat
            /\ Cardinality(Ahead(k)) < Cardinality(Waiters)
        BY <3>1, <3>2, <4>3, FewerAhead
      <4>5. slot[k] \in Nat
        BY <1>0 DEF TypeOK, Waiters
      <4>6. slot[k] + Interval <= now + Interval * Cardinality(Waiters)
        BY <2>3, <4>2, <4>4, <4>5, OneMore
      <4> QED
        BY <4>1, <4>6
    <3> QED
      BY <3>1, <3>3, <3>4 DEF Linked
  <2>5. ASSUME NEW j \in Items \ ByHand, status'[j] = "scheduled"
        PROVE  slot'[j] <= processed'[j] + Interval * Cardinality(Waiters)
    <3>1. CASE j = i
      BY <2>1, <2>2, <2>4, <3>1
    <3>2. CASE j # i
      <4>1. status[j] = "scheduled" /\ slot'[j] = slot[j] /\ processed'[j] = processed[j]
        BY <2>1, <2>2, <2>5, <3>2
      <4> QED
        BY <4>1 DEF WaitIsBounded, Waiters
    <3> QED
      BY <3>1, <3>2
  <2> QED
    BY <2>5 DEF WaitIsBounded, Waiters
<1>5. ASSUME NEW k \in Items,
             \/ \E C \in SUBSET TargetsOf[k] : KeepsSlot(k, C)
             \/ \E at \in 1..(LastApproval + Interval) : SchedulesByHand(k, at)
      PROVE  WaitIsBounded'
  <2>1. k \in ByHand /\ \A j \in Items \ {k} : /\ status'[j] = status[j] /\ slot'[j] = slot[j]
                                               /\ processed'[j] = processed[j]
    BY <1>0, <1>5, ByHandEffect
  <2> QED
    BY <1>1, <2>1
<1>6. CASE BeatEnqueues
  BY <1>1, <1>6 DEF BeatEnqueues, rows
<1>7. ASSUME NEW call \in tasks, Publishes(call) PROVE WaitIsBounded'
  <2>1. UNCHANGED <<slot, processed>> /\ \A j \in Items : status'[j] = IF j = call.item THEN "published" ELSE status[j]
    BY <1>0, <1>7, PublishesEffect
  <2> QED
    BY <1>1, <2>1
<1>8. CASE Tick
  BY <1>1, <1>8 DEF Tick, rows
<1>9. CASE UNCHANGED vars
  BY <1>1, <1>9 DEF vars, rows
<1> QED
  BY <1>2, <1>3, <1>4, <1>5, <1>6, <1>7, <1>8, <1>9 DEF Next, Approval

\* Nobody waits longer than an interval for each item that takes its slot from the queue:
\* the slots _schedule_publication gives never leave a gap that no waiting item accounts for.
THEOREM WaitsAreBounded == ASSUME InTurn, IsFiniteSet(Items) PROVE Spec => []WaitIsBounded
<1>1. Init => Chain /\ WaitIsBounded
  BY ChainInit DEF Init, WaitIsBounded
<1>2. QueueInv /\ QueueInv' /\ Chain /\ WaitIsBounded /\ [Next]_vars => Chain' /\ WaitIsBounded'
  BY ChainStep, BoundStep DEF QueueInv
<1> QED
  BY <1>1, <1>2, Inductive, PTL DEF Spec
===============================================================================
