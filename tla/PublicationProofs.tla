------------------------- MODULE PublicationProofs -------------------------
(***************************************************************************)
(* What NewsPublication satisfies for all values of its CONSTANTS: any     *)
(* number of cities, channels, moderators, tasks, retries and faults.      *)
(***************************************************************************)
EXTENDS PublicationProperties, FiniteSetTheorems, TLAPS

-----------------------------------------------------------------------------
(* Types. *)

LEMMA Bounds == MaxRetries \in Nat /\ MaxNow \in Nat /\ MaxOps \in Nat /\ MaxFaults \in Nat
  BY ConstantsAssumption

LEMMA Blank == NoMessages \in [Chats -> Nat] /\ NoRow \in Rows
  BY Bounds DEF NoMessages, NoRow, Rows, Status

\* The bounded counters stay within their bounds.
LEMMA FaultCounted ==
  ASSUME TypeOK, NEW kind, Fault(kind)
  PROVE  faults' \in 0..MaxFaults
  BY Bounds DEF TypeOK, Fault

LEMMA OperationCounted ==
  ASSUME TypeOK, NEW s, NEW op, Begins(s, op)
  PROVE  ops' \in 0..MaxOps
  BY Bounds DEF TypeOK, Begins

LEMMA RetriesReset ==
  ASSUME TypeOK, NEW t \in Tasks, ttries' = [ttries EXCEPT ![t] = 0]
  PROVE  ttries' \in [Tasks -> 0..MaxRetries]
  BY Bounds DEF TypeOK

LEMMA TypeInit == Init => TypeOK
<1> SUFFICES ASSUME Init PROVE TypeOK
  OBVIOUS
<1>1. /\ status \in Status
      /\ approved \in SUBSET Cities
      /\ slot \in 0..MaxNow
      /\ tpc \in [Tasks -> TaskPc]
      /\ granted \in SUBSET Cities
  BY Bounds DEF Init, ForModeration, SkipsModeration, Status, TaskPc
<1>2. /\ faults \in 0..MaxFaults
      /\ ops \in 0..MaxOps
      /\ now \in 0..MaxNow
      /\ ttries \in [Tasks -> 0..MaxRetries]
  BY Bounds DEF Init
<1> QED
  BY <1>1, <1>2, Blank DEF Init, TypeOK, SessionPc

\* The steps of an execution of publish_news.
LEMMA WorkerType ==
  ASSUME TypeOK, NEW t \in Tasks, WorkerStep(t)
  PROVE  TypeOK'
<1> USE Bounds, Blank DEF TypeOK, TaskPc, Status, rowVars, chatVars, taskVars,
                                sessVars
<1>1. CASE AcquireLock(t)
  BY <1>1 DEF AcquireLock
<1>2. CASE SkipLocked(t)
  BY <1>2 DEF SkipLocked
<1>3. CASE PublishRaises(t)
  BY <1>3 DEF PublishRaises
<1>4. CASE PublishNothing(t)
  BY <1>4 DEF PublishNothing
<1>5. CASE PublishBegins(t)
  BY <1>5 DEF PublishBegins, Missing, ChannelsOf
<1>6. ASSUME NEW c \in Chats, Send(t, c) PROVE TypeOK'
  <2>1. faults' \in 0..MaxFaults
    BY <1>6, FaultCounted DEF Send
  <2>2. sent' \in [Chats -> Nat]
    BY <1>6 DEF Send
  <2>3. live' \in [Chats -> SUBSET (Nat \ {0})]
    <3>1. live[c] \cup {sent[c] + 1} \in SUBSET (Nat \ {0})
      OBVIOUS
    <3>2. live' = live \/ live' = [live EXCEPT ![c] = live[c] \cup {sent[c] + 1}]
      BY <1>6 DEF Send
    <3> QED
      BY <3>1, <3>2
  <2>4. posted' \in [Tasks -> [Chats -> Nat]]
    <3>1. [posted[t] EXCEPT ![c] = sent[c] + 1] \in [Chats -> Nat]
      OBVIOUS
    <3>2. \/ posted' = posted
          \/ posted' = [posted EXCEPT ![t] = [posted[t] EXCEPT ![c] = sent[c] + 1]]
      BY <1>6 DEF Send
    <3> QED
      BY <3>1, <3>2
  <2>5. todo' \in [Tasks -> SUBSET Chats]
    BY <1>6 DEF Send
  <2> QED
    BY <1>6, <2>1, <2>2, <2>3, <2>4, <2>5 DEF Send
<1>7. CASE PublishCommits(t)
  BY <1>7 DEF PublishCommits, Merged, Covered, CallCities
<1>8. CASE PublishFails(t)
  BY <1>8 DEF PublishFails
<1>9. CASE PublishAborts(t)
  BY <1>9 DEF PublishAborts, Fault
<1>10. CASE ReleaseDone(t)
  <2>1. ttries' \in [Tasks -> 0..MaxRetries]
    BY <1>10, RetriesReset DEF ReleaseDone
  <2> QED
    BY <1>10, <2>1 DEF ReleaseDone, ReleasesLock
<1>11. CASE Retry(t)
  <2>1. ttries' \in [Tasks -> 0..MaxRetries]
    BY <1>11 DEF Retry, RetriesLeft
  <2> QED
    BY <1>11, <2>1 DEF Retry, ReleasesLock
<1>12. CASE GiveUp(t)
  <2>1. ttries' \in [Tasks -> 0..MaxRetries]
    BY <1>12, RetriesReset DEF GiveUp
  <2> QED
    BY <1>12, <2>1 DEF GiveUp, ReleasesLock
<1> HIDE DEF TypeOK
<1> QED
  BY <1>1, <1>2, <1>3, <1>4, <1>5, <1>6, <1>7, <1>8, <1>9, <1>10, <1>11, <1>12
  DEF WorkerStep

\* What happens to tasks and locks besides, and the clock.
LEMMA EnvironmentType ==
  ASSUME TypeOK,
         \/ \E t \in Tasks : WorkerLost(t) \/ BeatPublishes(t)
         \/ \E t, u \in Tasks : Redeliver(t, u)
         \/ LockExpires
         \/ Tick
  PROVE  TypeOK'
<1> USE Bounds, Blank DEF TypeOK, TaskPc, rowVars, chatVars, taskVars, sessVars
<1>1. ASSUME NEW t \in Tasks, WorkerLost(t) PROVE TypeOK'
  <2>1. faults' \in 0..MaxFaults
    BY <1>1, FaultCounted DEF WorkerLost
  <2>2. tpc' \in [Tasks -> TaskPc] /\ tcities' \in [Tasks -> SUBSET Cities]
    BY <1>1 DEF WorkerLost
  <2>3. ttries' \in [Tasks -> 0..MaxRetries]
    BY <1>1, RetriesReset DEF WorkerLost
  <2>4. todo' \in [Tasks -> SUBSET Chats] /\ posted' \in [Tasks -> [Chats -> Nat]]
    BY <1>1 DEF WorkerLost
  <2> QED
    BY <1>1, <2>1, <2>2, <2>3, <2>4 DEF WorkerLost
<1>2. ASSUME NEW t \in Tasks, BeatPublishes(t) PROVE TypeOK'
  BY <1>2 DEF BeatPublishes, Enqueue
<1>3. ASSUME NEW t \in Tasks, NEW u \in Tasks, Redeliver(t, u) PROVE TypeOK'
  BY <1>3 DEF Redeliver, Fault
<1>4. CASE LockExpires
  BY <1>4, FaultCounted DEF LockExpires
<1>5. CASE Tick
  BY <1>5 DEF Tick
<1> QED
  BY <1>1, <1>2, <1>3, <1>4, <1>5

\* What a session does once it has read the row.
LEMMA SessionType ==
  ASSUME TypeOK, NEW s \in Sessions, SessionStep(s)
  PROVE  TypeOK'
<1> USE Bounds, Blank DEF TypeOK, SessionPc, Status, Rows,
                                Finish, Writes, Written, rowVars, chatVars, taskVars,
                                sessVars
<1>1. CASE PanelApproves(s)
  <2>1. status' \in Status /\ approved' \in SUBSET Cities /\ granted' \in SUBSET Cities
    BY <1>1 DEF PanelApproves, Decidable, GoesAtOnce, GetsSlot
  <2>2. slot' \in 0..MaxNow
    BY <1>1 DEF PanelApproves, GoesAtOnce, GetsSlot
  <2>3. spc' \in [Sessions -> SessionPc]
    BY <1>1 DEF PanelApproves, GoesAtOnce, GetsSlot
  <2>4. scities' \in [Sessions -> SUBSET Cities]
    <3>1. Decidable(s, view[s]) \in SUBSET Cities
      BY DEF Decidable
    <3> QED
      BY <1>1, <3>1 DEF PanelApproves, GoesAtOnce, GetsSlot
  <2>5. view' \in [Sessions -> Rows]
    <3> HIDE DEF Rows
    <3> QED
      BY <1>1 DEF PanelApproves
  <2> QED
    BY <1>1, <2>1, <2>2, <2>3, <2>4, <2>5 DEF PanelApproves
<1>2. CASE PanelApprovesOnly(s)
  BY <1>2 DEF PanelApprovesOnly
<1>3. ASSUME NEW t \in Tasks, PanelPublishes(s, t) PROVE TypeOK'
  BY <1>3 DEF PanelPublishes, Decidable, Enqueue, TaskPc, Fault
<1>4. ASSUME NEW at \in 0..MaxNow, PanelSchedules(s, at) PROVE TypeOK'
  BY <1>4 DEF PanelSchedules
<1>5. ASSUME NEW T \in (SUBSET Cities) \ {{}}, NEW b \in BOOLEAN, PanelEdits(s, T, b)
      PROVE  TypeOK'
  BY <1>5 DEF PanelEdits
<1>6. ASSUME NEW t \in Tasks, Dispatch(s, t) PROVE TypeOK'
  BY <1>6 DEF Dispatch, Enqueue, TaskPc
<1>7. CASE Rejects(s)
  BY <1>7 DEF Rejects
<1>8. CASE TakesDown(s)
  BY <1>8 DEF TakesDown, Fault, Recorded
<1>9. CASE Unpublishes(s)
  BY <1>9 DEF Unpublishes
<1>10. CASE Deletes(s)
  BY <1>10 DEF Deletes
<1> HIDE DEF TypeOK
<1> QED
  BY <1>1, <1>2, <1>3, <1>4, <1>5, <1>6, <1>7, <1>8, <1>9, <1>10 DEF SessionStep

LEMMA TypeStep == TypeOK /\ [Next]_vars => TypeOK'
<1> SUFFICES ASSUME TypeOK, [Next]_vars PROVE TypeOK'
  OBVIOUS
<1> USE Bounds, Blank DEF SessionPc, Status, Rows, Finish,
                                rowVars, chatVars, taskVars, sessVars
<1>1. ASSUME NEW t \in Tasks, WorkerStep(t) PROVE TypeOK'
  BY <1>1, WorkerType
<1>2. CASE \/ \E t \in Tasks : WorkerLost(t) \/ BeatPublishes(t)
           \/ \E t, u \in Tasks : Redeliver(t, u)
           \/ LockExpires
           \/ Tick
  BY <1>2, EnvironmentType
<1>3. ASSUME NEW s \in Sessions, SessionStep(s) PROVE TypeOK'
  BY <1>3, SessionType
<1>4. ASSUME NEW s \in Sessions, NEW op \in Operation, ReadRow(s, op) PROVE TypeOK'
  BY <1>4 DEF TypeOK, ReadRow, Begins, Row
<1>5. ASSUME NEW s \in Sessions, NEW op \in Operation, BotApproves(s, op)
      PROVE  TypeOK'
  <2> USE DEF TypeOK
  <2>1. /\ Decidable(s, Row) \in SUBSET Cities
        /\ Row.approved = approved
        /\ Row.status = status
        /\ Row.slot = slot
    BY DEF Decidable, Row
  <2>6. status' \in Status /\ approved' \in SUBSET Cities /\ granted' \in SUBSET Cities
    BY <1>5, <2>1 DEF BotApproves, GoesAtOnce, GetsSlot, Written
  <2>2. slot' \in 0..MaxNow /\ urgent' \in BOOLEAN
    BY <1>5, <2>1 DEF BotApproves, GoesAtOnce, GetsSlot, Written
  <2>3. spc' \in [Sessions -> SessionPc] /\ scities' \in [Sessions -> SUBSET Cities]
    <3>1. \/ spc' = [spc EXCEPT ![s] = "dispatch"] /\ scities' = [scities EXCEPT ![s] = Decidable(s, Row)]
          \/ spc' = [spc EXCEPT ![s] = "idle"] /\ scities' = scities
          \/ spc' = spc /\ scities' = scities
      BY <1>5 DEF BotApproves, GoesAtOnce, GetsSlot
    <3>2. spc \in [Sessions -> SessionPc] /\ scities \in [Sessions -> SUBSET Cities]
      OBVIOUS
    <3>3. "dispatch" \in SessionPc /\ "idle" \in SessionPc
      BY DEF SessionPc
    <3> QED
      BY ONLY <2>1, <3>1, <3>2, <3>3
  <2>4. ops' \in 0..MaxOps /\ faults' \in 0..MaxFaults
    <3>1. Begins(s, op) /\ (faults' = faults \/ Fault("queue"))
      BY <1>5 DEF BotApproves
    <3> QED
      BY <3>1, OperationCounted, FaultCounted
  <2> QED
    BY <1>5, <2>2, <2>3, <2>4, <2>6 DEF BotApproves
<1>6. ASSUME NEW s \in Sessions, Abandon(s) PROVE TypeOK'
  BY <1>6 DEF TypeOK, Abandon
<1>7. ASSUME NEW s \in Sessions, BulkDeletes(s) PROVE TypeOK'
  BY <1>7, OperationCounted DEF TypeOK, BulkDeletes
<1>8. ASSUME NEW s \in Sessions, ApiLost(s) PROVE TypeOK'
  BY <1>8 DEF TypeOK, ApiLost, Fault
<1>9. CASE UNCHANGED vars
  BY <1>9 DEF TypeOK, vars
<1> QED
  BY <1>1, <1>2, <1>3, <1>4, <1>5, <1>6, <1>7, <1>8, <1>9 DEF Next

\* Every variable keeps its type.
THEOREM TypeCorrect == Spec => []TypeOK
<1>1. Init => TypeOK
  BY TypeInit
<1>2. TypeOK /\ [Next]_vars => TypeOK'
  BY TypeStep
<1> QED
  BY <1>1, <1>2, PTL DEF Spec

-----------------------------------------------------------------------------
(* The steps that are none of a worker's: they leave Redis and the work of *)
(* the tasks alone, and put at most one new message in the broker.         *)

OtherStep ==
    \/ \E t \in Tasks : BeatPublishes(t)
    \/ \E t, u \in Tasks : Redeliver(t, u)
    \/ Tick
    \/ \E s \in Sessions :
          \/ \E op \in Operation : ReadRow(s, op) \/ BotApproves(s, op)
          \/ SessionStep(s)
          \/ Abandon(s)
          \/ BulkDeletes(s)
          \/ ApiLost(s)
    \/ UNCHANGED vars

LEMMA StepCases ==
  ASSUME [Next]_vars
  PROVE  \/ \E t \in Tasks : WorkerStep(t) \/ WorkerLost(t)
         \/ LockExpires
         \/ OtherStep
  BY DEF Next, OtherStep

TasksUntouched ==
    /\ redisLock' = redisLock
    /\ todo' = todo
    /\ posted' = posted
    /\ \/ tpc' = tpc
       \/ \E t \in Tasks : tpc[t] = "free" /\ tpc' = [tpc EXCEPT ![t] = "queued"]

LEMMA OtherStepTasks ==
  ASSUME OtherStep
  PROVE  TasksUntouched
<1> USE DEF TasksUntouched, taskVars
<1>1. ASSUME NEW t \in Tasks, BeatPublishes(t) PROVE TasksUntouched
  BY <1>1 DEF BeatPublishes, Enqueue
<1>2. ASSUME NEW t \in Tasks, NEW u \in Tasks, Redeliver(t, u) PROVE TasksUntouched
  BY <1>2 DEF Redeliver
<1>3. CASE Tick
  BY <1>3 DEF Tick
<1>4. ASSUME NEW s \in Sessions, SessionStep(s) PROVE TasksUntouched
  <2>1. ASSUME NEW t \in Tasks, PanelPublishes(s, t) \/ Dispatch(s, t)
        PROVE  TasksUntouched
    BY <2>1 DEF PanelPublishes, Dispatch, Enqueue
  <2>2. ASSUME NEW at \in 0..MaxNow, PanelSchedules(s, at) PROVE TasksUntouched
    BY <2>2 DEF PanelSchedules
  <2>3. ASSUME NEW T \in (SUBSET Cities) \ {{}}, NEW b \in BOOLEAN, PanelEdits(s, T, b)
        PROVE  TasksUntouched
    BY <2>3 DEF PanelEdits
  <2>4. CASE PanelApproves(s) \/ PanelApprovesOnly(s)
    BY <2>4 DEF PanelApproves, PanelApprovesOnly
  <2>5. CASE Rejects(s) \/ TakesDown(s) \/ Unpublishes(s) \/ Deletes(s)
    BY <2>5 DEF Rejects, TakesDown, Unpublishes, Deletes
  <2> HIDE DEF TasksUntouched
  <2> QED
    BY <1>4, <2>1, <2>2, <2>3, <2>4, <2>5 DEF SessionStep
<1>5. ASSUME NEW s \in Sessions, NEW op \in Operation, ReadRow(s, op) \/ BotApproves(s, op)
      PROVE  TasksUntouched
  BY <1>5 DEF ReadRow, BotApproves
<1>6. ASSUME NEW s \in Sessions, Abandon(s) \/ BulkDeletes(s) \/ ApiLost(s)
      PROVE  TasksUntouched
  BY <1>6 DEF Abandon, BulkDeletes, ApiLost
<1>7. CASE UNCHANGED vars
  BY <1>7 DEF vars
<1> HIDE DEF TasksUntouched
<1> QED
  BY <1>1, <1>2, <1>3, <1>4, <1>5, <1>6, <1>7 DEF OtherStep

-----------------------------------------------------------------------------
(* The Redis lock excludes, as long as it does not expire early. *)

LockInv ==
    /\ \A t \in Tasks : Executing(t) => redisLock
    /\ OneExecution

LEMMA LockStep ==
  ASSUME "lockExpiry" \notin Faults, TypeOK, LockInv, [Next]_vars
  PROVE  LockInv'
<1> USE DEF LockInv, OneExecution, Executing
<1>1. ASSUME NEW t \in Tasks, WorkerStep(t) PROVE LockInv'
  <2> USE DEF TypeOK, TaskPc, taskVars
  <2>1. CASE AcquireLock(t)
    BY <2>1 DEF AcquireLock, LockFree
  <2>2. CASE SkipLocked(t)
    BY <2>2 DEF SkipLocked
  <2>3. CASE PublishRaises(t) \/ PublishNothing(t) \/ PublishBegins(t)
    BY <2>3 DEF PublishRaises, PublishNothing, PublishBegins
  <2>4. ASSUME NEW c \in Chats, Send(t, c) PROVE LockInv'
    BY <2>4 DEF Send
  <2>5. CASE PublishCommits(t) \/ PublishFails(t) \/ PublishAborts(t)
    BY <2>5 DEF PublishCommits, PublishFails, PublishAborts
  <2>6. CASE ReleaseDone(t) \/ Retry(t) \/ GiveUp(t)
    <3>1. \A u \in Tasks : ~Executing(u)'
      <4>1. tpc[t] \in {"done", "failed"} /\ \A u \in Tasks \ {t} : tpc'[u] = tpc[u]
        BY <2>6 DEF ReleaseDone, Retry, GiveUp
      <4>2. tpc'[t] \in {"free", "queued"}
        BY <2>6 DEF ReleaseDone, Retry, GiveUp
      <4> QED
        BY <4>1, <4>2
    <3> QED
      BY <3>1
  <2> HIDE DEF LockInv
  <2> QED
    BY <1>1, <2>1, <2>2, <2>3, <2>4, <2>5, <2>6 DEF WorkerStep
<1>2. ASSUME NEW t \in Tasks, WorkerLost(t) PROVE LockInv'
  BY <1>2 DEF WorkerLost, TypeOK
<1>3. ~LockExpires
  BY DEF LockExpires, Fault
<1>4. CASE OtherStep
  BY <1>4, OtherStepTasks DEF TasksUntouched, TypeOK
<1> HIDE DEF LockInv
<1> QED
  BY <1>1, <1>2, <1>3, <1>4, StepCases

\* The Redis lock lets one execution of publish_news at a time through, whatever
\* else fails, as long as an execution ends before the lock expires.
THEOREM LockExcludes ==
  ASSUME "lockExpiry" \notin Faults
  PROVE  Spec => []OneExecution
<1>1. Init => LockInv
  BY DEF Init, ForModeration, SkipsModeration, LockInv, OneExecution, Executing
<1>2. TypeOK /\ LockInv /\ [Next]_vars => LockInv'
  BY LockStep
<1>3. LockInv => OneExecution
  BY DEF LockInv
<1> QED
  BY <1>1, <1>2, <1>3, TypeCorrect, PTL DEF Spec

-----------------------------------------------------------------------------
(* No channel gets the post twice: the filter on published_message_ids and *)
(* the row lock suffice, without the Redis lock.                           *)

\* Nobody withdraws, no answer of Telegram is lost, and nothing rolls a publication
\* back after a send.
NothingIsUndone ==
    /\ \A s \in Sessions : "unpublish" \notin May[s]
    /\ {"answer", "abort", "workerLost"} \cap Faults = {}

NoneWithdraws == \A s \in Sessions : spc[s] \notin {"unpublish", "unpublishing"}

\* What a publication has posted or is about to post has no message in the row, and
\* what a channel shows is in the row or in the publication.
PostInv ==
    /\ \A t, u \in Tasks : tpc[t] = "sending" /\ tpc[u] = "sending" => t = u
    /\ \A t \in Tasks, c \in Chats :
          posted[t][c] # 0 => tpc[t] = "sending" /\ c \notin todo[t] /\ ids[c] = 0
    /\ \A t \in Tasks : tpc[t] = "sending" => \A c \in todo[t] : ids[c] = 0
    /\ \A c \in Chats : \A m \in live[c] :
          m = ids[c] \/ \E t \in Tasks : tpc[t] = "sending" /\ posted[t][c] = m

LEMMA NoneWithdrawsStep ==
  ASSUME TypeOK, \A s \in Sessions : "unpublish" \notin May[s], NoneWithdraws, [Next]_vars
  PROVE  NoneWithdraws'
<1> USE DEF NoneWithdraws, TypeOK, sessVars
<1>1. ASSUME NEW t \in Tasks, WorkerStep(t) \/ WorkerLost(t) PROVE NoneWithdraws'
  <2>1. sessVars' = sessVars
    BY <1>1 DEF WorkerStep, AcquireLock, SkipLocked, PublishRaises, PublishNothing,
       PublishBegins, Send, PublishCommits, PublishFails, PublishAborts, ReleaseDone,
       Retry, GiveUp, WorkerLost
  <2> QED
    BY <2>1
<1>2. CASE LockExpires \/ Tick
  BY <1>2 DEF LockExpires, Tick
<1>3. ASSUME NEW t \in Tasks, BeatPublishes(t) PROVE NoneWithdraws'
  BY <1>3 DEF BeatPublishes
<1>4. ASSUME NEW t \in Tasks, NEW u \in Tasks, Redeliver(t, u) PROVE NoneWithdraws'
  BY <1>4 DEF Redeliver
<1>5. ASSUME NEW s \in Sessions, SessionStep(s) PROVE NoneWithdraws'
  <2> USE DEF Finish
  <2>1. ASSUME NEW t \in Tasks, PanelPublishes(s, t) \/ Dispatch(s, t)
        PROVE  NoneWithdraws'
    BY <2>1 DEF PanelPublishes, Dispatch
  <2>2. ASSUME NEW at \in 0..MaxNow, PanelSchedules(s, at) PROVE NoneWithdraws'
    BY <2>2 DEF PanelSchedules
  <2>3. ASSUME NEW T \in (SUBSET Cities) \ {{}}, NEW b \in BOOLEAN, PanelEdits(s, T, b)
        PROVE  NoneWithdraws'
    BY <2>3 DEF PanelEdits
  <2>4. CASE PanelApproves(s)
    BY <2>4 DEF PanelApproves, GoesAtOnce, GetsSlot
  <2>5. CASE PanelApprovesOnly(s) \/ Rejects(s) \/ Unpublishes(s) \/ Deletes(s)
    BY <2>5 DEF PanelApprovesOnly, Rejects, Unpublishes, Deletes
  <2>6. CASE TakesDown(s)
    BY <2>6 DEF TakesDown
  <2> HIDE DEF NoneWithdraws
  <2> QED
    BY <1>5, <2>1, <2>2, <2>3, <2>4, <2>5, <2>6 DEF SessionStep
<1>6. ASSUME NEW s \in Sessions, NEW op \in Operation, ReadRow(s, op)
      PROVE  NoneWithdraws'
  <2>1. op \notin {"unpublish", "unpublishing"}
    BY <1>6 DEF ReadRow, Begins, Operation
  <2> QED
    BY <1>6, <2>1 DEF ReadRow
<1>7. ASSUME NEW s \in Sessions, NEW op \in Operation, BotApproves(s, op)
      PROVE  NoneWithdraws'
  BY <1>7 DEF BotApproves, GoesAtOnce, GetsSlot
<1>8. ASSUME NEW s \in Sessions, Abandon(s) \/ BulkDeletes(s) \/ ApiLost(s)
      PROVE  NoneWithdraws'
  BY <1>8 DEF Abandon, BulkDeletes, ApiLost, Finish
<1>9. CASE UNCHANGED vars
  BY <1>9 DEF vars
<1> HIDE DEF NoneWithdraws
<1> QED
  BY <1>1, <1>2, <1>3, <1>4, <1>5, <1>6, <1>7, <1>8, <1>9 DEF Next

LEMMA OtherStepPosts ==
  ASSUME TypeOK, OtherStep, NoneWithdraws
  PROVE  ids' = ids /\ \A c \in Chats : live'[c] \subseteq live[c]
<1> USE DEF rowVars, chatVars
<1>1. ASSUME NEW t \in Tasks, BeatPublishes(t) PROVE ids' = ids /\ live' = live
  BY <1>1 DEF BeatPublishes
<1>2. ASSUME NEW t \in Tasks, NEW u \in Tasks, Redeliver(t, u)
      PROVE  ids' = ids /\ live' = live
  BY <1>2 DEF Redeliver
<1>3. CASE Tick
  BY <1>3 DEF Tick
<1>4. ASSUME NEW s \in Sessions, SessionStep(s)
      PROVE  ids' = ids /\ \A c \in Chats : live'[c] \subseteq live[c]
  <2>1. ASSUME NEW t \in Tasks, PanelPublishes(s, t) \/ Dispatch(s, t)
        PROVE  ids' = ids /\ live' = live
    BY <2>1 DEF PanelPublishes, Dispatch
  <2>2. ASSUME NEW at \in 0..MaxNow, PanelSchedules(s, at)
        PROVE  ids' = ids /\ live' = live
    BY <2>2 DEF PanelSchedules
  <2>3. ASSUME NEW T \in (SUBSET Cities) \ {{}}, NEW b \in BOOLEAN, PanelEdits(s, T, b)
        PROVE  ids' = ids /\ live' = live
    BY <2>3 DEF PanelEdits
  <2>4. ASSUME PanelApproves(s) \/ PanelApprovesOnly(s) \/ Rejects(s) \/ Deletes(s)
        PROVE  ids' = ids /\ live' = live
    BY <2>4 DEF PanelApproves, PanelApprovesOnly, Rejects, Deletes
  <2>5. ~Unpublishes(s)
    BY DEF Unpublishes, Writes, NoneWithdraws
  <2>6. ASSUME TakesDown(s)
        PROVE  ids' = ids /\ \A c \in Chats : live'[c] \subseteq live[c]
    BY <2>6 DEF TakesDown
  <2> QED
    BY <1>4, <2>1, <2>2, <2>3, <2>4, <2>5, <2>6 DEF SessionStep
<1>5. ASSUME NEW s \in Sessions, NEW op \in Operation, ReadRow(s, op) \/ BotApproves(s, op)
      PROVE  ids' = ids /\ live' = live
  BY <1>5 DEF ReadRow, BotApproves
<1>6. ASSUME NEW s \in Sessions, Abandon(s) \/ BulkDeletes(s) \/ ApiLost(s)
      PROVE  ids' = ids /\ live' = live
  BY <1>6 DEF Abandon, BulkDeletes, ApiLost
<1>7. CASE UNCHANGED vars
  BY <1>7 DEF vars
<1> QED
  BY <1>1, <1>2, <1>3, <1>4, <1>5, <1>6, <1>7 DEF OtherStep

\* A step that neither begins nor ends a publication, and posts nothing.
LEMMA PostInvKept ==
  ASSUME TypeOK, PostInv,
         ids' = ids, posted' = posted, todo' = todo,
         \A u \in Tasks : tpc'[u] = "sending" <=> tpc[u] = "sending",
         \A c \in Chats : live'[c] \subseteq live[c]
  PROVE  PostInv'
<1>1. ASSUME NEW c \in Chats, NEW m \in live'[c]
      PROVE  m = ids'[c] \/ \E t \in Tasks : tpc'[t] = "sending" /\ posted'[t][c] = m
  <2>1. m \in live[c]
    OBVIOUS
  <2> QED
    BY <2>1 DEF PostInv
<1>2. \A t, u \in Tasks : tpc'[t] = "sending" /\ tpc'[u] = "sending" => t = u
  BY DEF PostInv
<1>3. \A t \in Tasks, c \in Chats :
         posted'[t][c] # 0 => tpc'[t] = "sending" /\ c \notin todo'[t] /\ ids'[c] = 0
  BY DEF PostInv
<1>4. \A t \in Tasks : tpc'[t] = "sending" => \A c \in todo'[t] : ids'[c] = 0
  BY DEF PostInv
<1> QED
  BY <1>1, <1>2, <1>3, <1>4 DEF PostInv

LEMMA PostStep ==
  ASSUME NothingIsUndone, TypeOK, NoneWithdraws, PostInv, [Next]_vars
  PROVE  PostInv'
<1> USE DEF PostInv
<1>1. ASSUME NEW t \in Tasks, WorkerStep(t) PROVE PostInv'
  <2> USE DEF TypeOK, TaskPc, taskVars, rowVars, chatVars
  <2>1. CASE \/ AcquireLock(t) \/ SkipLocked(t) \/ PublishRaises(t) \/ PublishNothing(t)
             \/ ReleaseDone(t) \/ Retry(t) \/ GiveUp(t)
    <3> HIDE DEF PostInv
    <3>1. \A u \in Tasks : tpc'[u] = "sending" <=> tpc[u] = "sending"
      BY <2>1 DEF AcquireLock, SkipLocked, PublishRaises, PublishNothing, ReleaseDone,
         Retry, GiveUp
    <3>2. ids' = ids /\ live' = live /\ posted' = posted /\ todo' = todo
      BY <2>1 DEF AcquireLock, SkipLocked, PublishRaises, PublishNothing, ReleaseDone,
         Retry, GiveUp
    <3> QED
      BY <3>1, <3>2, PostInvKept
  <2>3. CASE PublishBegins(t)
    BY <2>3 DEF PublishBegins, RowFree, Missing, NoMessages, ChannelsOf
  <2>4. ASSUME NEW c \in Chats, Send(t, c) PROVE PostInv'
    <3>1. tpc' = tpc /\ ids' = ids /\ todo' = [todo EXCEPT ![t] = @ \ {c}]
      BY <2>4 DEF Send
    <3>2. tpc[t] = "sending" /\ c \in todo[t] /\ ids[c] = 0
      BY <2>4 DEF Send
    <3>3. \A u \in Tasks : posted[u][c] = 0
      BY <3>2
    <3>4. live[c] = {}
      BY <3>2, <3>3
    <3>5. CASE posted' = posted /\ live' = live
      BY <3>1, <3>5
    <3>6. CASE /\ posted' = [posted EXCEPT ![t][c] = sent[c] + 1]
               /\ live' = [live EXCEPT ![c] = @ \cup {sent[c] + 1}]
      <4>1. live'[c] = {sent[c] + 1} /\ posted'[t][c] = sent[c] + 1
        BY <3>4, <3>6
      <4>2. \A u \in Tasks, d \in Chats :
               u # t \/ d # c => posted'[u][d] = posted[u][d]
        BY <3>6
      <4>3. \A d \in Chats \ {c} : live'[d] = live[d]
        BY <3>6
      <4>4. \A u \in Tasks, d \in Chats :
               posted'[u][d] # 0 => tpc'[u] = "sending" /\ d \notin todo'[u] /\ ids'[d] = 0
        BY <3>1, <3>2, <4>2
      <4>5. ASSUME NEW d \in Chats, NEW m \in live'[d]
            PROVE  m = ids'[d] \/ \E u \in Tasks : tpc'[u] = "sending" /\ posted'[u][d] = m
        <5>1. CASE d = c
          BY <3>1, <3>2, <4>1, <5>1
        <5>2. CASE d # c
          <6>1. m \in live[d]
            BY <4>3, <5>2
          <6>2. m = ids[d] \/ \E u \in Tasks : tpc[u] = "sending" /\ posted[u][d] = m
            BY <6>1
          <6>3. CASE m = ids[d]
            BY <3>1, <6>3
          <6>4. ASSUME NEW u \in Tasks, tpc[u] = "sending", posted[u][d] = m
                PROVE  \E v \in Tasks : tpc'[v] = "sending" /\ posted'[v][d] = m
            <7>1. tpc'[u] = "sending" /\ posted'[u][d] = m
              BY <3>1, <4>2, <5>2, <6>4
            <7> QED
              BY <7>1
          <6> QED
            BY <6>2, <6>3, <6>4
        <5> QED
          BY <5>1, <5>2
      <4> QED
        BY <3>1, <4>4, <4>5
    <3> QED
      BY <2>4, <3>5, <3>6 DEF Send, Fault, NothingIsUndone
  <2>5. CASE PublishCommits(t)
    <3>1. /\ tpc[t] = "sending"
          /\ tpc' = [tpc EXCEPT ![t] = "done"]
          /\ ids' = Merged(t)
          /\ posted' = [posted EXCEPT ![t] = NoMessages]
          /\ live' = live
          /\ todo' = todo
      BY <2>5 DEF PublishCommits
    <3>2. \A u \in Tasks : tpc'[u] # "sending"
      BY <3>1
    <3>3. \A u \in Tasks, c \in Chats : posted'[u][c] = 0
      BY <3>1, <3>2 DEF NoMessages
    <3>4. \A c \in Chats : \A m \in live'[c] : m = ids'[c]
      BY <3>1 DEF Merged
    <3> QED
      BY <3>2, <3>3, <3>4
  <2>6. CASE PublishFails(t)
    BY <2>6 DEF PublishFails, HasSucceeded, Recorded
  <2>7. ~PublishAborts(t)
    BY DEF PublishAborts, Fault, NothingIsUndone
  <2> HIDE DEF PostInv
  <2> QED
    BY <1>1, <2>1, <2>3, <2>4, <2>5, <2>6, <2>7 DEF WorkerStep
<1>2. ASSUME NEW t \in Tasks PROVE ~WorkerLost(t)
  BY DEF WorkerLost, Fault, NothingIsUndone
<1>3. CASE LockExpires
  BY <1>3 DEF LockExpires, taskVars, rowVars, chatVars
<1>4. CASE OtherStep
  <2> HIDE DEF PostInv
  <2>1. TasksUntouched /\ ids' = ids /\ \A c \in Chats : live'[c] \subseteq live[c]
    BY <1>4, OtherStepTasks, OtherStepPosts
  <2>2. \A u \in Tasks : tpc'[u] = "sending" <=> tpc[u] = "sending"
    BY <2>1 DEF TasksUntouched, TypeOK
  <2> QED
    BY <2>1, <2>2, PostInvKept DEF TasksUntouched
<1> HIDE DEF PostInv
<1> QED
  BY <1>1, <1>2, <1>3, <1>4, StepCases

LEMMA PostInvShowsOnce ==
  ASSUME TypeOK, PostInv
  PROVE  NoDoublePost
<1> SUFFICES ASSUME NEW c \in Chats, NEW m \in live[c], NEW n \in live[c]
             PROVE  m = n
  BY DEF NoDoublePost
<1>1. m # 0 /\ n # 0
  BY DEF TypeOK
<1>2. CASE ids[c] # 0
  BY <1>1, <1>2 DEF PostInv
<1>3. CASE ids[c] = 0
  <2>1. PICK t \in Tasks : tpc[t] = "sending" /\ posted[t][c] = m
    BY <1>1, <1>3 DEF PostInv
  <2>2. PICK u \in Tasks : tpc[u] = "sending" /\ posted[u][c] = n
    BY <1>1, <1>3 DEF PostInv
  <2> QED
    BY <2>1, <2>2 DEF PostInv
<1> QED
  BY <1>2, <1>3

LEMMA PostInvariant ==
  ASSUME NothingIsUndone
  PROVE  Spec => [](TypeOK /\ NoneWithdraws /\ PostInv)
<1>1. Init => NoneWithdraws /\ PostInv
  <2> SUFFICES ASSUME Init PROVE NoneWithdraws /\ PostInv
    OBVIOUS
  <2>1. \A t \in Tasks : tpc[t] # "sending"
    BY DEF Init, ForModeration, SkipsModeration
  <2> QED
    BY <2>1 DEF Init, NoneWithdraws, PostInv, NoMessages
<1>2. NoneWithdraws /\ TypeOK /\ [Next]_vars => NoneWithdraws'
  BY NoneWithdrawsStep DEF NothingIsUndone
<1>3. TypeOK /\ NoneWithdraws /\ PostInv /\ [Next]_vars => PostInv'
  BY PostStep
<1> QED
  BY <1>1, <1>2, <1>3, TypeCorrect, PTL DEF Spec

\* A channel never shows the item twice, although the Redis lock may expire at any
\* moment, sends fail, messages are delivered twice and moderators act on what they
\* read before: the row lock and the filter on published_message_ids are enough.
THEOREM NeverTwice ==
  ASSUME NothingIsUndone
  PROVE  Spec => []NoDoublePost
<1>1. TypeOK /\ PostInv => NoDoublePost
  BY PostInvShowsOnce
<1> QED
  BY <1>1, PostInvariant, PTL

\* Under the same conditions every post can be taken down: its id is recorded, or
\* is about to be.
THEOREM NeverOrphaned ==
  ASSUME NothingIsUndone
  PROVE  Spec => []NoOrphanPost
<1>1. PostInv => NoOrphanPost
  BY DEF PostInv, NoOrphanPost
<1> QED
  BY <1>1, PostInvariant, PTL

-----------------------------------------------------------------------------
(* The item goes only to cities approved by someone who may decide them,   *)
(* unless it is scheduled by hand.                                         *)

\* A schedule by hand says nothing of cities, and a source may skip moderation.
OnlyApprovals ==
    /\ ~AutoPublish
    /\ \A s \in Sessions : "schedule" \notin May[s]

\* Whatever is on its way to the channels, and wherever it is, has been granted; and
\* no task is without cities, which would mean every target.
RowGranted == approved \subseteq granted /\ (status = "scheduled" => approved # {})

TasksGranted ==
    \A t \in Tasks :
        /\ tcities[t] \subseteq granted
        /\ tpc[t] # "free" => tcities[t] # {}
        /\ \A c \in todo[t] : CityOf[c] \in granted

SessionsGranted ==
    \A s \in Sessions :
        /\ spc[s] # "schedule"
        /\ view[s].approved \subseteq granted
        /\ scities[s] \subseteq granted
        /\ spc[s] = "dispatch" => scities[s] # {}

GrantInv == RowGranted /\ TasksGranted /\ SessionsGranted /\ PostedIsGranted

LEMMA GrantWorker ==
  ASSUME TypeOK, GrantInv, NEW t \in Tasks, WorkerStep(t)
  PROVE  GrantInv'
<1> USE DEF GrantInv
<1>1. SessionsGranted' /\ granted' = granted
  <2>1. sessVars' = sessVars /\ granted' = granted
    BY DEF WorkerStep, AcquireLock, SkipLocked, PublishRaises, PublishNothing,
       PublishBegins, Send, PublishCommits, PublishFails, PublishAborts, ReleaseDone,
       Retry, GiveUp
  <2> QED
    BY <2>1 DEF SessionsGranted, sessVars
<1>2. tpc[t] = "sending" \/ tpc[t] = "locked" => CallCities(t) \subseteq granted
  BY DEF TasksGranted, CallCities
<1>3. RowGranted'
  <2>1. CASE PublishCommits(t)
    BY <1>1, <1>2, <2>1 DEF PublishCommits, RowGranted, Covered
  <2>2. CASE ~PublishCommits(t)
    <3>1. approved' = approved /\ status' = status
      BY <2>2 DEF WorkerStep, AcquireLock, SkipLocked, PublishRaises, PublishNothing,
         PublishBegins, Send, PublishFails, PublishAborts, ReleaseDone, Retry, GiveUp,
         rowVars
    <3> QED
      BY <1>1, <3>1 DEF RowGranted
  <2> QED
    BY <2>1, <2>2
<1>4. TasksGranted'
  <2> USE DEF TypeOK, TasksGranted
  <2>1. CASE PublishBegins(t)
    BY <1>1, <1>2, <2>1 DEF PublishBegins, Missing, ChannelsOf
  <2>2. ASSUME NEW c \in Chats, Send(t, c) PROVE TasksGranted'
    BY <1>1, <2>2 DEF Send
  <2>3. CASE AcquireLock(t) \/ PublishRaises(t) \/ PublishNothing(t) \/ PublishFails(t)
    BY <1>1, <2>3 DEF AcquireLock, PublishRaises, PublishNothing, PublishFails
  <2>4. CASE PublishCommits(t) \/ PublishAborts(t)
    BY <1>1, <2>4 DEF PublishCommits, PublishAborts
  <2>5. CASE SkipLocked(t) \/ ReleaseDone(t) \/ GiveUp(t)
    BY <1>1, <2>5 DEF SkipLocked, ReleaseDone, GiveUp
  <2>6. CASE Retry(t)
    BY <1>1, <2>6 DEF Retry
  <2> HIDE DEF TasksGranted
  <2> QED
    BY <2>1, <2>2, <2>3, <2>4, <2>5, <2>6 DEF WorkerStep
<1>5. PostedIsGranted'
  <2>1. ASSUME NEW c \in Chats, Send(t, c) PROVE PostedIsGranted'
    BY <1>1, <2>1 DEF Send, PostedIsGranted, TasksGranted, TypeOK
  <2>2. ASSUME ~\E c \in Chats : Send(t, c) PROVE PostedIsGranted'
    <3>1. live' = live
      BY <2>2 DEF WorkerStep, AcquireLock, SkipLocked, PublishRaises, PublishNothing,
         PublishBegins, PublishCommits, PublishFails, PublishAborts, ReleaseDone,
         Retry, GiveUp, chatVars
    <3> QED
      BY <1>1, <3>1 DEF PostedIsGranted
  <2> QED
    BY <2>1, <2>2
<1> QED
  BY <1>1, <1>3, <1>4, <1>5

\* What is not a task's own step: the tasks get no cities but granted ones, and no
\* channel gets a message.
LEMMA GrantKept ==
  ASSUME GrantInv,
         granted \subseteq granted',
         todo' = todo,
         \A c \in Chats : live'[c] \subseteq live[c],
         RowGranted',
         SessionsGranted',
         \A t \in Tasks :
            \/ tpc'[t] = tpc[t] /\ tcities'[t] = tcities[t]
            \/ tcities'[t] \subseteq granted' /\ tcities'[t] # {}
            \/ tpc'[t] = "free" /\ tcities'[t] = {}
  PROVE  GrantInv'
<1>1. TasksGranted'
  BY DEF GrantInv, TasksGranted
<1>2. PostedIsGranted'
  BY DEF GrantInv, PostedIsGranted
<1> QED
  BY <1>1, <1>2 DEF GrantInv

LEMMA GrantEnvironment ==
  ASSUME TypeOK, GrantInv,
         \/ \E t \in Tasks : WorkerLost(t) \/ BeatPublishes(t)
         \/ \E t, u \in Tasks : Redeliver(t, u)
         \/ LockExpires
         \/ Tick
         \/ UNCHANGED vars
  PROVE  GrantInv'
<1>1. granted' = granted /\ approved' = approved /\ status' = status /\ sessVars' = sessVars
      /\ live' = live
  BY DEF WorkerLost, BeatPublishes, Redeliver, LockExpires, Tick, vars, rowVars, chatVars
<1>2. RowGranted' /\ SessionsGranted' /\ PostedIsGranted'
  BY <1>1 DEF GrantInv, RowGranted, SessionsGranted, PostedIsGranted, sessVars
<1>3. TasksGranted'
  <2> USE DEF GrantInv, TasksGranted, TypeOK
  <2>1. ASSUME NEW t \in Tasks, WorkerLost(t) PROVE TasksGranted'
    BY <1>1, <2>1 DEF WorkerLost, Executing
  <2>2. ASSUME NEW t \in Tasks, BeatPublishes(t) PROVE TasksGranted'
    BY <1>1, <2>2 DEF BeatPublishes, Enqueue, RowGranted
  <2>3. ASSUME NEW t \in Tasks, NEW u \in Tasks, Redeliver(t, u) PROVE TasksGranted'
    BY <1>1, <2>3 DEF Redeliver, Executing
  <2>4. CASE LockExpires \/ Tick \/ UNCHANGED vars
    BY <1>1, <2>4 DEF LockExpires, Tick, vars, taskVars
  <2> QED
    BY <2>1, <2>2, <2>3, <2>4
<1> QED
  BY <1>2, <1>3 DEF GrantInv

LEMMA GrantSession ==
  ASSUME TypeOK, GrantInv, NEW s \in Sessions, SessionStep(s)
  PROVE  GrantInv'
<1> USE DEF GrantInv, RowGranted, SessionsGranted, TypeOK, Finish, Written, taskVars,
            chatVars
<1>1. ASSUME NEW C, C = Decidable(s, view[s]), C # {}, PanelApproves(s) PROVE GrantInv'
  <2>1. granted' = granted \cup C
    BY <1>1 DEF PanelApproves
  <2>2. approved' \subseteq granted'
    BY <1>1, <2>1 DEF PanelApproves, GoesAtOnce, GetsSlot
  <2>3. status' = "scheduled" => approved' # {}
    BY <1>1 DEF PanelApproves, GoesAtOnce, GetsSlot
  <2>4. SessionsGranted'
    BY <1>1, <2>1 DEF PanelApproves, GoesAtOnce, GetsSlot, NoRow
  <2>5. taskVars' = taskVars /\ live' = live
    BY <1>1 DEF PanelApproves
  <2> HIDE DEF GrantInv, SessionsGranted
  <2> QED
    BY <2>1, <2>2, <2>3, <2>4, <2>5, GrantKept
<1>2. CASE PanelApprovesOnly(s) \/ Rejects(s) \/ TakesDown(s) \/ Unpublishes(s) \/ Deletes(s)
  <2>1. granted' = granted /\ approved' = approved /\ taskVars' = taskVars
    BY <1>2 DEF PanelApprovesOnly, Rejects, TakesDown, Unpublishes, Deletes, rowVars
  <2>2. status' = "scheduled" => status = "scheduled"
    BY <1>2 DEF PanelApprovesOnly, Rejects, TakesDown, Unpublishes, Deletes, rowVars
  <2>3. SessionsGranted'
    BY <1>2, <2>1 DEF PanelApprovesOnly, Rejects, TakesDown, Unpublishes, Deletes, NoRow
  <2>4. \A c \in Chats : live'[c] \subseteq live[c]
    BY <1>2 DEF PanelApprovesOnly, Rejects, TakesDown, Unpublishes, Deletes
  <2> HIDE DEF SessionsGranted
  <2>5. RowGranted'
    BY <2>1, <2>2
  <2> HIDE DEF GrantInv, RowGranted
  <2> QED
    BY <2>1, <2>3, <2>4, <2>5, GrantKept
<1>3. ASSUME NEW t \in Tasks, PanelPublishes(s, t) PROVE GrantInv'
  <2> DEFINE C == Decidable(s, view[s])
  <2>1. granted' = granted \cup C /\ C # {}
    BY <1>3 DEF PanelPublishes
  <2>2. RowGranted'
    BY <1>3, <2>1 DEF PanelPublishes
  <2>3. SessionsGranted'
    BY <1>3, <2>1 DEF PanelPublishes, NoRow
  <2>4. live' = live /\ todo' = todo
    BY <1>3 DEF PanelPublishes, Enqueue
  <2>5. \A u \in Tasks : \/ tpc'[u] = tpc[u] /\ tcities'[u] = tcities[u]
                        \/ tcities'[u] = C
    BY <1>3 DEF PanelPublishes, Enqueue
  <2> HIDE DEF GrantInv, RowGranted, SessionsGranted, C
  <2> QED
    BY <2>1, <2>2, <2>3, <2>4, <2>5, GrantKept
<1>4. ASSUME NEW at \in 0..MaxNow PROVE ~PanelSchedules(s, at)
  BY DEF PanelSchedules, Writes
<1>5. ASSUME NEW T \in (SUBSET Cities) \ {{}}, NEW b \in BOOLEAN, PanelEdits(s, T, b)
      PROVE  GrantInv'
  <2>1. /\ granted' = granted /\ taskVars' = taskVars /\ live' = live
        /\ approved' = approved /\ status' = status
    BY <1>5 DEF PanelEdits
  <2>2. SessionsGranted'
    BY <1>5, <2>1 DEF PanelEdits, NoRow
  <2> HIDE DEF SessionsGranted
  <2>3. RowGranted'
    BY <2>1
  <2> HIDE DEF GrantInv, RowGranted
  <2> QED
    BY <2>1, <2>2, <2>3, GrantKept
<1>6. ASSUME NEW t \in Tasks, Dispatch(s, t) PROVE GrantInv'
  <2>1. /\ granted' = granted /\ live' = live /\ todo' = todo
        /\ approved' = approved /\ status' = status
    BY <1>6 DEF Dispatch, Enqueue, rowVars
  <2>2. SessionsGranted'
    BY <1>6, <2>1 DEF Dispatch
  <2>3. \A u \in Tasks : \/ tpc'[u] = tpc[u] /\ tcities'[u] = tcities[u]
                        \/ tcities'[u] = scities[s]
    BY <1>6 DEF Dispatch, Enqueue
  <2>4. scities[s] \subseteq granted /\ scities[s] # {}
    BY <1>6 DEF Dispatch
  <2> HIDE DEF SessionsGranted
  <2>5. RowGranted'
    BY <2>1
  <2> HIDE DEF GrantInv, RowGranted
  <2> QED
    BY <2>1, <2>2, <2>3, <2>4, <2>5, GrantKept
<1>7. PanelApproves(s) => Decidable(s, view[s]) # {}
  BY DEF PanelApproves
<1> HIDE DEF GrantInv
<1> QED
  BY <1>1, <1>2, <1>3, <1>4, <1>5, <1>6, <1>7 DEF SessionStep

LEMMA GrantStep ==
  ASSUME OnlyApprovals, TypeOK, GrantInv, [Next]_vars
  PROVE  GrantInv'
<1>1. ASSUME NEW t \in Tasks, WorkerStep(t) PROVE GrantInv'
  BY <1>1, GrantWorker
<1>2. CASE \/ \E t \in Tasks : WorkerLost(t) \/ BeatPublishes(t)
           \/ \E t, u \in Tasks : Redeliver(t, u)
           \/ LockExpires
           \/ Tick
           \/ UNCHANGED vars
  BY <1>2, GrantEnvironment
<1>3. ASSUME NEW s \in Sessions, SessionStep(s) PROVE GrantInv'
  BY <1>3, GrantSession
<1> USE DEF RowGranted, SessionsGranted, TypeOK, taskVars, chatVars, rowVars
<1>4. ASSUME NEW s \in Sessions, NEW op \in Operation, ReadRow(s, op) PROVE GrantInv'
  <2>1. op # "schedule" /\ op # "dispatch"
    BY <1>4 DEF ReadRow, Begins, Operation, OnlyApprovals
  <2>2. granted' = granted /\ rowVars' = rowVars /\ taskVars' = taskVars /\ live' = live
    BY <1>4 DEF ReadRow
  <2>3. SessionsGranted'
    BY <1>4, <2>1, <2>2 DEF ReadRow, Row, GrantInv
  <2>4. RowGranted'
    BY <2>2 DEF GrantInv
  <2> HIDE DEF RowGranted, SessionsGranted
  <2> QED
    BY <2>2, <2>3, <2>4, GrantKept
<1>5. ASSUME NEW s \in Sessions, NEW op \in Operation, BotApproves(s, op)
      PROVE  GrantInv'
  <2> DEFINE C == Decidable(s, Row)
  <2>1. /\ C # {} /\ granted' = granted \cup C
        /\ Row.approved = approved /\ Row.status = status
    BY <1>5 DEF BotApproves, Row
  <2>2. RowGranted'
    BY <1>5, <2>1 DEF BotApproves, GoesAtOnce, GetsSlot, Written, GrantInv
  <2>3. SessionsGranted'
    BY <1>5, <2>1 DEF BotApproves, GoesAtOnce, GetsSlot, GrantInv
  <2>4. taskVars' = taskVars /\ live' = live
    BY <1>5 DEF BotApproves
  <2> HIDE DEF RowGranted, SessionsGranted, C
  <2> QED
    BY <2>1, <2>2, <2>3, <2>4, GrantKept
<1>6. ASSUME NEW s \in Sessions, Abandon(s) \/ BulkDeletes(s) \/ ApiLost(s)
      PROVE  GrantInv'
  <2>1. /\ granted' = granted /\ taskVars' = taskVars /\ live' = live
        /\ approved' = approved /\ status' = status
    BY <1>6 DEF Abandon, BulkDeletes, ApiLost
  <2>2. SessionsGranted'
    <3>1. /\ \A z \in Sessions : view'[z].approved \in {{}, view[z].approved}
          /\ \A z \in Sessions : spc'[z] \in {"idle", spc[z]}
          /\ \A z \in Sessions : scities'[z] = scities[z] \/ (scities'[z] = {} /\ spc'[z] = "idle")
      BY <1>6 DEF Abandon, BulkDeletes, ApiLost, Finish, NoRow, sessVars, TypeOK
    <3> QED
      BY <2>1, <3>1 DEF GrantInv, SessionsGranted
  <2>3. RowGranted'
    BY <2>1 DEF GrantInv
  <2> HIDE DEF RowGranted, SessionsGranted
  <2> QED
    BY <2>1, <2>2, <2>3, GrantKept
<1> HIDE DEF RowGranted, SessionsGranted, TypeOK
<1> QED
  BY <1>1, <1>2, <1>3, <1>4, <1>5, <1>6 DEF Next

LEMMA GrantInvariant ==
  ASSUME OnlyApprovals
  PROVE  Spec => [](TypeOK /\ GrantInv)
<1>1. Init => GrantInv
  <2> SUFFICES ASSUME Init PROVE GrantInv
    OBVIOUS
  <2>1. RowGranted /\ \A t \in Tasks : tpc[t] = "free"
    BY DEF Init, ForModeration, OnlyApprovals, RowGranted
  <2> QED
    BY <2>1 DEF Init, GrantInv, TasksGranted, SessionsGranted, PostedIsGranted, NoRow
<1>2. TypeOK /\ GrantInv /\ [Next]_vars => GrantInv'
  BY GrantStep
<1> QED
  BY <1>1, <1>2, TypeCorrect, PTL DEF Spec

\* The item is posted only in channels of cities that someone who may decide them has
\* approved, whatever fails and however moderators, editors and tasks interleave, if
\* nobody schedules it by hand.
THEOREM OnlyWhereApproved ==
  ASSUME OnlyApprovals
  PROVE  Spec => []PostedIsGranted
<1>1. GrantInv => PostedIsGranted
  BY DEF GrantInv
<1> QED
  BY <1>1, GrantInvariant, PTL

-----------------------------------------------------------------------------
(* The publication implements ChannelPosts. *)

LEMMA PromiseInit == Init => Promise!Init
  BY FS_EmptySet, ConstantsAssumption
  DEF Init, ForModeration, SkipsModeration, Promise!Init

\* A channel that shows nothing of the item gets its post, ...
FirstPost(c) ==
    /\ live[c] = {}
    /\ \E m \in Nat : live' = [live EXCEPT ![c] = {m}]
    /\ granted' = granted

\* ... or messages are taken down, or cities are granted, and nothing else changes.
OnlyDown == granted' = granted /\ \A c \in Chats : live'[c] \subseteq live[c]
OnlyGrants == granted \subseteq granted' /\ live' = live

LEMMA StepEffect ==
  ASSUME NothingIsUndone, TypeOK, PostInv, [Next]_vars
  PROVE  (\E c \in Chats : FirstPost(c)) \/ OnlyDown \/ OnlyGrants
<1>1. ASSUME NEW t \in Tasks, NEW c \in Chats, Send(t, c)
      PROVE  FirstPost(c) \/ OnlyDown
  <2>1. c \in todo[t] /\ ids[c] = 0 /\ tpc[t] = "sending" /\ granted' = granted
    BY <1>1 DEF Send, PostInv
  <2>2. live[c] = {}
    BY <2>1 DEF PostInv, TypeOK
  <2>3. live' = live \/ live' = [live EXCEPT ![c] = live[c] \cup {sent[c] + 1}]
    BY <1>1 DEF Send
  <2>4. sent[c] + 1 \in Nat /\ live[c] \cup {sent[c] + 1} = {sent[c] + 1}
    BY <2>2 DEF TypeOK
  <2> QED
    BY <2>1, <2>2, <2>3, <2>4 DEF FirstPost, OnlyDown
<1> USE DEF OnlyDown, OnlyGrants, chatVars
<1>2. ASSUME NEW t \in Tasks, WorkerStep(t), ~\E c \in Chats : Send(t, c)
      PROVE  OnlyDown
  BY <1>2 DEF WorkerStep, AcquireLock, SkipLocked, PublishRaises, PublishNothing,
     PublishBegins, PublishCommits, PublishFails, PublishAborts, ReleaseDone, Retry,
     GiveUp
<1>3. ASSUME NEW t \in Tasks, WorkerLost(t) \/ BeatPublishes(t) PROVE OnlyDown
  BY <1>3 DEF WorkerLost, BeatPublishes
<1>4. ASSUME NEW t \in Tasks, NEW u \in Tasks, Redeliver(t, u) PROVE OnlyDown
  BY <1>4 DEF Redeliver
<1>5. CASE LockExpires \/ Tick \/ UNCHANGED vars
  BY <1>5 DEF LockExpires, Tick, vars
<1>6. ASSUME NEW s \in Sessions, SessionStep(s) PROVE OnlyDown \/ OnlyGrants
  <2>1. CASE TakesDown(s)
    BY <2>1 DEF TakesDown
  <2>2. CASE ~TakesDown(s)
    BY <1>6, <2>2 DEF SessionStep, PanelApproves, PanelApprovesOnly, PanelPublishes,
       PanelSchedules, PanelEdits, Dispatch, Rejects, Unpublishes, Deletes
  <2> QED
    BY <2>1, <2>2
<1>7. ASSUME NEW s \in Sessions, NEW op \in Operation, ReadRow(s, op) \/ BotApproves(s, op)
      PROVE  OnlyGrants
  BY <1>7 DEF ReadRow, BotApproves
<1>8. ASSUME NEW s \in Sessions, Abandon(s) \/ BulkDeletes(s) \/ ApiLost(s)
      PROVE  OnlyGrants
  BY <1>8 DEF Abandon, BulkDeletes, ApiLost
<1> HIDE DEF OnlyDown, OnlyGrants
<1> QED
  BY <1>1, <1>2, <1>3, <1>4, <1>5, <1>6, <1>7, <1>8 DEF Next

Shown == [c \in Chats |-> Cardinality(live[c])]

LEMMA ShownCounts ==
  ASSUME NoDoublePost, NEW c \in Chats
  PROVE  /\ live[c] = {} => Cardinality(live[c]) = 0
         /\ live[c] # {} => Cardinality(live[c]) = 1
<1>1. CASE live[c] = {}
  BY <1>1, FS_EmptySet
<1>2. CASE live[c] # {}
  <2>1. PICK m : m \in live[c]
    BY <1>2
  <2>2. live[c] = {m}
    BY <2>1 DEF NoDoublePost
  <2> QED
    BY <2>2, FS_Singleton
<1> QED
  BY <1>1, <1>2

LEMMA PromiseStep ==
  ASSUME NothingIsUndone, TypeOK, PostInv, GrantInv, TypeOK', PostInv', GrantInv',
         [Next]_vars
  PROVE  [Promise!Next]_<<granted, Shown>>
<1>1. NoDoublePost /\ NoDoublePost'
  <2>1. NoDoublePost
    BY PostInvShowsOnce
  <2>2. NoDoublePost'
    BY PostInvShowsOnce, PTL
  <2> QED
    BY <2>1, <2>2
<1>2. ASSUME NEW c \in Chats, FirstPost(c) PROVE Promise!Next
  <2>1. PICK m \in Nat : live' = [live EXCEPT ![c] = {m}]
    BY <1>2 DEF FirstPost
  <2>2. Shown[c] = 0
    BY <1>1, <1>2, ShownCounts DEF FirstPost, Shown
  <2>3. CityOf[c] \in granted
    BY <1>2, <2>1 DEF FirstPost, GrantInv, PostedIsGranted, TypeOK
  <2>4. Shown' = [Shown EXCEPT ![c] = 1]
    <3>1. Cardinality({m}) = 1
      BY FS_Singleton
    <3> QED
      BY <2>1, <3>1 DEF Shown, TypeOK
  <2>5. Promise!Post(c)
    BY <1>2, <2>2, <2>3, <2>4 DEF FirstPost, Promise!Post, Shown
  <2> QED
    BY <2>5 DEF Promise!Next
<1>3. CASE OnlyDown
  <2> DEFINE S == {c \in Chats : live'[c] = {}}
  <2>1. ASSUME NEW c \in Chats
        PROVE  Cardinality(live'[c]) = IF c \in S THEN 0 ELSE Cardinality(live[c])
    <3>1. CASE c \in S
      BY <3>1, FS_EmptySet
    <3>2. CASE c \notin S
      <4>1. live'[c] = live[c]
        BY <1>1, <1>3, <3>2 DEF OnlyDown, NoDoublePost
      <4> QED
        BY <3>2, <4>1
    <3> QED
      BY <3>1, <3>2
  <2>2. Promise!Withdraw(S)
    BY <1>3, <2>1 DEF OnlyDown, Promise!Withdraw
  <2> QED
    BY <2>2 DEF Promise!Next
<1>4. CASE OnlyGrants
  <2>1. granted' \in SUBSET Cities /\ granted' = granted \cup granted'
    BY <1>4 DEF OnlyGrants, TypeOK
  <2>2. Promise!Grant(granted')
    BY <1>4, <2>1 DEF OnlyGrants, Promise!Grant
  <2> QED
    BY <2>1, <2>2 DEF Promise!Next
<1> QED
  BY <1>2, <1>3, <1>4, StepEffect

\* Every step of the publication is one that ChannelPosts allows, or none the readers
\* see, as long as nobody withdraws or schedules by hand and nothing undoes a send.
THEOREM PromiseKept ==
  ASSUME NothingIsUndone, OnlyApprovals
  PROVE  Spec => KeepsPromise
<1>1. Init => Promise!Init
  BY PromiseInit
<1>2. /\ TypeOK /\ PostInv /\ GrantInv /\ TypeOK' /\ PostInv' /\ GrantInv'
      /\ [Next]_vars
      => [Promise!Next]_<<granted, Shown>>
  BY PromiseStep
<1> QED
  BY <1>1, <1>2, PostInvariant, GrantInvariant, PTL
  DEF Spec, KeepsPromise, Promise!Spec, Shown

-----------------------------------------------------------------------------
(* An item in the queue has a slot, if nobody writes a status and a slot   *)
(* from a row that somebody else has changed since.                        *)

\* The operations that put an item into the queue or take it out for publication;
\* in the panel they work on the row as it was before the lock.
Deciding == {"approve", "now", "publish", "schedule"}

\* Moderators decide in the bot, or one in the panel decides alone.
DecideInTurn ==
    \A s \in Panel, u \in Sessions :
        May[s] \cap {"approve", "publish", "schedule"} # {} /\ u # s =>
            May[u] \cap Deciding = {}

\* Session s has the slot of the row, and has seen that the item is in the queue.
SeesSlot(s) ==
    /\ s \in Panel
    /\ spc[s] \in May[s]
    /\ slot = view[s].slot
    /\ status = "scheduled" => view[s].status = "scheduled"

SlotInv ==
    /\ status = "scheduled" => slot # 0
    /\ \A s \in Sessions : spc[s] \in {"approve", "publish", "schedule"} => SeesSlot(s)

\* Whoever decides now, nobody else is about to decide in the panel.
LEMMA DecidesAlone ==
  ASSUME DecideInTurn, SlotInv, NEW s \in Sessions, May[s] \cap Deciding # {},
         NEW u \in Sessions, u # s
  PROVE  spc[u] \notin {"approve", "publish", "schedule"}
  BY DEF DecideInTurn, SlotInv, SeesSlot, Deciding

\* A step that puts nothing into the queue and gives no session a new view.
LEMMA SlotKept ==
  ASSUME SlotInv, slot' = slot, status' = status \/ status' # "scheduled",
         \A s \in Sessions : \/ spc'[s] = spc[s] /\ view'[s] = view[s]
                             \/ spc'[s] \notin {"approve", "publish", "schedule"}
  PROVE  SlotInv'
  BY DEF SlotInv, SeesSlot

\* A decision by s, which leaves the item in the queue with a slot or out of it.
LEMMA SlotDecided ==
  ASSUME DecideInTurn, SlotInv, NEW s \in Sessions, May[s] \cap Deciding # {},
         status' = "scheduled" => slot' # 0,
         spc'[s] \notin {"approve", "publish", "schedule"},
         \A u \in Sessions : u # s => spc'[u] = spc[u]
  PROVE  SlotInv'
<1>1. \A u \in Sessions : spc'[u] \notin {"approve", "publish", "schedule"}
  BY DecidesAlone
<1> QED
  BY <1>1 DEF SlotInv

\* What a session writes that has read the row before the lock.
LEMMA SlotWritten ==
  ASSUME TypeOK, DecideInTurn, SlotInv, NEW s \in Sessions,
         \/ PanelApproves(s)
         \/ \E t \in Tasks : PanelPublishes(s, t)
         \/ \E at \in 0..MaxNow : PanelSchedules(s, at)
  PROVE  SlotInv'
<1>1. /\ spc[s] \in {"approve", "publish", "schedule"}
      /\ spc'[s] \notin {"approve", "publish", "schedule"}
      /\ \A u \in Sessions : u # s => spc'[u] = spc[u]
  <2> USE DEF TypeOK, Writes, Finish, GoesAtOnce, GetsSlot
  <2>1. CASE PanelApproves(s)
    BY <2>1 DEF PanelApproves
  <2>2. ASSUME NEW t \in Tasks, PanelPublishes(s, t)
        PROVE  /\ spc[s] \in {"approve", "publish", "schedule"}
               /\ spc'[s] \notin {"approve", "publish", "schedule"}
               /\ \A u \in Sessions : u # s => spc'[u] = spc[u]
    BY <2>2 DEF PanelPublishes
  <2>3. ASSUME NEW at \in 0..MaxNow, PanelSchedules(s, at)
        PROVE  /\ spc[s] \in {"approve", "publish", "schedule"}
               /\ spc'[s] \notin {"approve", "publish", "schedule"}
               /\ \A u \in Sessions : u # s => spc'[u] = spc[u]
    BY <2>3 DEF PanelSchedules
  <2> QED
    BY <2>1, <2>2, <2>3
<1>2. SeesSlot(s) /\ (status = "scheduled" => slot # 0)
  BY <1>1 DEF SlotInv
<1>3. May[s] \cap Deciding # {}
  BY <1>1, <1>2 DEF SeesSlot, Deciding
<1>4. now \in Nat /\ slot \in Nat
  BY Bounds DEF TypeOK
<1>5. status' = "scheduled" => slot' # 0
  <2> USE DEF SeesSlot, Written
  <2>1. CASE PanelApproves(s)
    BY <1>2, <1>4, <2>1 DEF PanelApproves, GoesAtOnce, GetsSlot
  <2>2. ASSUME NEW t \in Tasks, PanelPublishes(s, t)
        PROVE  status' = "scheduled" => slot' # 0
    BY <1>2, <1>4, <2>2 DEF PanelPublishes
  <2>3. ASSUME NEW at \in 0..MaxNow, PanelSchedules(s, at)
        PROVE  status' = "scheduled" => slot' # 0
    <3>1. \/ at = 0 /\ status' = IF view[s].status = "scheduled" THEN "pending" ELSE status
          \/ at > now /\ slot' = Written(view[s].slot, at, slot)
      BY <2>3 DEF PanelSchedules
    <3>2. at > now => at # 0
      BY <1>4
    <3> QED
      BY <1>2, <3>1, <3>2
  <2> QED
    BY <2>1, <2>2, <2>3
<1> QED
  BY <1>1, <1>3, <1>5, SlotDecided

LEMMA SlotSession ==
  ASSUME TypeOK, DecideInTurn, SlotInv, NEW s \in Sessions, SessionStep(s)
  PROVE  SlotInv'
<1>1. CASE \/ PanelApproves(s)
           \/ \E t \in Tasks : PanelPublishes(s, t)
           \/ \E at \in 0..MaxNow : PanelSchedules(s, at)
  BY <1>1, SlotWritten
<1> USE DEF TypeOK, Finish, Written, rowVars
<1>2. CASE PanelApprovesOnly(s) \/ Rejects(s) \/ Unpublishes(s) \/ Deletes(s)
  BY <1>2, SlotKept DEF PanelApprovesOnly, Rejects, Unpublishes, Deletes
<1>3. ASSUME NEW T \in (SUBSET Cities) \ {{}}, NEW b \in BOOLEAN, PanelEdits(s, T, b)
      PROVE  SlotInv'
  BY <1>3, SlotKept DEF PanelEdits
<1>4. ASSUME NEW t \in Tasks, Dispatch(s, t) PROVE SlotInv'
  BY <1>4, SlotKept DEF Dispatch
<1>5. CASE TakesDown(s)
  BY <1>5, SlotKept DEF TakesDown
<1> HIDE DEF TypeOK
<1> QED
  BY <1>1, <1>2, <1>3, <1>4, <1>5 DEF SessionStep

LEMMA SlotStep ==
  ASSUME TypeOK, DecideInTurn, SlotInv, [Next]_vars
  PROVE  SlotInv'
<1> USE DEF rowVars, sessVars
<1>1. ASSUME NEW t \in Tasks, WorkerStep(t) \/ WorkerLost(t) PROVE SlotInv'
  <2>1. /\ sessVars' = sessVars /\ slot' = slot
        /\ status' = status \/ status' = "published"
    BY <1>1 DEF WorkerStep, AcquireLock, SkipLocked, PublishRaises, PublishNothing,
       PublishBegins, Send, PublishCommits, PublishFails, PublishAborts, ReleaseDone,
       Retry, GiveUp, WorkerLost
  <2> QED
    BY <2>1, SlotKept
<1>2. CASE LockExpires \/ Tick \/ UNCHANGED vars
  BY <1>2, SlotKept DEF LockExpires, Tick, vars
<1>3. ASSUME NEW t \in Tasks, BeatPublishes(t) PROVE SlotInv'
  BY <1>3, SlotKept DEF BeatPublishes
<1>4. ASSUME NEW t \in Tasks, NEW u \in Tasks, Redeliver(t, u) PROVE SlotInv'
  BY <1>4, SlotKept DEF Redeliver
<1>5. ASSUME NEW s \in Sessions, SessionStep(s) PROVE SlotInv'
  BY <1>5, SlotSession
<1>6. ASSUME NEW s \in Sessions, NEW op \in Operation, ReadRow(s, op) PROVE SlotInv'
  <2>1. /\ slot' = slot /\ status' = status
        /\ \A u \in Sessions : u # s => spc'[u] = spc[u] /\ view'[u] = view[u]
        /\ spc'[s] = op /\ view'[s] = Row /\ op \in May[s]
        /\ op \in {"approve", "publish", "schedule"} => s \in Panel
    BY <1>6 DEF ReadRow, Begins, TypeOK
  <2>2. view'[s].slot = slot /\ view'[s].status = status
    BY <2>1 DEF Row
  <2> QED
    BY <2>1, <2>2 DEF SlotInv, SeesSlot
<1>7. ASSUME NEW s \in Sessions, NEW op \in Operation, BotApproves(s, op)
      PROVE  SlotInv'
  <2>1. /\ spc[s] = "idle" /\ op \in May[s] \cap Deciding
        /\ spc'[s] \notin {"approve", "publish", "schedule"}
        /\ \A u \in Sessions : u # s => spc'[u] = spc[u]
    BY <1>7 DEF BotApproves, Begins, GoesAtOnce, GetsSlot, TypeOK, Deciding
  <2>2. Row.status = status /\ Row.slot = slot /\ now \in Nat
    BY Bounds DEF Row, TypeOK
  <2>3. status' = "scheduled" => slot' # 0
    BY <1>7, <2>2 DEF BotApproves, GoesAtOnce, GetsSlot, Written
  <2> QED
    BY <2>1, <2>3, SlotDecided
<1>8. ASSUME NEW s \in Sessions, Abandon(s) \/ BulkDeletes(s) \/ ApiLost(s)
      PROVE  SlotInv'
  BY <1>8, SlotKept DEF Abandon, BulkDeletes, ApiLost, Finish, TypeOK
<1> QED
  BY <1>1, <1>2, <1>3, <1>4, <1>5, <1>6, <1>7, <1>8 DEF Next

\* An item in the queue has a slot, whatever fails, if moderators decide in the bot,
\* under the row lock, or one in the panel decides alone: then no status and slot
\* written from an old row meet a newer decision.
THEOREM QueuedHasSlot ==
  ASSUME DecideInTurn
  PROVE  Spec => []ScheduledHasSlot
<1>1. Init => SlotInv
  BY Bounds DEF Init, ForModeration, SkipsModeration, SlotInv
<1>2. TypeOK /\ SlotInv /\ [Next]_vars => SlotInv'
  BY SlotStep
<1>3. SlotInv => ScheduledHasSlot
  BY DEF SlotInv, ScheduledHasSlot
<1> QED
  BY <1>1, <1>2, <1>3, TypeCorrect, PTL DEF Spec

-----------------------------------------------------------------------------
(* What is approved stays approved, if whoever approves reads under the    *)
(* row's lock.                                                             *)

\* Moderators approve in the bot; in the panel they do anything else.
ApproveInBot == \A s \in Panel : {"approve", "publish"} \cap May[s] = {}

\* Nobody is going to write the approvals of a row that may be old.
NoOldApprovals == \A s \in Sessions : spc[s] \notin {"approve", "publish"}

LEMMA NoOldApprovalsStep ==
  ASSUME TypeOK, ApproveInBot, NoOldApprovals, [Next]_vars
  PROVE  NoOldApprovals'
<1> USE DEF TypeOK, NoOldApprovals, rowVars, sessVars
<1>1. ASSUME NEW t \in Tasks, WorkerStep(t) \/ WorkerLost(t) \/ BeatPublishes(t) PROVE NoOldApprovals'
  BY <1>1 DEF WorkerStep, AcquireLock, SkipLocked, PublishRaises, PublishNothing,
     PublishBegins, Send, PublishCommits, PublishFails, PublishAborts, ReleaseDone,
     Retry, GiveUp, WorkerLost, BeatPublishes
<1>2. CASE LockExpires \/ Tick \/ UNCHANGED vars \/ \E t, u \in Tasks : Redeliver(t, u)
  BY <1>2 DEF LockExpires, Tick, vars, Redeliver
<1>3. ASSUME NEW s \in Sessions, SessionStep(s) PROVE NoOldApprovals'
  BY <1>3 DEF SessionStep, PanelApproves, PanelApprovesOnly, PanelPublishes, PanelSchedules,
     PanelEdits, Dispatch, Rejects, TakesDown, Unpublishes, Deletes, Writes, Finish
<1>4. ASSUME NEW s \in Sessions, NEW op \in Operation, ReadRow(s, op) PROVE NoOldApprovals'
  BY <1>4 DEF ReadRow, Begins, ApproveInBot
<1>5. ASSUME NEW s \in Sessions, NEW op \in Operation, BotApproves(s, op) PROVE NoOldApprovals'
  BY <1>5 DEF BotApproves, GoesAtOnce, GetsSlot
<1>6. ASSUME NEW s \in Sessions, Abandon(s) \/ BulkDeletes(s) \/ ApiLost(s) PROVE NoOldApprovals'
  BY <1>6 DEF Abandon, BulkDeletes, ApiLost, Finish
<1> HIDE DEF NoOldApprovals
<1> QED
  BY <1>1, <1>2, <1>3, <1>4, <1>5, <1>6 DEF Next

\* A publication adds the cities it was called for; the bot adds to what it reads under
\* the lock.
LEMMA ApprovedGrows ==
  ASSUME TypeOK, NoOldApprovals, [Next]_vars
  PROVE  approved \subseteq approved'
<1> USE DEF rowVars
<1>1. ASSUME NEW t \in Tasks, WorkerStep(t) \/ WorkerLost(t) \/ BeatPublishes(t) PROVE approved \subseteq approved'
  BY <1>1 DEF WorkerStep, AcquireLock, SkipLocked, PublishRaises, PublishNothing,
     PublishBegins, Send, PublishCommits, PublishFails, PublishAborts, ReleaseDone,
     Retry, GiveUp, WorkerLost, BeatPublishes, Covered
<1>2. CASE LockExpires \/ Tick \/ UNCHANGED vars \/ \E t, u \in Tasks : Redeliver(t, u)
  BY <1>2 DEF LockExpires, Tick, vars, Redeliver
<1>3. ASSUME NEW s \in Sessions, SessionStep(s) PROVE approved \subseteq approved'
  BY <1>3 DEF SessionStep, PanelApproves, PanelApprovesOnly, PanelPublishes, PanelSchedules,
     PanelEdits, Dispatch, Rejects, TakesDown, Unpublishes, Deletes, Writes, NoOldApprovals
<1>4. ASSUME NEW s \in Sessions, NEW op \in Operation, ReadRow(s, op) PROVE approved \subseteq approved'
  BY <1>4 DEF ReadRow
<1>5. ASSUME NEW s \in Sessions, NEW op \in Operation, BotApproves(s, op) PROVE approved \subseteq approved'
  BY <1>5 DEF BotApproves, GoesAtOnce, GetsSlot, Row
<1>6. ASSUME NEW s \in Sessions, Abandon(s) \/ BulkDeletes(s) \/ ApiLost(s) PROVE approved \subseteq approved'
  BY <1>6 DEF Abandon, BulkDeletes, ApiLost
<1> QED
  BY <1>1, <1>2, <1>3, <1>4, <1>5, <1>6 DEF Next

\* No request undoes the approval of another, whatever editors change and whatever
\* fails, if approvals are given in the bot, which reads under the lock; the panel reads
\* before it and writes what it has read.
THEOREM ApprovalsStay ==
  ASSUME ApproveInBot
  PROVE  Spec => ApprovedNeverShrinks
<1>1. Init => NoOldApprovals
  BY DEF Init, ForModeration, SkipsModeration, NoOldApprovals
<1>2. TypeOK /\ NoOldApprovals /\ [Next]_vars => NoOldApprovals'
  BY NoOldApprovalsStep
<1>3. TypeOK /\ NoOldApprovals /\ [Next]_vars => [approved \subseteq approved']_approved
  BY ApprovedGrows
<1> QED
  BY <1>1, <1>2, <1>3, TypeCorrect, PTL DEF Spec, ApprovedNeverShrinks

-----------------------------------------------------------------------------
(* Nothing approved is forgotten, if every moderator decides all cities of *)
(* an item and the posts that are tried succeed.                           *)

\* Everyone who approves decides every city; nobody withdraws the item or changes its
\* targets; locks may expire, messages come twice, deletions fail, and no more.
DecideEverything ==
    /\ \A s \in Sessions : Scope[s] = Cities
    /\ \A s \in Sessions : {"unpublish", "edit"} \cap May[s] = {}
    /\ Faults \subseteq {"lockExpiry", "redeliver", "telegramDelete"}

AllOrNone == {{}, Cities}
AllRecorded == \A c \in Chats : ids[c] # 0

\* A publication of the whole item is still to come or at work.
UnderWay ==
    \/ \E t \in Tasks : tpc[t] \in {"queued", "locked", "sending"}
    \/ \E s \in Sessions : spc[s] = "dispatch"

\* Who decides, decides everything: sets of cities are empty or all of them.
WholeInv ==
    /\ targets = Cities
    /\ approved \in AllOrNone
    /\ \A t \in Tasks : tcities[t] \in AllOrNone
    /\ \A s \in Sessions :
          /\ spc[s] \notin {"edit", "unpublish", "unpublishing"}
          /\ view[s].approved \in AllOrNone
          /\ scities[s] \in AllOrNone

\* What execution t has done when it is where it is.
DutyDone(t) ==
    /\ tpc[t] = "sending" => \A c \in Chats : c \in todo[t] \/ posted[t][c] # 0 \/ ids[c] # 0
    /\ tpc[t] \in {"done", "failed"} /\ exists => AllRecorded

\* The Redis lock is set by an execution only; each does its duty, and what is
\* approved is under way or in all its channels.
ForgetInv ==
    /\ redisLock => \E t \in Tasks : Executing(t)
    /\ \A t \in Tasks : DutyDone(t)
    /\ exists /\ status \in {"approved", "published"} => AllRecorded \/ UnderWay

LEMMA SomeCity == Cities # {} /\ ChannelsOf(Cities) = Chats
  BY ConstantsAssumption DEF ChannelsOf

LEMMA DecidesAll ==
  ASSUME DecideEverything, WholeInv, NEW s \in Sessions, NEW seen,
         seen.approved \in AllOrNone, Decidable(s, seen) # {}
  PROVE  seen.approved = {} /\ Decidable(s, seen) = Cities
  BY DEF DecideEverything, WholeInv, AllOrNone, Decidable

LEMMA CallsAll ==
  ASSUME WholeInv, NEW t \in Tasks
  PROVE  CallCities(t) = Cities /\ Missing(t) = {c \in Chats : ids[c] = 0}
  BY SomeCity DEF WholeInv, AllOrNone, CallCities, Missing

\* Steps that change no set of cities and start no operation.
LEMMA WholeKept ==
  ASSUME WholeInv, targets' = targets, approved' \in AllOrNone,
         \A t \in Tasks : tcities'[t] \in AllOrNone,
         \A s \in Sessions :
            /\ spc'[s] = spc[s] \/ spc'[s] \notin {"edit", "unpublish", "unpublishing"}
            /\ view'[s] = view[s] \/ view'[s].approved \in AllOrNone
            /\ scities'[s] = scities[s] \/ scities'[s] \in AllOrNone
  PROVE  WholeInv'
  BY DEF WholeInv, AllOrNone

LEMMA WholeWorker ==
  ASSUME TypeOK, DecideEverything, WholeInv, NEW t \in Tasks, WorkerStep(t)
  PROVE  WholeInv'
<1>1. /\ sessVars' = sessVars /\ targets' = targets
      /\ \A u \in Tasks : tcities'[u] = tcities[u] \/ tcities'[u] = {}
  BY DEF TypeOK, rowVars, WorkerStep, AcquireLock, SkipLocked, PublishRaises,
     PublishNothing, PublishBegins, Send, PublishCommits, PublishFails, PublishAborts,
     ReleaseDone, Retry, GiveUp
<1>2. approved' = approved \/ approved' = Covered(t)
  BY DEF rowVars, WorkerStep, AcquireLock, SkipLocked, PublishRaises,
     PublishNothing, PublishBegins, Send, PublishCommits, PublishFails, PublishAborts,
     ReleaseDone, Retry, GiveUp
<1>3. approved' \in AllOrNone
  BY <1>2, CallsAll DEF Covered, WholeInv, AllOrNone
<1>4. \A u \in Tasks : tcities'[u] \in AllOrNone
  BY <1>1 DEF WholeInv, AllOrNone
<1> QED
  BY <1>1, <1>3, <1>4, WholeKept DEF sessVars

\* An approval: the sets it writes are those before it, or all cities.
LEMMA WholeApproval ==
  ASSUME TypeOK, DecideEverything, WholeInv, NEW s \in Sessions,
         \/ PanelApproves(s)
         \/ \E t \in Tasks : PanelPublishes(s, t)
         \/ \E op \in Operation : BotApproves(s, op)
  PROVE  WholeInv'
<1> USE DEF TypeOK, rowVars, taskVars
<1>1. view[s].approved \in AllOrNone /\ Row.approved \in AllOrNone
  BY DEF WholeInv, Row
<1>2. NoRow.approved = {}
  BY DEF NoRow
<1>3. CASE PanelApproves(s)
  <2> DEFINE C == Decidable(s, view[s])
  <2>1. C # {}
    BY <1>3 DEF PanelApproves
  <2>2. view[s].approved = {} /\ C = Cities
    BY <1>1, <2>1, DecidesAll
  <2> HIDE DEF C
  <2>3. /\ approved' \in {approved, view[s].approved \cup C}
        /\ \A u \in Sessions : scities'[u] = scities[u] \/ scities'[u] = C
        /\ \A u \in Sessions : spc'[u] = spc[u] \/ spc'[u] \in {"idle", "dispatch"}
        /\ \A u \in Sessions : view'[u] = view[u] \/ view'[u] = NoRow
        /\ targets' = targets /\ tcities' = tcities
    BY <1>3 DEF PanelApproves, GoesAtOnce, GetsSlot, C
  <2> QED
    BY <1>2, <2>2, <2>3, WholeKept DEF WholeInv, AllOrNone
<1>4. ASSUME NEW t \in Tasks, PanelPublishes(s, t) PROVE WholeInv'
  <2> DEFINE C == Decidable(s, view[s])
  <2>1. C # {}
    BY <1>4 DEF PanelPublishes
  <2>2. view[s].approved = {} /\ C = Cities
    BY <1>1, <2>1, DecidesAll
  <2> HIDE DEF C
  <2>3. /\ approved' \in {approved, view[s].approved \cup C}
        /\ scities' = scities
        /\ \A u \in Tasks : tcities'[u] = tcities[u] \/ tcities'[u] = C
        /\ \A u \in Sessions : spc'[u] = spc[u] \/ spc'[u] = "idle"
        /\ \A u \in Sessions : view'[u] = view[u] \/ view'[u] = NoRow
        /\ targets' = targets
    BY <1>4 DEF PanelPublishes, Enqueue, Finish, C
  <2> QED
    BY <1>2, <2>2, <2>3, WholeKept DEF WholeInv, AllOrNone
<1>5. ASSUME NEW op \in Operation, BotApproves(s, op) PROVE WholeInv'
  <2> DEFINE C == Decidable(s, Row)
  <2>1. C # {}
    BY <1>5 DEF BotApproves
  <2>2. Row.approved = {} /\ C = Cities
    BY <1>1, <2>1, DecidesAll
  <2> HIDE DEF C
  <2>3. /\ approved' \in {approved, Row.approved \cup C}
        /\ \A u \in Sessions : scities'[u] = scities[u] \/ scities'[u] = C
        /\ \A u \in Sessions : spc'[u] = spc[u] \/ spc'[u] \in {"idle", "dispatch"}
        /\ view' = view /\ targets' = targets /\ tcities' = tcities
    BY <1>5 DEF BotApproves, GoesAtOnce, GetsSlot, C
  <2> QED
    BY <2>2, <2>3, WholeKept DEF WholeInv, AllOrNone
<1> HIDE DEF TypeOK
<1> QED
  BY <1>3, <1>4, <1>5

LEMMA WholeSession ==
  ASSUME TypeOK, DecideEverything, WholeInv, NEW s \in Sessions, SessionStep(s)
  PROVE  WholeInv'
<1>1. CASE PanelApproves(s) \/ \E t \in Tasks : PanelPublishes(s, t)
  BY <1>1, WholeApproval
<1> USE DEF TypeOK, Finish, rowVars, taskVars
<1>2. NoRow.approved = {} /\ spc[s] \notin {"edit", "unpublish", "unpublishing"}
  BY DEF NoRow, WholeInv
<1>3. ~Unpublishes(s) /\ \A T \in SUBSET Cities, b \in BOOLEAN : ~PanelEdits(s, T, b)
  BY <1>2 DEF Unpublishes, PanelEdits, Writes
<1>4. CASE PanelApprovesOnly(s) \/ Rejects(s) \/ Deletes(s)
  BY <1>2, <1>4, WholeKept DEF PanelApprovesOnly, Rejects, Deletes, WholeInv, AllOrNone
<1>5. ASSUME NEW at \in 0..MaxNow, PanelSchedules(s, at) PROVE WholeInv'
  BY <1>2, <1>5, WholeKept DEF PanelSchedules, WholeInv, AllOrNone
<1>6. ASSUME NEW t \in Tasks, Dispatch(s, t) PROVE WholeInv'
  <2>1. /\ approved' = approved /\ targets' = targets /\ view' = view
        /\ \A u \in Tasks : tcities'[u] = tcities[u] \/ tcities'[u] = scities[s]
        /\ \A u \in Sessions : spc'[u] = spc[u] \/ spc'[u] = "idle"
        /\ \A u \in Sessions : scities'[u] = scities[u] \/ scities'[u] = {}
    BY <1>6 DEF Dispatch, Enqueue
  <2> QED
    BY <2>1, WholeKept DEF WholeInv, AllOrNone
<1>7. CASE TakesDown(s)
  BY <1>2, <1>7, WholeKept DEF TakesDown, WholeInv, AllOrNone
<1> HIDE DEF TypeOK
<1> QED
  BY <1>1, <1>3, <1>4, <1>5, <1>6, <1>7 DEF SessionStep

LEMMA WholeStep ==
  ASSUME TypeOK, DecideEverything, WholeInv, [Next]_vars
  PROVE  WholeInv'
<1> USE DEF rowVars, sessVars, taskVars
<1>1. ASSUME NEW t \in Tasks, WorkerStep(t) PROVE WholeInv'
  BY <1>1, WholeWorker
<1>2. ASSUME NEW t \in Tasks PROVE ~WorkerLost(t)
  BY DEF WorkerLost, Fault, DecideEverything
<1>3. CASE LockExpires \/ Tick \/ UNCHANGED vars
  BY <1>3 DEF LockExpires, Tick, vars, WholeInv
<1>4. ASSUME NEW t \in Tasks, BeatPublishes(t) PROVE WholeInv'
  BY <1>4, WholeKept DEF BeatPublishes, Enqueue, WholeInv, TypeOK
<1>5. ASSUME NEW t \in Tasks, NEW u \in Tasks, Redeliver(t, u) PROVE WholeInv'
  BY <1>5, WholeKept DEF Redeliver, WholeInv, TypeOK
<1>6. ASSUME NEW s \in Sessions, SessionStep(s) PROVE WholeInv'
  BY <1>6, WholeSession
<1>7. ASSUME NEW s \in Sessions, NEW op \in Operation, ReadRow(s, op) PROVE WholeInv'
  <2>1. op \notin {"edit", "unpublish", "unpublishing"} /\ Row.approved = approved
    BY <1>7 DEF ReadRow, Begins, DecideEverything, Operation, Row
  <2> QED
    BY <1>7, <2>1, WholeKept DEF ReadRow, WholeInv, TypeOK
<1>8. ASSUME NEW s \in Sessions, NEW op \in Operation, BotApproves(s, op)
      PROVE  WholeInv'
  BY <1>8, WholeApproval
<1>9. ASSUME NEW s \in Sessions, Abandon(s) \/ BulkDeletes(s) \/ ApiLost(s)
      PROVE  WholeInv'
  <2>1. NoRow.approved = {}
    BY DEF NoRow
  <2> QED
    BY <1>9, <2>1, WholeKept
    DEF Abandon, BulkDeletes, ApiLost, Finish, WholeInv, AllOrNone, TypeOK
<1> QED
  BY <1>1, <1>2, <1>3, <1>4, <1>5, <1>6, <1>7, <1>8, <1>9 DEF Next

LEMMA ForgetWorker ==
  ASSUME TypeOK, DecideEverything, WholeInv, ForgetInv, NEW t \in Tasks, WorkerStep(t)
  PROVE  ForgetInv'
<1> USE DEF TypeOK, TaskPc, rowVars, taskVars, chatVars, sessVars
<1> USE DEF ForgetInv, DutyDone, AllRecorded, UnderWay, Executing
<1>1. CASE AcquireLock(t)
  BY <1>1 DEF AcquireLock
<1>2. CASE SkipLocked(t)
  <2>1. PICK u \in Tasks : Executing(u)
    BY <1>2 DEF SkipLocked
  <2>2. u # t /\ tpc'[u] = tpc[u]
    BY <1>2, <2>1 DEF SkipLocked
  <2>3. exists => AllRecorded \/ tpc[u] \in {"locked", "sending"}
    BY <2>1
  <2>4. /\ exists' = exists /\ status' = status /\ ids' = ids /\ spc' = spc
        /\ todo' = todo /\ posted' = posted /\ redisLock' = redisLock
        /\ \A v \in Tasks : v # t => tpc'[v] = tpc[v]
        /\ tpc'[t] = "free"
    BY <1>2 DEF SkipLocked
  <2> QED
    BY <2>1, <2>2, <2>3, <2>4
<1>3. CASE PublishRaises(t)
  <2>1. exists => AllRecorded
    BY <1>3, CallsAll, SomeCity DEF PublishRaises
  <2> QED
    BY <1>3, <2>1 DEF PublishRaises
<1>4. CASE PublishNothing(t)
  <2>1. AllRecorded
    BY <1>4, CallsAll DEF PublishNothing
  <2> QED
    BY <1>4, <2>1 DEF PublishNothing
<1>5. CASE PublishBegins(t)
  <2>1. todo'[t] = {c \in Chats : ids[c] = 0}
    BY <1>5, CallsAll DEF PublishBegins
  <2> QED
    BY <1>5, <2>1 DEF PublishBegins
<1>6. ASSUME NEW c \in Chats, Send(t, c) PROVE ForgetInv'
  <2>1. posted' = [posted EXCEPT ![t][c] = sent[c] + 1] /\ sent[c] + 1 # 0
    BY <1>6 DEF Send, Fault, DecideEverything
  <2>2. \A d \in Chats : d \in todo[t] => d \in todo'[t] \/ d = c
    BY <1>6 DEF Send
  <2>3. \A d \in Chats : posted[t][d] # 0 \/ d = c => posted'[t][d] # 0
    BY <2>1
  <2>4. \A u \in Tasks : u # t => posted'[u] = posted[u] /\ todo'[u] = todo[u]
    BY <1>6, <2>1 DEF Send
  <2>5. /\ tpc' = tpc /\ ids' = ids /\ exists' = exists /\ status' = status
        /\ redisLock' = redisLock /\ spc' = spc
    BY <1>6 DEF Send
  <2>6. \A u \in Tasks : DutyDone(u)'
    BY <2>2, <2>3, <2>4, <2>5
  <2> QED
    BY <2>5, <2>6
<1>7. CASE PublishCommits(t)
  <2>1. \A c \in Chats : ids'[c] # 0
    BY <1>7 DEF PublishCommits, Merged
  <2>2. /\ tpc' = [tpc EXCEPT ![t] = "done"] /\ redisLock' = redisLock
        /\ \A u \in Tasks : u # t => posted'[u] = posted[u] /\ todo'[u] = todo[u]
    BY <1>7 DEF PublishCommits
  <2> QED
    BY <2>1, <2>2
<1>8. CASE PublishFails(t)
  <2>1. AllRecorded
    BY <1>8 DEF PublishFails, HasSucceeded, Recorded
  <2> QED
    BY <1>8, <2>1 DEF PublishFails
<1>9. ~PublishAborts(t)
  BY DEF PublishAborts, Fault, DecideEverything
<1>10. CASE ReleaseDone(t) \/ GiveUp(t)
  <2>1. /\ exists => AllRecorded
        /\ tpc[t] \in {"done", "failed"}
    BY <1>10 DEF ReleaseDone, GiveUp
  <2>2. /\ exists' = exists /\ ids' = ids /\ status' = status /\ spc' = spc
        /\ todo' = todo /\ posted' = posted /\ redisLock' = FALSE
        /\ tpc' = [tpc EXCEPT ![t] = "free"]
    BY <1>10 DEF ReleaseDone, GiveUp, ReleasesLock
  <2> QED
    BY <2>1, <2>2
<1>11. CASE Retry(t)
  BY <1>11 DEF Retry, ReleasesLock
<1> HIDE DEF TypeOK, ForgetInv
<1> QED
  BY <1>1, <1>2, <1>3, <1>4, <1>5, <1>6, <1>7, <1>8, <1>9, <1>10, <1>11 DEF WorkerStep

\* A step outside the workers: it may say that the item is approved only if its
\* publication is then under way.
LEMMA ForgetKept ==
  ASSUME TypeOK, ForgetInv, TasksUntouched, ids' = ids, exists' => exists,
         status' \in {"approved", "published"} => status' = status \/ UnderWay',
         UnderWay => UnderWay'
  PROVE  ForgetInv'
<1>1. /\ \A t \in Tasks : tpc'[t] = tpc[t] \/ (tpc[t] = "free" /\ tpc'[t] = "queued")
      /\ todo' = todo /\ posted' = posted /\ redisLock' = redisLock
  BY DEF TasksUntouched, TypeOK
<1>2. \A t \in Tasks : DutyDone(t)'
  BY <1>1 DEF ForgetInv, DutyDone, AllRecorded
<1>3. redisLock' => \E t \in Tasks : Executing(t)'
  BY <1>1 DEF ForgetInv, Executing
<1> QED
  BY <1>2, <1>3 DEF ForgetInv, AllRecorded

\* Tasks under way stay so in such a step, and so does a session that is about to
\* enqueue one, unless it does.
LEMMA StaysUnderWay ==
  ASSUME TypeOK, TasksUntouched,
         \A s \in Sessions : spc[s] = "dispatch" =>
            spc'[s] = "dispatch" \/ \E t \in Tasks : tpc'[t] = "queued"
  PROVE  UnderWay => UnderWay'
<1>1. \A t \in Tasks : tpc'[t] = tpc[t] \/ (tpc[t] = "free" /\ tpc'[t] = "queued")
  BY DEF TasksUntouched, TypeOK
<1> QED
  BY <1>1 DEF UnderWay

LEMMA ForgetSession ==
  ASSUME TypeOK, DecideEverything, WholeInv, ForgetInv, TasksUntouched, ids' = ids,
         NEW s \in Sessions, SessionStep(s)
  PROVE  ForgetInv'
<1> USE DEF TypeOK, Finish, Writes, Written, rowVars, taskVars
<1>1. CASE PanelApproves(s)
  <2>1. /\ spc[s] = "approve" /\ exists' = exists
        /\ \A u \in Sessions : u # s => spc'[u] = spc[u]
        /\ status' = "scheduled" \/ spc'[s] = "dispatch"
    BY <1>1 DEF PanelApproves, GoesAtOnce, GetsSlot
  <2> QED
    BY <2>1, ForgetKept, StaysUnderWay DEF UnderWay
<1>2. ASSUME NEW t \in Tasks, PanelPublishes(s, t) PROVE ForgetInv'
  <2>1. /\ spc[s] = "publish" /\ exists' = exists /\ tpc'[t] = "queued"
        /\ \A u \in Sessions : u # s => spc'[u] = spc[u]
    BY <1>2 DEF PanelPublishes, Enqueue
  <2> QED
    BY <2>1, ForgetKept, StaysUnderWay DEF UnderWay
<1>3. ASSUME NEW at \in 0..MaxNow, PanelSchedules(s, at) PROVE ForgetInv'
  <2>1. /\ spc[s] = "schedule" /\ exists' = exists
        /\ \A u \in Sessions : u # s => spc'[u] = spc[u]
        /\ status' \in {status, "pending", "scheduled"}
    BY <1>3 DEF PanelSchedules
  <2> QED
    BY <2>1, ForgetKept, StaysUnderWay
<1>4. ASSUME NEW t \in Tasks, Dispatch(s, t) PROVE ForgetInv'
  <2>1. tpc'[t] = "queued" /\ exists' = exists /\ status' = status
    BY <1>4 DEF Dispatch, Enqueue
  <2> QED
    BY <2>1, ForgetKept, StaysUnderWay
<1>5. CASE PanelApprovesOnly(s) \/ Rejects(s) \/ Deletes(s) \/ TakesDown(s)
  <2>1. /\ spc[s] # "dispatch" /\ (exists' => exists)
        /\ \A u \in Sessions : u # s => spc'[u] = spc[u]
        /\ status' \in {status, "pending", "rejected"}
    BY <1>5 DEF PanelApprovesOnly, Rejects, Deletes, TakesDown
  <2> QED
    BY <2>1, ForgetKept, StaysUnderWay
<1>6. ~Unpublishes(s) /\ \A T \in SUBSET Cities, b \in BOOLEAN : ~PanelEdits(s, T, b)
  BY DEF Unpublishes, PanelEdits, WholeInv
<1> HIDE DEF TypeOK
<1> QED
  BY <1>1, <1>2, <1>3, <1>4, <1>5, <1>6 DEF SessionStep

LEMMA ForgetOther ==
  ASSUME TypeOK, DecideEverything, WholeInv, ForgetInv, OtherStep
  PROVE  ForgetInv'
<1>0. NoneWithdraws
  BY DEF WholeInv, NoneWithdraws
<1>1. TasksUntouched /\ ids' = ids
  BY <1>0, OtherStepTasks, OtherStepPosts
<1> USE DEF rowVars, sessVars
<1>2. ASSUME \/ \E t \in Tasks : BeatPublishes(t)
             \/ \E t, u \in Tasks : Redeliver(t, u)
             \/ Tick
             \/ UNCHANGED vars
      PROVE  ForgetInv'
  <2>1. exists' = exists /\ status' = status /\ spc' = spc
    BY <1>2 DEF BeatPublishes, Redeliver, Tick, vars
  <2> QED
    BY <1>1, <2>1, ForgetKept, StaysUnderWay
<1>3. ASSUME NEW s \in Sessions, SessionStep(s) PROVE ForgetInv'
  BY <1>1, <1>3, ForgetSession
<1>4. ASSUME NEW s \in Sessions, NEW op \in Operation, ReadRow(s, op) PROVE ForgetInv'
  <2>1. /\ spc[s] = "idle" /\ exists' = exists /\ status' = status
        /\ \A u \in Sessions : u # s => spc'[u] = spc[u]
    BY <1>4 DEF ReadRow, Begins, TypeOK
  <2> QED
    BY <1>1, <2>1, ForgetKept, StaysUnderWay
<1>5. ASSUME NEW s \in Sessions, NEW op \in Operation, BotApproves(s, op)
      PROVE  ForgetInv'
  <2>1. /\ spc[s] = "idle" /\ exists' = exists
        /\ \A u \in Sessions : u # s => spc'[u] = spc[u]
        /\ status' = "scheduled" \/ spc'[s] = "dispatch"
    BY <1>5 DEF BotApproves, Begins, GoesAtOnce, GetsSlot, TypeOK, Fault, DecideEverything
  <2> QED
    BY <1>1, <2>1, ForgetKept, StaysUnderWay DEF UnderWay
<1>6. ASSUME NEW s \in Sessions, Abandon(s) \/ BulkDeletes(s) PROVE ForgetInv'
  <2>1. /\ spc[s] # "dispatch" /\ (exists' => exists) /\ status' = status
        /\ \A u \in Sessions : u # s => spc'[u] = spc[u]
    BY <1>6 DEF Abandon, BulkDeletes, Begins, Finish, TypeOK
  <2> QED
    BY <1>1, <2>1, ForgetKept, StaysUnderWay
<1>7. ASSUME NEW s \in Sessions PROVE ~ApiLost(s)
  BY DEF ApiLost, Fault, DecideEverything
<1> QED
  BY <1>2, <1>3, <1>4, <1>5, <1>6, <1>7 DEF OtherStep

LEMMA ForgetStep ==
  ASSUME TypeOK, DecideEverything, WholeInv, ForgetInv, [Next]_vars
  PROVE  ForgetInv'
<1>1. ASSUME NEW t \in Tasks, WorkerStep(t) PROVE ForgetInv'
  BY <1>1, ForgetWorker
<1>2. ASSUME NEW t \in Tasks PROVE ~WorkerLost(t)
  BY DEF WorkerLost, Fault, DecideEverything
<1>3. CASE LockExpires
  BY <1>3 DEF LockExpires, rowVars, taskVars, sessVars, ForgetInv, DutyDone,
     AllRecorded, UnderWay
<1>4. CASE OtherStep
  BY <1>4, ForgetOther
<1> QED
  BY <1>1, <1>2, <1>3, <1>4, StepCases

\* When all is quiet, an approved item is in every channel of its cities, however
\* approvals, double-enqueued and redelivered tasks and expiring locks interleave, if
\* every moderator decides all its cities and no post fails.
THEOREM NothingIsForgotten ==
  ASSUME DecideEverything
  PROVE  Spec => []NothingForgotten
<1>1. Init => WholeInv
  BY DEF Init, ForModeration, SkipsModeration, WholeInv, AllOrNone, NoRow
<1>2. Init => ForgetInv
  <2> SUFFICES ASSUME Init PROVE ForgetInv
    OBVIOUS
  <2>1. \A t \in Tasks : tpc[t] \in {"free", "queued"}
    BY DEF Init, ForModeration, SkipsModeration
  <2>2. status \in {"approved", "published"} => \E t \in Tasks : tpc[t] = "queued"
    BY DEF Init, ForModeration, SkipsModeration
  <2> QED
    BY <2>1, <2>2 DEF Init, ForgetInv, DutyDone, UnderWay
<1>3. TypeOK /\ WholeInv /\ [Next]_vars => WholeInv'
  BY WholeStep
<1>4. TypeOK /\ WholeInv /\ ForgetInv /\ [Next]_vars => ForgetInv'
  BY ForgetStep
<1>5. ForgetInv => NothingForgotten
  BY DEF ForgetInv, NothingForgotten, Quiet, UnderWay, AllRecorded, HasReached, ChannelsOf
<1> QED
  BY <1>1, <1>2, <1>3, <1>4, <1>5, TypeCorrect, PTL DEF Spec
===============================================================================
