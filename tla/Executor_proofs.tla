--------------------------- MODULE Executor_proofs ---------------------------
(***************************************************************************)
(* Proofs about the modules Executor, for every number of tasks and every  *)
(* capacity of the task_queue, and SimpleExecutor, for any set of tasks    *)
(* and any number of polls a future may need.                              *)
(***************************************************************************)
EXTENDS Executor, SimpleExecutor, SequenceTheorems, TLAPS

-----------------------------------------------------------------------------
(* The queue operations the executor is built from, as facts about the     *)
(* ids they hold.                                                          *)

(* A push adds the id that is pushed to the ids that wait.                 *)
LEMMA IdsAppend ==
  ASSUME NEW S, NEW q \in Seq(S), NEW t \in S
  PROVE  /\ Append(q, t) \in Seq(S)
         /\ Len(Append(q, t)) = Len(q) + 1
         /\ Ids(Append(q, t)) = Ids(q) \union {t}
<1>1. /\ Append(q, t) \in Seq(S)
      /\ Len(Append(q, t)) = Len(q) + 1
      /\ DOMAIN Append(q, t) = 1 .. Len(q) + 1
      /\ DOMAIN q = 1 .. Len(q)
      /\ Len(q) \in Nat
  OBVIOUS
<1>2. \A i \in 1 .. Len(q) : Append(q, t)[i] = q[i]
  OBVIOUS
<1>3. Append(q, t)[Len(q) + 1] = t
  OBVIOUS
<1>4. Ids(Append(q, t)) \subseteq Ids(q) \union {t}
  <2>1. SUFFICES ASSUME NEW i \in 1 .. Len(q) + 1
                 PROVE  Append(q, t)[i] \in Ids(q) \union {t}
    BY <1>1 DEF Ids
  <2>2. CASE i \in 1 .. Len(q)
    BY <1>1, <1>2, <2>2 DEF Ids
  <2>3. CASE i = Len(q) + 1
    BY <1>3, <2>3
  <2> QED
    BY <1>1, <2>2, <2>3
<1>5. Ids(q) \union {t} \subseteq Ids(Append(q, t))
  <2>1. ASSUME NEW i \in 1 .. Len(q)
        PROVE  q[i] \in Ids(Append(q, t))
    <3>1. i \in DOMAIN Append(q, t)
      BY <1>1
    <3> QED
      BY <1>2, <3>1 DEF Ids
  <2>2. t \in Ids(Append(q, t))
    <3>1. Len(q) + 1 \in DOMAIN Append(q, t)
      BY <1>1
    <3> QED
      BY <1>3, <3>1 DEF Ids
  <2> QED
    BY <1>1, <2>1, <2>2 DEF Ids
<1> QED
  BY <1>1, <1>4, <1>5

(* A pop takes one entry of the oldest id and loses no other id.           *)
LEMMA IdsTail ==
  ASSUME NEW S, NEW q \in Seq(S), q # <<>>
  PROVE  /\ Head(q) \in S
         /\ Head(q) \in Ids(q)
         /\ Tail(q) \in Seq(S)
         /\ Len(Tail(q)) = Len(q) - 1
         /\ Ids(Tail(q)) \subseteq Ids(q)
         /\ Ids(q) \subseteq Ids(Tail(q)) \union {Head(q)}
<1>1. /\ Len(q) \in Nat /\ Len(q) >= 1
      /\ Head(q) = q[1] /\ Head(q) \in S
      /\ DOMAIN q = 1 .. Len(q)
  OBVIOUS
<1>2. /\ Tail(q) \in Seq(S)
      /\ Len(Tail(q)) = Len(q) - 1
      /\ DOMAIN Tail(q) = 1 .. Len(q) - 1
  OBVIOUS
<1>3. \A i \in 1 .. Len(q) - 1 : Tail(q)[i] = q[i + 1]
  OBVIOUS
<1>4. Head(q) \in Ids(q)
  BY <1>1 DEF Ids
<1>5. Ids(Tail(q)) \subseteq Ids(q)
  <2>1. SUFFICES ASSUME NEW i \in 1 .. Len(q) - 1
                 PROVE  Tail(q)[i] \in Ids(q)
    BY <1>2 DEF Ids
  <2>2. i + 1 \in DOMAIN q
    BY <1>1
  <2> QED
    BY <1>3, <2>2 DEF Ids
<1>6. Ids(q) \subseteq Ids(Tail(q)) \union {Head(q)}
  <2>1. SUFFICES ASSUME NEW i \in 1 .. Len(q)
                 PROVE  q[i] \in Ids(Tail(q)) \union {Head(q)}
    BY <1>1 DEF Ids
  <2>2. CASE i = 1
    BY <1>1, <2>2
  <2>3. CASE i # 1
    <3>1. i - 1 \in 1 .. Len(q) - 1 /\ (i - 1) + 1 = i
      BY <1>1, <2>3
    <3>2. Tail(q)[i - 1] = q[i]
      BY <1>3, <3>1
    <3> QED
      BY <1>2, <3>1, <3>2 DEF Ids
  <2> QED
    BY <2>2, <2>3
<1> QED
  BY <1>1, <1>2, <1>4, <1>5, <1>6

(* Only ids of the element set are in a queue.                             *)
LEMMA IdsType ==
  ASSUME NEW S, NEW q \in Seq(S)
  PROVE  Ids(q) \subseteq S
BY DEF Ids

(* The effect of wake_task on the queue, wherever it is called from.       *)
LEMMA WakeTaskEffect ==
  ASSUME ExecutorStateOK, NEW t \in TaskId, WakeTask(t)
  PROVE  /\ task_queue' \in Seq(TaskId)
         /\ Len(task_queue') <= TaskQueueCap
         /\ Ids(task_queue) \subseteq Ids(task_queue')
         /\ Ids(task_queue') \subseteq Ids(task_queue) \union {t}
         /\ notified' \subseteq TaskId
         /\ pc' \in {pc, "panic"}
         /\ panicked' \in {panicked, WakeFullMsg}
         /\ pc' # "panic" => /\ t \in Ids(task_queue')
                             /\ notified' = notified \union {t}
<1> USE ExecutorAssumption DEF ExecutorStateOK
<1>1. CASE /\ Len(task_queue) < TaskQueueCap
           /\ task_queue' = Append(task_queue, t)
           /\ notified' = notified \union {t}
           /\ UNCHANGED <<pc, panicked>>
  <2>1. /\ task_queue' \in Seq(TaskId)
        /\ Len(task_queue') = Len(task_queue) + 1
        /\ Ids(task_queue') = Ids(task_queue) \union {t}
    BY <1>1, IdsAppend
  <2>2. Len(task_queue) \in Nat
    OBVIOUS
  <2> QED
    BY <1>1, <2>1, <2>2
<1>2. CASE /\ Len(task_queue) >= TaskQueueCap
           /\ pc' = "panic"
           /\ panicked' = WakeFullMsg
           /\ UNCHANGED <<task_queue, notified>>
  BY <1>2
<1> QED
  BY <1>1, <1>2 DEF WakeTask

-----------------------------------------------------------------------------
(* The initial state and every step keep the types of the executor.        *)
LEMMA ExecutorTypeInit == ExecutorInit => ExecutorTypeOK
BY ExecutorAssumption DEF ExecutorInit, ExecutorTypeOK, ExecutorStateOK, TaskId

LEMMA ExecutorTypeStep ==
  ExecutorTypeOK /\ [ExecutorNext]_execVars => ExecutorTypeOK'
<1> SUFFICES ASSUME ExecutorTypeOK, [ExecutorNext]_execVars
             PROVE  ExecutorTypeOK'
  OBVIOUS
<1> USE ExecutorAssumption DEF ExecutorTypeOK, ExecutorStateOK
<1>1. CASE Spawn
  <2>1. next_id \in TaskId /\ next_id + 1 \in 0 .. NumTasks
    BY <1>1 DEF Spawn, TaskId
  <2>2. SpawnOutcome \in {NoPanicMsg, DuplicateIdMsg, SpawnFullMsg}
    BY DEF SpawnOutcome
  <2>3. CASE SpawnOutcome = NoPanicMsg
    <3>1. Len(task_queue) < TaskQueueCap
      <4>1. ~(Len(task_queue) >= TaskQueueCap)
        BY <2>3 DEF SpawnOutcome, DuplicateIdMsg, SpawnFullMsg, NoPanicMsg
      <4>2. Len(task_queue) \in Nat
        OBVIOUS
      <4> QED
        BY <4>1, <4>2
    <3>2. task_queue' = Append(task_queue, next_id)
      BY <1>1, <2>3 DEF Spawn
    <3>3. task_queue' \in Seq(TaskId) /\ Len(task_queue') <= TaskQueueCap
      BY <2>1, <3>1, <3>2, IdsAppend
    <3> QED
      BY <1>1, <2>1, <2>2, <2>3, <3>3 DEF Spawn, NewTaskId
  <2>4. CASE SpawnOutcome # NoPanicMsg
    BY <1>1, <2>1, <2>2, <2>4 DEF Spawn, NewTaskId
  <2> QED
    BY <2>3, <2>4
<1>2. CASE Run
  BY <1>2 DEF Run
<1>3. CASE PopTask
  <2>1. /\ task_queue' \in Seq(TaskId) /\ Len(task_queue') <= TaskQueueCap
        /\ Head(task_queue) \in TaskId
    BY <1>3, IdsTail DEF PopTask
  <2> QED
    BY <1>3, <2>1 DEF PopTask
<1>4. CASE PopNone
  BY <1>4 DEF PopNone, execVars
<1>5. CASE PollReady
  BY <1>5 DEF PollReady
<1>6. CASE PollPending
  BY <1>6 DEF PollPending
<1>7. CASE HltLoop
  BY <1>7 DEF HltLoop, execVars
<1>8. CASE CloneWaker
  BY <1>8 DEF CloneWaker
<1>9. ASSUME NEW t \in TaskId, DropWaker(t)
      PROVE  ExecutorTypeOK'
  BY <1>9 DEF DropWaker
<1>10. ASSUME NEW t \in TaskId, Wake(t)
       PROVE  ExecutorTypeOK'
  <2>1. WakeTask(t)
    BY <1>10 DEF Wake
  <2>2. /\ task_queue' \in Seq(TaskId)
        /\ Len(task_queue') <= TaskQueueCap
        /\ notified' \subseteq TaskId
        /\ pc' \in {pc, "panic"}
        /\ panicked' \in {panicked, WakeFullMsg}
    BY <2>1, WakeTaskEffect
  <2> QED
    BY <1>10, <2>2 DEF Wake
<1>11. CASE UNCHANGED execVars
  BY <1>11 DEF execVars
<1> QED
  BY <1>1, <1>2, <1>3, <1>4, <1>5, <1>6, <1>7, <1>8, <1>9, <1>10, <1>11
     DEF ExecutorNext

(* The state of the executor keeps its types.                              *)
THEOREM ExecutorTypeCorrect == ExecutorSpec => []ExecutorTypeOK
BY ExecutorTypeInit, ExecutorTypeStep, PTL DEF ExecutorSpec

-----------------------------------------------------------------------------
(***************************************************************************)
(* WokenIsQueued is inductive together with the types: a push queues the   *)
(* id it notifies, and a pop takes the notification of the id it removes.  *)
(***************************************************************************)
LEMMA WokenIsQueuedStep ==
  ExecutorTypeOK /\ WokenIsQueued /\ [ExecutorNext]_execVars => WokenIsQueued'
<1> SUFFICES ASSUME ExecutorTypeOK, WokenIsQueued, [ExecutorNext]_execVars,
                    pc' # "panic"
             PROVE  (notified \intersect tasks \subseteq Ids(task_queue))'
  BY DEF WokenIsQueued
<1> USE DEF WokenIsQueued, ExecutorTypeOK, ExecutorStateOK
<1>1. CASE Spawn
  <2>1. next_id \in TaskId
    BY <1>1, ExecutorAssumption DEF Spawn, TaskId
  <2>2. /\ task_queue' = Append(task_queue, next_id)
        /\ notified' = notified \union {next_id}
        /\ tasks' = tasks \union {next_id}
        /\ pc # "panic"
    BY <1>1 DEF Spawn
  <2>3. Ids(task_queue') = Ids(task_queue) \union {next_id}
    BY <2>1, <2>2, IdsAppend
  <2> QED
    BY <2>2, <2>3
<1>2. CASE Run
  BY <1>2 DEF Run
<1>3. CASE PopTask
  <2>1. Ids(task_queue) \subseteq Ids(task_queue') \union {Head(task_queue)}
    BY <1>3, IdsTail DEF PopTask
  <2> QED
    BY <1>3, <2>1 DEF PopTask
<1>4. CASE PopNone
  BY <1>4 DEF PopNone, execVars
<1>5. CASE PollReady
  BY <1>5 DEF PollReady
<1>6. CASE PollPending
  BY <1>6 DEF PollPending
<1>7. CASE HltLoop
  BY <1>7 DEF HltLoop, execVars
<1>8. CASE CloneWaker
  BY <1>8 DEF CloneWaker
<1>9. ASSUME NEW t \in TaskId, DropWaker(t)
      PROVE  (notified \intersect tasks \subseteq Ids(task_queue))'
  BY <1>9 DEF DropWaker
<1>10. ASSUME NEW t \in TaskId, Wake(t)
       PROVE  (notified \intersect tasks \subseteq Ids(task_queue))'
  <2>1. WakeTask(t) /\ tasks' = tasks /\ pc # "panic"
    BY <1>10 DEF Wake
  <2>2. /\ Ids(task_queue) \subseteq Ids(task_queue')
        /\ t \in Ids(task_queue')
        /\ notified' = notified \union {t}
    BY <2>1, WakeTaskEffect
  <2> QED
    BY <2>1, <2>2
<1>11. CASE UNCHANGED execVars
  BY <1>11 DEF execVars
<1> QED
  BY <1>1, <1>2, <1>3, <1>4, <1>5, <1>6, <1>7, <1>8, <1>9, <1>10, <1>11
     DEF ExecutorNext

(* No wake-up is lost, however many tasks and events there are.            *)
THEOREM NoLostWakeup == ExecutorSpec => []WokenIsQueued
<1>1. ExecutorInit => WokenIsQueued
  BY DEF ExecutorInit, WokenIsQueued
<1> QED
  BY <1>1, ExecutorTypeCorrect, WokenIsQueuedStep, PTL DEF ExecutorSpec

-----------------------------------------------------------------------------
(***************************************************************************)
(* Ids are handed out in order, so every id in circulation is below        *)
(* next_id and spawn cannot meet its own id in the map.                    *)
(***************************************************************************)
LEMMA LiveTaskBookkeepingStep ==
  ExecutorTypeOK /\ LiveTaskBookkeeping /\ [ExecutorNext]_execVars
    => LiveTaskBookkeeping'
<1> SUFFICES ASSUME ExecutorTypeOK, LiveTaskBookkeeping,
                    [ExecutorNext]_execVars
             PROVE  LiveTaskBookkeeping'
  OBVIOUS
<1> DEFINE InUse == tasks \union wakers \union Ids(task_queue)
<1>0. /\ next_id \in Nat
      /\ InUse \subseteq TaskId
      /\ \A t \in InUse : t < next_id
      /\ \A t \in TaskId : t \in Nat
  <2>1. next_id \in Nat /\ \A t \in TaskId : t \in Nat
    BY ExecutorAssumption DEF ExecutorTypeOK, ExecutorStateOK, TaskId
  <2>2. Ids(task_queue) \subseteq TaskId
    BY IdsType DEF ExecutorTypeOK, ExecutorStateOK
  <2>3. InUse \subseteq TaskId
    BY <2>2 DEF ExecutorTypeOK, ExecutorStateOK
  <2>4. \A t \in InUse : t < next_id
    BY DEF LiveTaskBookkeeping
  <2> QED
    BY <2>1, <2>3, <2>4
<1> USE DEF LiveTaskBookkeeping, ExecutorTypeOK, ExecutorStateOK
<1>1. CASE Spawn
  <2>1. next_id \in TaskId /\ next_id' = next_id + 1
    BY <1>1, ExecutorAssumption DEF Spawn, NewTaskId, TaskId
  <2>2. next_id \notin tasks
    BY <1>0
  <2>3. panicked' # DuplicateIdMsg
    BY <1>1, <2>2 DEF Spawn, SpawnOutcome, DuplicateIdMsg, SpawnFullMsg,
                      NoPanicMsg
  <2>4. Ids(task_queue') \subseteq Ids(task_queue) \union {next_id}
    <3>1. \/ task_queue' = task_queue
          \/ task_queue' = Append(task_queue, next_id)
      BY <1>1 DEF Spawn
    <3> QED
      BY <2>1, <3>1, IdsAppend
  <2>5. \A t \in InUse' : t < next_id'
    <3>1. InUse' \subseteq InUse \union {next_id}
      BY <1>1, <2>4 DEF Spawn
    <3>2. ASSUME NEW t \in InUse \union {next_id}
          PROVE  t < next_id'
      BY <1>0, <2>1
    <3> HIDE DEF InUse
    <3> QED
      BY <3>1, <3>2
  <2>6. pc' # "poll" /\ waker_cache' \subseteq tasks'
    BY <1>1 DEF Spawn
  <2> QED
    BY <2>3, <2>5, <2>6
<1>2. CASE Run
  BY <1>2 DEF Run
<1>3. CASE PopTask
  <2>1. Ids(task_queue') \subseteq Ids(task_queue)
    BY <1>3, IdsTail DEF PopTask
  <2> QED
    BY <1>3, <2>1 DEF PopTask
<1>4. CASE PopNone
  BY <1>4 DEF PopNone, execVars
<1>5. CASE PollReady
  BY <1>5 DEF PollReady
<1>6. CASE PollPending
  BY <1>6 DEF PollPending
<1>7. CASE HltLoop
  BY <1>7 DEF HltLoop, execVars
<1>8. CASE CloneWaker
  BY <1>8 DEF CloneWaker
<1>9. ASSUME NEW t \in TaskId, DropWaker(t)
      PROVE  LiveTaskBookkeeping'
  BY <1>9 DEF DropWaker
<1>10. ASSUME NEW t \in TaskId, Wake(t)
       PROVE  LiveTaskBookkeeping'
  <2>1. WakeTask(t) /\ t \in wakers
    BY <1>10 DEF Wake
  <2>2. /\ Ids(task_queue') \subseteq Ids(task_queue) \union {t}
        /\ pc' \in {pc, "panic"}
        /\ panicked' \in {panicked, WakeFullMsg}
    BY <2>1, WakeTaskEffect
  <2> QED
    BY <1>10, <2>1, <2>2 DEF Wake, DuplicateIdMsg, WakeFullMsg
<1>11. CASE UNCHANGED execVars
  BY <1>11 DEF execVars
<1> QED
  BY <1>1, <1>2, <1>3, <1>4, <1>5, <1>6, <1>7, <1>8, <1>9, <1>10, <1>11
     DEF ExecutorNext

(* spawn's duplicate check never fires and no stale waker stays cached.    *)
THEOREM TasksStayConsistent == ExecutorSpec => []LiveTaskBookkeeping
<1>1. ExecutorInit => LiveTaskBookkeeping
  BY DEF ExecutorInit, LiveTaskBookkeeping, Ids, DuplicateIdMsg, NoPanicMsg
<1> QED
  BY <1>1, ExecutorTypeCorrect, LiveTaskBookkeepingStep, PTL DEF ExecutorSpec

(* The only id that ever enters the map is the one TaskId::new hands out.  *)
THEOREM DoneIsFinal == ExecutorSpec => DoneStaysDone
<1>1. ASSUME ExecutorTypeOK, [ExecutorNext]_execVars
      PROVE  [\A t \in TaskId : t < next_id /\ t \notin tasks => t \notin tasks']_execVars
  <2>1. tasks' \subseteq tasks \union {next_id}
    BY <1>1 DEF ExecutorNext, Spawn, Run, PopTask, PopNone, PollReady,
                PollPending, HltLoop, CloneWaker, DropWaker, Wake, execVars
  <2>2. next_id \in Nat
    BY <1>1, ExecutorAssumption DEF ExecutorTypeOK, ExecutorStateOK
  <2> QED
    BY <2>1, <2>2 DEF TaskId
<1> QED
  BY <1>1, ExecutorTypeCorrect, PTL DEF ExecutorSpec, DoneStaysDone
-----------------------------------------------------------------------------
(* The simple executor.                                                    *)
SimpleTypeOK ==
  /\ simple_queue \in Seq(Tasks)
  /\ running \in BOOLEAN
  /\ polls \in [Tasks -> Nat]
  /\ spawned \subseteq Tasks /\ finished \subseteq spawned

(***************************************************************************)
(* The inductive invariant: RoundRobin says nothing of the order of the    *)
(* queue.  The queue holds each unfinished task once, in the order of the  *)
(* polls they had, and the last one is at most one poll ahead of the first *)
(* one.  Tasks that wait for run, or for spawn, have not been polled.      *)
(***************************************************************************)
QueueOrdered ==
  /\ \A i, j \in 1 .. Len(simple_queue) : i < j =>
       /\ simple_queue[i] # simple_queue[j]
       /\ polls[simple_queue[i]] <= polls[simple_queue[j]]
       /\ polls[simple_queue[j]] <= polls[simple_queue[i]] + 1
  /\ Unfinished = ToSet(simple_queue)
  /\ ~running => \A i \in 1 .. Len(simple_queue) : polls[simple_queue[i]] = 0
  /\ \A t \in Tasks \ spawned : polls[t] = 0

SimpleInv == SimpleTypeOK /\ QueueOrdered

-----------------------------------------------------------------------------
(* Initially nothing is spawned.                                           *)
LEMMA SimpleInvInit == SimpleInit => SimpleInv
<1> SUFFICES ASSUME SimpleInit PROVE SimpleInv
  OBVIOUS
<1>1. simple_queue = << >> /\ Len(simple_queue) = 0 /\ simple_queue \in Seq(Tasks)
  BY EmptySeq DEF SimpleInit
<1>2. SimpleTypeOK
  BY <1>1 DEF SimpleInit, SimpleTypeOK
<1>3. ToSet(simple_queue) = {}
  BY <1>1 DEF ToSet
<1>4. QueueOrdered
  BY <1>1, <1>3 DEF SimpleInit, QueueOrdered, Unfinished
<1> QED
  BY <1>2, <1>4 DEF SimpleInv

(* spawn puts a task that was never polled behind others of that kind.     *)
LEMMA SpawnKeepsOrder ==
  ASSUME SimpleInv, NEW t \in Tasks, SimpleSpawn(t)
  PROVE  SimpleInv'
<1> USE DEF SimpleInv, SimpleTypeOK, SimpleSpawn
<1> DEFINE q == simple_queue
<1>1. /\ q' \in Seq(Tasks)
      /\ Len(q') = Len(q) + 1 /\ Len(q) \in Nat
      /\ \A i \in 1 .. Len(q) : q'[i] = q[i]
      /\ q'[Len(q) + 1] = t
  BY AppendProperties, LenProperties
<1>2. /\ ToSet(q) = {q[i] : i \in 1 .. Len(q)}
      /\ ToSet(q') = {q'[i] : i \in 1 .. Len(q')}
  BY <1>1, LenProperties DEF ToSet
<1>3. ToSet(q') = ToSet(q) \union {t}
  <2>1. ASSUME NEW x PROVE x \in ToSet(q') <=> x \in ToSet(q) \/ x = t
    BY <1>1, <1>2
  <2> QED
    BY <2>1
<1>4. SimpleTypeOK'
  BY <1>1
<1>5. \A i \in 1 .. Len(q') : polls'[q'[i]] = 0
  BY <1>1 DEF QueueOrdered
<1>6. Unfinished' = ToSet(q')
  BY <1>3 DEF QueueOrdered, Unfinished
<1>7. ASSUME NEW i \in 1 .. Len(q'), NEW j \in 1 .. Len(q'), i < j
      PROVE  q'[i] # q'[j]
  <2>1. i \in 1 .. Len(q)
    BY <1>1, <1>7
  <2>2. CASE j \in 1 .. Len(q)
    BY <1>1, <1>7, <2>1, <2>2 DEF QueueOrdered
  <2>3. CASE j = Len(q) + 1
    BY <1>1, <1>2, <2>1, <2>3 DEF QueueOrdered, Unfinished
  <2> QED
    BY <1>1, <2>2, <2>3
<1>8. QueueOrdered'
  BY <1>5, <1>6, <1>7 DEF QueueOrdered
<1> QED
  BY <1>4, <1>8

(* A poll of the first task, which then leaves or goes to the end.         *)
LEMMA PollKeepsOrder ==
  ASSUME SimpleInv, PollFront
  PROVE  SimpleInv'
<1> USE DEF SimpleInv, SimpleTypeOK
<1> DEFINE q    == simple_queue
           t    == Head(simple_queue)
           rest == Tail(simple_queue)
<1>1. /\ q \in Seq(Tasks) /\ q # << >> /\ Len(q) \in Nat \ {0}
      /\ t = q[1] /\ t \in Tasks
      /\ rest \in Seq(Tasks) /\ Len(rest) = Len(q) - 1
      /\ \A i \in 1 .. Len(q) - 1 : rest[i] = q[i + 1]
  BY HeadTailProperties, EmptySeq DEF PollFront
<1>2. ToSet(q) = {q[i] : i \in 1 .. Len(q)}
  BY <1>1, LenProperties DEF ToSet
<1>3. /\ t \in ToSet(q) /\ t \in spawned /\ t \notin finished
      /\ \A i \in 1 .. Len(rest) : rest[i] # t /\ rest[i] \in Tasks /\ rest[i] \in ToSet(q)
  <2>1. \A i \in 1 .. Len(rest) : i + 1 \in 1 .. Len(q) /\ 1 < i + 1 /\ rest[i] = q[i + 1]
    BY <1>1
  <2>2. 1 \in 1 .. Len(q)
    BY <1>1
  <2>3. \A i \in 1 .. Len(rest) : rest[i] # t /\ rest[i] \in ToSet(q)
    BY <1>1, <1>2, <2>1, <2>2 DEF QueueOrdered
  <2> QED
    BY <1>1, <1>2, <2>2, <2>3, ElementOfSeq DEF QueueOrdered, Unfinished
<1>4. /\ polls' \in [Tasks -> Nat] /\ polls'[t] = polls[t] + 1
      /\ \A u \in Tasks : u # t => polls'[u] = polls[u]
  BY <1>1 DEF PollFront
<1>5. /\ \A i, j \in 1 .. Len(rest) : i < j =>
            /\ rest[i] # rest[j]
            /\ polls'[rest[i]] <= polls'[rest[j]]
            /\ polls'[rest[j]] <= polls'[rest[i]] + 1
      /\ \A i \in 1 .. Len(rest) :
            /\ polls'[rest[i]] <= polls'[t]
            /\ polls'[t] <= polls'[rest[i]] + 1
  <2>1. ASSUME NEW i \in 1 .. Len(rest)
        PROVE  /\ i + 1 \in 1 .. Len(q) /\ rest[i] = q[i + 1]
               /\ polls'[rest[i]] = polls[q[i + 1]]
    BY <1>1, <1>3, <1>4
  <2>2. ASSUME NEW i \in 1 .. Len(rest), NEW j \in 1 .. Len(rest), i < j
        PROVE  /\ rest[i] # rest[j]
               /\ polls'[rest[i]] <= polls'[rest[j]]
               /\ polls'[rest[j]] <= polls'[rest[i]] + 1
    <3>1. i + 1 < j + 1
      BY <1>1, <2>2
    <3> QED
      BY <2>1, <2>2, <3>1 DEF QueueOrdered
  <2>3. ASSUME NEW i \in 1 .. Len(rest)
        PROVE  polls'[rest[i]] <= polls'[t] /\ polls'[t] <= polls'[rest[i]] + 1
    <3>1. 1 < i + 1 /\ 1 \in 1 .. Len(q) /\ i + 1 \in 1 .. Len(q)
      BY <1>1
    <3>2. polls[q[1]] <= polls[q[i + 1]] /\ polls[q[i + 1]] <= polls[q[1]] + 1
      BY <3>1 DEF QueueOrdered
    <3>3. polls[q[1]] \in Nat /\ polls[q[i + 1]] \in Nat
      BY <1>1, <3>1, ElementOfSeq
    <3> QED
      BY <1>1, <1>4, <2>1, <3>2, <3>3
  <2> QED
    BY <2>2, <2>3
<1>6. /\ ToSet(rest) = {rest[i] : i \in 1 .. Len(rest)}
      /\ ToSet(rest) = ToSet(q) \ {t}
  <2>1. ToSet(rest) = {rest[i] : i \in 1 .. Len(rest)}
    BY <1>1, LenProperties DEF ToSet
  <2>2. ASSUME NEW x \in ToSet(q), x # t PROVE x \in ToSet(rest)
    <3>1. PICK i \in 1 .. Len(q) : x = q[i]
      BY <1>2, <2>2
    <3>2. i - 1 \in 1 .. Len(rest) /\ rest[i - 1] = x
      BY <1>1, <2>2, <3>1
    <3> QED
      BY <2>1, <3>2
  <2> QED
    BY <1>3, <2>1, <2>2
<1>7. \A u \in Tasks \ spawned : polls'[u] = 0
  BY <1>3, <1>4 DEF QueueOrdered
<1>8. CASE simple_queue' = rest /\ finished' = finished \union {t}
  <2>1. SimpleTypeOK'
    BY <1>1, <1>3, <1>4, <1>8 DEF PollFront
  <2>2. Unfinished' = ToSet(simple_queue')
    BY <1>6, <1>8 DEF PollFront, QueueOrdered, Unfinished
  <2>3. QueueOrdered'
    BY <1>5, <1>7, <1>8, <2>2 DEF PollFront, QueueOrdered
  <2> QED
    BY <2>1, <2>3
<1>9. CASE simple_queue' = Append(rest, t) /\ finished' = finished
  <2>1. /\ simple_queue' \in Seq(Tasks)
        /\ Len(simple_queue') = Len(rest) + 1 /\ Len(rest) \in Nat
        /\ \A i \in 1 .. Len(rest) : simple_queue'[i] = rest[i]
        /\ simple_queue'[Len(rest) + 1] = t
    BY <1>1, <1>9, AppendProperties
  <2>2. SimpleTypeOK'
    BY <1>4, <1>9, <2>1 DEF PollFront
  <2>3. ToSet(simple_queue') = ToSet(rest) \union {t}
    <3>1. ToSet(simple_queue') = {simple_queue'[i] : i \in 1 .. Len(simple_queue')}
      BY <2>1, LenProperties DEF ToSet
    <3>2. ASSUME NEW x PROVE x \in ToSet(simple_queue') <=> x \in ToSet(rest) \/ x = t
      <4>1. ASSUME x \in ToSet(simple_queue') PROVE x \in ToSet(rest) \/ x = t
        <5>1. PICK i \in 1 .. Len(simple_queue') : x = simple_queue'[i]
          BY <3>1, <4>1
        <5>2. i \in 1 .. Len(rest) \/ i = Len(rest) + 1
          BY <2>1
        <5> QED
          BY <1>6, <2>1, <5>1, <5>2
      <4>2. ASSUME x \in ToSet(rest) PROVE x \in ToSet(simple_queue')
        <5>1. PICK i \in 1 .. Len(rest) : x = rest[i]
          BY <1>6, <4>2
        <5>2. i \in 1 .. Len(simple_queue') /\ simple_queue'[i] = x
          BY <2>1, <5>1
        <5> QED
          BY <3>1, <5>2
      <4>3. Len(rest) + 1 \in 1 .. Len(simple_queue')
        BY <2>1
      <4> QED
        BY <2>1, <3>1, <4>1, <4>2, <4>3
    <3> QED
      BY <3>2
  <2>4. Unfinished' = ToSet(simple_queue')
    BY <1>3, <1>6, <1>9, <2>3 DEF PollFront, QueueOrdered, Unfinished
  <2>5. ASSUME NEW i \in 1 .. Len(simple_queue'), NEW j \in 1 .. Len(simple_queue'), i < j
        PROVE  /\ simple_queue'[i] # simple_queue'[j]
               /\ polls'[simple_queue'[i]] <= polls'[simple_queue'[j]]
               /\ polls'[simple_queue'[j]] <= polls'[simple_queue'[i]] + 1
    <3>1. i \in 1 .. Len(rest) /\ simple_queue'[i] = rest[i]
      BY <2>1, <2>5
    <3>2. CASE j \in 1 .. Len(rest)
      BY <1>5, <2>1, <2>5, <3>1, <3>2
    <3>3. CASE j = Len(rest) + 1
      BY <1>3, <1>5, <2>1, <3>1, <3>3
    <3> QED
      BY <2>1, <3>2, <3>3
  <2>6. QueueOrdered'
    BY <1>7, <2>4, <2>5 DEF PollFront, QueueOrdered
  <2> QED
    BY <2>2, <2>6
<1> QED
  BY <1>8, <1>9 DEF PollFront, Requeue

-----------------------------------------------------------------------------
(* Every step keeps the invariant.                                         *)
LEMMA SimpleInvStep == SimpleInv /\ [SimpleNext]_simpleVars => SimpleInv'
<1> SUFFICES ASSUME SimpleInv, [SimpleNext]_simpleVars PROVE SimpleInv'
  OBVIOUS
<1> USE DEF SimpleInv, SimpleTypeOK
<1>1. ASSUME NEW t \in Tasks, SimpleSpawn(t) PROVE SimpleInv'
  BY <1>1, SpawnKeepsOrder
<1>2. CASE SimpleRun
  BY <1>2 DEF SimpleRun, QueueOrdered, Unfinished, ToSet
<1>3. CASE PollFront
  BY <1>3, PollKeepsOrder
<1>4. CASE RunReturns
  <2>1. Len(simple_queue) = 0 /\ 1 .. Len(simple_queue) = {}
    BY <1>4, EmptySeq DEF RunReturns
  <2>2. SimpleTypeOK'
    BY <1>4 DEF RunReturns
  <2>3. Unfinished' = ToSet(simple_queue)'
    BY <1>4 DEF RunReturns, QueueOrdered, Unfinished, ToSet
  <2>4. QueueOrdered'
    BY <1>4, <2>1, <2>3 DEF RunReturns, QueueOrdered
  <2> QED
    BY <2>2, <2>4
<1>5. CASE UNCHANGED simpleVars
  BY <1>5 DEF simpleVars, QueueOrdered, Unfinished, ToSet
<1> QED
  BY <1>1, <1>2, <1>3, <1>4, <1>5 DEF SimpleNext

(***************************************************************************)
(* run of src/task/simple_executor.rs is fair to any set of tasks: none is *)
(* two polls ahead of another that is not done, and none is forgotten.     *)
(***************************************************************************)
THEOREM PollingIsFair == SimpleSpec => []RoundRobin
<1>1. SimpleInv => RoundRobin
  <2> SUFFICES ASSUME SimpleInv PROVE RoundRobin
    OBVIOUS
  <2> USE DEF SimpleInv, SimpleTypeOK
  <2>1. ToSet(simple_queue) = {simple_queue[i] : i \in 1 .. Len(simple_queue)}
    BY LenProperties DEF ToSet
  <2>2. ASSUME NEW t \in Unfinished, NEW u \in Unfinished
        PROVE  polls[t] <= polls[u] + 1
    <3>1. PICK i, j \in 1 .. Len(simple_queue) :
            t = simple_queue[i] /\ u = simple_queue[j]
      BY <2>1 DEF QueueOrdered
    <3>2. polls[t] \in Nat /\ polls[u] \in Nat
      BY DEF Unfinished
    <3>3. CASE i < j
      BY <3>1, <3>2, <3>3 DEF QueueOrdered
    <3>4. CASE j < i
      BY <3>1, <3>2, <3>4 DEF QueueOrdered
    <3>5. CASE i = j
      BY <3>1, <3>2, <3>5
    <3> QED
      BY <3>3, <3>4, <3>5, LenProperties
  <2> QED
    BY <2>2 DEF RoundRobin, QueueOrdered
<1> QED
  BY <1>1, SimpleInvInit, SimpleInvStep, PTL DEF SimpleSpec
=============================================================================
