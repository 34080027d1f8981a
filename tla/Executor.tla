------------------------------ MODULE Executor ------------------------------
(***************************************************************************)
(* The cooperative task executor of src/task/executor.rs, together with    *)
(* Task and TaskId of src/task/mod.rs.                                     *)
(*                                                                         *)
(* The executor runs on the only CPU in the main context.  Interrupt       *)
(* handlers preempt it between any two of its steps, run to completion     *)
(* with interrupts disabled, and may call Waker::wake, which pushes onto   *)
(* the same lock-free task_queue.                                          *)
(*                                                                         *)
(* This module leaves the futures open: a polled future may keep clones of *)
(* its Waker (in any number of event sources), drop them, return Pending   *)
(* at will or complete; a kept Waker may be woken at any time, also after  *)
(* its task has completed.  AsyncKeyboard fixes the futures to the ones    *)
(* the kernel really spawns.                                               *)
(***************************************************************************)
EXTENDS Naturals, Sequences

CONSTANTS
  TaskQueueCap,  \* capacity of the task_queue (100 in Executor::new)
  NumTasks       \* how many tasks are ever created with Task::new

ASSUME ExecutorAssumption ==
  /\ TaskQueueCap \in Nat \ {0}
  /\ NumTasks \in Nat \ {0}

VARIABLES
  next_id,      \* TaskId::new's static NEXT_ID
  tasks,        \* keys of Executor.tasks: the tasks that are not done
  task_queue,   \* Executor.task_queue, shared with every TaskWaker
  waker_cache,  \* keys of Executor.waker_cache
  wakers,       \* tasks whose Waker is kept by some event source
  cur,          \* the task being polled, meaningful while pc = "poll"
  pc,           \* where the main context is: "spawn", "run", "poll", "panic"
  panicked,     \* the message of the panic that stopped the kernel
  notified      \* history: spawned or woken since it was last polled

execVars == <<next_id, tasks, task_queue, waker_cache, wakers, cur, pc,
              panicked, notified>>

TaskId == 0 .. NumTasks - 1

NoPanicMsg     == "none"
DuplicateIdMsg == "task with same ID already in tasks"
SpawnFullMsg   == "queue full"
WakeFullMsg    == "task_queue full"

\* The ids waiting in a queue.
Ids(q) == {q[i] : i \in DOMAIN q}

-----------------------------------------------------------------------------
(* Executor::new, before any Task::new.                                    *)
ExecutorInit ==
  /\ next_id = 0
  /\ tasks = {}
  /\ task_queue = <<>>
  /\ waker_cache = {}
  /\ wakers = {}
  /\ cur = 0
  /\ pc = "spawn"
  /\ panicked = NoPanicMsg
  /\ notified = {}

(* TaskId::new: fetch_add returns the old value of the counter.            *)
NewTaskId == next_id' = next_id + 1

(* How spawn(task) ends: with one of its two panics, or with none.         *)
SpawnOutcome ==
  IF next_id \in tasks THEN DuplicateIdMsg
  ELSE IF Len(task_queue) >= TaskQueueCap THEN SpawnFullMsg
  ELSE NoPanicMsg

(***************************************************************************)
(* spawn(Task::new(future)).  The task enters the map before the push, so  *)
(* a full queue panics with the task already inserted.                     *)
(***************************************************************************)
Spawn ==
  /\ pc = "spawn"
  /\ next_id < NumTasks
  /\ NewTaskId
  /\ tasks' = tasks \union {next_id}
  /\ panicked' = SpawnOutcome
  /\ IF SpawnOutcome = NoPanicMsg
       THEN /\ task_queue' = Append(task_queue, next_id)
            /\ notified' = notified \union {next_id}
            /\ UNCHANGED pc
       ELSE /\ pc' = "panic"
            /\ UNCHANGED <<task_queue, notified>>
  /\ UNCHANGED <<waker_cache, wakers, cur>>

(* executor.run(): takes &mut self for ever, so nothing is spawned later.  *)
Run ==
  /\ pc = "spawn"
  /\ pc' = "run"
  /\ UNCHANGED <<next_id, tasks, task_queue, waker_cache, wakers, cur,
                 panicked, notified>>

(* Mutant of PopTask: the youngest id is taken, not the oldest.            *)
PopTaskYoungest ==
  /\ pc = "run"
  /\ task_queue # <<>>
  /\ LET t == task_queue[Len(task_queue)]
     IN /\ task_queue' = SubSeq(task_queue, 1, Len(task_queue) - 1)
        /\ notified' = notified \ {t}
        /\ IF t \in tasks
             THEN waker_cache' = waker_cache \union {t} /\ cur' = t /\ pc' = "poll"
             ELSE UNCHANGED <<waker_cache, cur, pc>>
  /\ UNCHANGED <<next_id, tasks, wakers, panicked>>

(***************************************************************************)
(* One turn of the loop of run_ready_tasks up to the poll: pop an id, skip *)
(* it when the task is already done, otherwise make sure its Waker is      *)
(* cached and poll it.                                                     *)
(***************************************************************************)
PopTask ==
  /\ pc = "run"
  /\ task_queue # <<>>
  /\ task_queue' = Tail(task_queue)
  /\ notified' = notified \ {Head(task_queue)}
  /\ \/ /\ Head(task_queue) \in tasks
        /\ waker_cache' = waker_cache \union {Head(task_queue)}
        /\ cur' = Head(task_queue)
        /\ pc' = "poll"
     \/ /\ Head(task_queue) \notin tasks
        /\ UNCHANGED <<waker_cache, cur, pc>>
  /\ UNCHANGED <<next_id, tasks, wakers, panicked>>

(* The queue is empty: run_ready_tasks returns and run calls it again.     *)
PopNone ==
  /\ pc = "run"
  /\ task_queue = <<>>
  /\ UNCHANGED execVars

(* Mutant of PollReady: the cached waker is forgotten.                     *)
PollReadyKeepsWaker ==
  /\ pc = "poll"
  /\ pc' = "run"
  /\ tasks' = tasks \ {cur}
  /\ UNCHANGED <<next_id, task_queue, waker_cache, wakers, cur, panicked, notified>>

(* Poll::Ready: the task and its cached waker are removed.                 *)
PollReady ==
  /\ pc = "poll"
  /\ pc' = "run"
  /\ tasks' = tasks \ {cur}
  /\ waker_cache' = waker_cache \ {cur}
  /\ UNCHANGED <<next_id, task_queue, wakers, cur, panicked, notified>>

(* Mutant of PollPending: the waker is cached during the poll only.        *)
PollPendingDropsWaker ==
  /\ pc = "poll"
  /\ pc' = "run"
  /\ waker_cache' = waker_cache \ {cur}
  /\ UNCHANGED <<next_id, tasks, task_queue, wakers, cur, panicked, notified>>

(* Poll::Pending: nothing to do, back to the loop.                         *)
PollPending ==
  /\ pc = "poll"
  /\ pc' = "run"
  /\ UNCHANGED <<next_id, tasks, task_queue, waker_cache, wakers, cur,
                 panicked, notified>>

(* Mutant of WakeTask: a queue that grows instead of a bounded one.        *)
WakeTaskUnbounded(t) ==
  /\ task_queue' = Append(task_queue, t)
  /\ notified' = notified \union {t}
  /\ UNCHANGED <<pc, panicked>>

(* Mutant of WakeTask: the error of a push onto a full queue is ignored.   *)
WakeTaskLossy(t) ==
  /\ task_queue' = IF Len(task_queue) < TaskQueueCap THEN Append(task_queue, t)
                                                     ELSE task_queue
  /\ notified' = notified \union {t}
  /\ UNCHANGED <<pc, panicked>>

(***************************************************************************)
(* TaskWaker::wake_task, from whatever context it is called in: the push   *)
(* must succeed, otherwise expect() panics where the wake was called.      *)
(***************************************************************************)
WakeTask(t) ==
  \/ /\ Len(task_queue) < TaskQueueCap
     /\ task_queue' = Append(task_queue, t)
     /\ notified' = notified \union {t}
     /\ UNCHANGED <<pc, panicked>>
  \/ /\ Len(task_queue) >= TaskQueueCap
     /\ pc' = "panic"
     /\ panicked' = WakeFullMsg
     /\ UNCHANGED <<task_queue, notified>>

(* A panic in the main context; panic = "abort", so nothing is unwound.    *)
Panic(msg) ==
  /\ pc' = "panic"
  /\ panicked' = msg
  /\ UNCHANGED <<next_id, tasks, task_queue, waker_cache, wakers, cur, notified>>

(* The panic handler ends in hlt_loop.                                     *)
HltLoop ==
  /\ pc = "panic"
  /\ UNCHANGED execVars

-----------------------------------------------------------------------------
(* The futures and event sources of this module's open environment.        *)

(* The polled future hands a clone of its Waker to an event source.        *)
CloneWaker ==
  /\ pc = "poll"
  /\ wakers' = wakers \union {cur}
  /\ UNCHANGED <<next_id, tasks, task_queue, waker_cache, cur, pc, panicked,
                 notified>>

(* An event source drops the Waker it keeps without waking it.             *)
DropWaker(t) ==
  /\ pc # "panic"
  /\ t \in wakers
  /\ wakers' = wakers \ {t}
  /\ UNCHANGED <<next_id, tasks, task_queue, waker_cache, cur, pc, panicked,
                 notified>>

(* Wake::wake consumes the Waker, Wake::wake_by_ref keeps it.              *)
Wake(t) ==
  /\ pc # "panic"
  /\ t \in wakers
  /\ WakeTask(t)
  /\ wakers' \in {wakers, wakers \ {t}}
  /\ UNCHANGED <<next_id, tasks, waker_cache, cur>>

ExecutorStep == Run \/ PopTask \/ PollReady \/ PollPending

ExecutorNext ==
  \/ Spawn \/ Run \/ PopTask \/ PopNone \/ PollReady \/ PollPending
  \/ HltLoop
  \/ CloneWaker
  \/ \E t \in TaskId : DropWaker(t) \/ Wake(t)

(***************************************************************************)
(* Fairness: the CPU keeps executing the main context (handlers return),   *)
(* and futures are cooperative, so a poll returns.  Spawning and wake-ups  *)
(* are not fair: nothing obliges an event to happen.                       *)
(***************************************************************************)
ExecutorSpec == ExecutorInit /\ [][ExecutorNext]_execVars

FairExecutorSpec == ExecutorSpec /\ WF_execVars(ExecutorStep)

-----------------------------------------------------------------------------
(* Types of the executor's state.  Futures add panics of their own.        *)
ExecutorStateOK ==
  /\ next_id \in 0 .. NumTasks
  /\ tasks \subseteq TaskId
  /\ task_queue \in Seq(TaskId)
  /\ Len(task_queue) <= TaskQueueCap
  /\ waker_cache \subseteq TaskId
  /\ wakers \subseteq TaskId
  /\ cur \in TaskId
  /\ pc \in {"spawn", "run", "poll", "panic"}
  /\ notified \subseteq TaskId

ExecutorTypeOK ==
  /\ ExecutorStateOK
  /\ panicked \in {NoPanicMsg, DuplicateIdMsg, SpawnFullMsg, WakeFullMsg}

(***************************************************************************)
(* No wake-up is lost: a live task that was spawned or woken since its     *)
(* last poll is in the task_queue, whatever interrupts did in between.     *)
(* (A poll takes the id off the queue before it runs the future, so a wake *)
(* that arrives during the poll queues the task once more.)                *)
(***************************************************************************)
WokenIsQueued ==
  pc # "panic" => notified \intersect tasks \subseteq Ids(task_queue)

(***************************************************************************)
(* The maps stay in step with the life of the tasks: ids are handed out    *)
(* once, so spawn's duplicate check never fires; only a live task is       *)
(* polled; and no Waker stays cached for a task that is done, even if its  *)
(* stale Wakers are still being woken.                                     *)
(***************************************************************************)
LiveTaskBookkeeping ==
  /\ panicked # DuplicateIdMsg
  /\ pc = "poll" => cur \in tasks /\ cur \in waker_cache
  /\ waker_cache \subseteq tasks
  /\ \A t \in tasks \union wakers \union Ids(task_queue) : t < next_id

(***************************************************************************)
(* A task that is done stays done: no step, and in particular no wake of a *)
(* stale Waker, brings an id back that was handed out and is not live.     *)
(***************************************************************************)
DoneStaysDone ==
  [][\A t \in TaskId : t < next_id /\ t \notin tasks => t \notin tasks']_execVars

(***************************************************************************)
(* Every wake-up of a live task is answered: the task is polled again      *)
(* unless a full task_queue stops the kernel.                              *)
(***************************************************************************)
WokenIsPolled ==
  \A t \in TaskId :
    (pc # "spawn" /\ t \in notified) ~> (t \notin notified \/ pc = "panic")
=============================================================================
