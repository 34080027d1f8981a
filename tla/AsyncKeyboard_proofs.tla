------------------------ MODULE AsyncKeyboard_proofs ------------------------
(***************************************************************************)
(* Proofs about module AsyncKeyboard, for every number of tasks and key    *)
(* presses and every capacity of the two queues.                           *)
(***************************************************************************)
EXTENDS AsyncKeyboard, Executor_proofs, SequenceTheorems

(* The inductive invariant, up to the counting argument of WakeBudget.     *)
KeyboardInv ==
  /\ ExecutorTypeOK
  /\ LiveTaskBookkeeping
  /\ KeyboardTypeOK
  /\ WakerProtocol

-----------------------------------------------------------------------------
(***************************************************************************)
(* Every step of the kernel is a step of the executor with open futures,   *)
(* or leaves the executor alone.  The panics of the stream are unreachable *)
(* and the waker that is woken is the one in the cell.                     *)
(***************************************************************************)
LEMMA StepIsExecutorStep ==
  KeyboardInv /\ [Next]_allVars => [ExecutorNext]_execVars
<1> SUFFICES ASSUME KeyboardInv, [Next]_allVars
             PROVE  [ExecutorNext]_execVars
  OBVIOUS
<1> USE KeyboardAssumption DEF KeyboardInv, WakerProtocol, KbPolled
<1>1. CASE KernelSpawn
  BY <1>1 DEF KernelSpawn, ExecutorNext
<1>2. CASE KernelRun
  BY <1>2 DEF KernelRun, ExecutorNext
<1>3. CASE ExecutorPop
  BY <1>3 DEF ExecutorPop, ExecutorNext
<1>4. CASE ExamplePoll
  BY <1>4 DEF ExamplePoll, ExecutorNext
<1>5. CASE StreamNew
  BY <1>5 DEF StreamNew
<1>6. CASE FastPop
  BY <1>6 DEF FastPop
<1>7. CASE RegisterBegin
  BY <1>7 DEF RegisterBegin, ExecutorNext
<1>8. CASE RegisterEnd
  <2>1. CASE waker_state = REGISTERING
    BY <1>8, <2>1 DEF RegisterEnd, REGISTERING, BOTH
  <2>2. CASE waker_state = BOTH
    <3>1. Wake(KbTask)
      BY <1>8, <2>2 DEF RegisterEnd, Wake, REGISTERING, BOTH
    <3> QED
      BY <3>1 DEF ExecutorNext
  <2> QED
    BY <1>8, <2>1, <2>2 DEF RegisterEnd
<1>9. CASE SecondPop
  BY <1>9 DEF SecondPop, ExecutorNext
<1>10. CASE TakeBegin
  <2>1. CASE wakers = {}
    BY <1>10, <2>1 DEF TakeBegin, execVars
  <2>2. CASE wakers # {}
    <3>1. DropWaker(KbTask)
      BY <1>10, <2>2 DEF TakeBegin, DropWaker
    <3> QED
      BY <3>1 DEF ExecutorNext
  <2> QED
    BY <2>1, <2>2
<1>11. CASE TakeEnd
  BY <1>11 DEF TakeEnd
<1>12. CASE Process
  BY <1>12 DEF Process
<1>13. CASE KeyboardInterrupt
  <2>1. CASE WakerWake
    <3>1. CASE waker_state = WAITING /\ wakers # {}
      <4>1. Wake(KbTask)
        BY <1>13, <2>1, <3>1
           DEF KeyboardInterrupt, AddScancode, WakerWake, Wake, WAITING, REGISTERING, BOTH,
               WAKING
      <4> QED
        BY <4>1 DEF ExecutorNext
    <3>2. CASE ~(waker_state = WAITING /\ wakers # {})
      BY <2>1, <3>2 DEF WakerWake
    <3> QED
      BY <3>1, <3>2
  <2> QED
    BY <1>13, <2>1 DEF KeyboardInterrupt, AddScancode
<1>14. CASE KernelHalted
  BY <1>14 DEF KernelHalted, ExecutorNext
<1>15. CASE UNCHANGED allVars
  BY <1>15 DEF allVars
<1> QED
  BY <1>1, <1>2, <1>3, <1>4, <1>5, <1>6, <1>7, <1>8, <1>9, <1>10, <1>11,
     <1>12, <1>13, <1>14, <1>15 DEF Next, MainStep

-----------------------------------------------------------------------------
(* Every step keeps the types of the keyboard's state.                     *)
LEMMA KeyboardTypeStep ==
  KeyboardInv /\ [Next]_allVars => KeyboardTypeOK'
<1> SUFFICES ASSUME KeyboardInv, [Next]_allVars
             PROVE  KeyboardTypeOK'
  OBVIOUS
<1> USE KeyboardAssumption DEF KeyboardInv, KeyboardTypeOK
<1>1. CASE UNCHANGED kbVars
  BY <1>1 DEF kbVars
<1>2. CASE StreamNew
  BY <1>2 DEF StreamNew
<1>3. CASE FastPop \/ SecondPop
  <2>1. \/ hand' = hand /\ scancode_queue' = scancode_queue
        \/ /\ hand' = Head(scancode_queue)
           /\ scancode_queue' = Tail(scancode_queue)
           /\ scancode_queue # <<>>
    BY <1>3 DEF FastPop, SecondPop
  <2>2. scancode_queue # <<>> =>
          /\ Head(scancode_queue) \in 1 .. MaxKeys
          /\ Tail(scancode_queue) \in Seq(1 .. MaxKeys)
    BY IdsTail
  <2>3. hand' \in 0 .. MaxKeys /\ scancode_queue' \in Seq(1 .. MaxKeys)
    <3>1. CASE hand' = hand /\ scancode_queue' = scancode_queue
      BY <3>1
    <3>2. CASE /\ hand' = Head(scancode_queue)
               /\ scancode_queue' = Tail(scancode_queue)
               /\ scancode_queue # <<>>
      <4>1. hand' \in 1 .. MaxKeys /\ scancode_queue' \in Seq(1 .. MaxKeys)
        BY <2>2, <3>2
      <4> QED
        BY <4>1
    <3> QED
      BY <2>1, <3>1, <3>2
  <2>4. /\ UNCHANGED <<initialized, waker_state, pressed, dropped, delivered>>
        /\ kb_pc' \in {kb_pc, "process", "register", "take", "fast"}
    BY <1>3 DEF FastPop, SecondPop
  <2> QED
    BY <2>3, <2>4
<1>4. CASE RegisterBegin
  BY <1>4 DEF RegisterBegin
<1>5. CASE RegisterEnd
  BY <1>5 DEF RegisterEnd
<1>6. CASE TakeBegin \/ TakeEnd
  BY <1>6 DEF TakeBegin, TakeEnd
<1>7. CASE Process
  <2>1. hand \in 1 .. MaxKeys
    BY <1>7 DEF Process, KbPolled, WakerProtocol
  <2>2. delivered' \in Seq(1 .. MaxKeys)
    BY <1>7, <2>1, IdsAppend DEF Process
  <2> QED
    BY <1>7, <2>2 DEF Process
<1>8. CASE KeyboardInterrupt
  <2>1. pressed + 1 \in 1 .. MaxKeys
    BY <1>8 DEF KeyboardInterrupt, AddScancode
  <2>2. scancode_queue' \in Seq(1 .. MaxKeys)
    <3>1. \/ scancode_queue' = scancode_queue
          \/ scancode_queue' = Append(scancode_queue, pressed + 1)
      BY <1>8 DEF KeyboardInterrupt, AddScancode
    <3>2. Append(scancode_queue, pressed + 1) \in Seq(1 .. MaxKeys)
      BY <2>1, IdsAppend
    <3> QED
      BY <3>1, <3>2
  <2>3. waker_state' \in {waker_state, BOTH}
    BY <1>8 DEF KeyboardInterrupt, AddScancode, WakerWake
  <2>4. /\ UNCHANGED <<initialized, kb_pc, hand, delivered>>
        /\ pressed' = pressed + 1
        /\ dropped' \in {dropped, dropped \union {pressed + 1}}
    BY <1>8 DEF KeyboardInterrupt, AddScancode
  <2> QED
    BY <2>1, <2>2, <2>3, <2>4
<1> QED
  BY <1>1, <1>2, <1>3, <1>4, <1>5, <1>6, <1>7, <1>8
     DEF Next, MainStep, KernelSpawn, KernelRun, ExecutorPop, ExamplePoll,
         KernelHalted, allVars

-----------------------------------------------------------------------------
(***************************************************************************)
(* The steps of the waker protocol.  The interesting ones are the end of a *)
(* registration (the waker is in place or has queued the task), a pop of   *)
(* the executor (which polls the task if it takes its id) and the          *)
(* interrupt (which consumes the waker only to queue the task).            *)
(***************************************************************************)
LEMMA WakerProtocolStep ==
  KeyboardInv /\ [Next]_allVars => WakerProtocol'
<1> SUFFICES ASSUME KeyboardInv, [Next]_allVars
             PROVE  WakerProtocol'
  OBVIOUS
<1> USE KeyboardAssumption
    DEF KeyboardInv, WakerProtocol, Parked, WAITING, REGISTERING, WAKING, BOTH
<1>0. ExecutorStateOK /\ (pc = "poll" => cur \in tasks)
  BY DEF ExecutorTypeOK, LiveTaskBookkeeping
<1>1. CASE KernelSpawn
  <2>1. task_queue' \in {task_queue, Append(task_queue, next_id)}
    BY <1>1 DEF KernelSpawn, Spawn
  <2>2. next_id \in TaskId
    BY <1>0, <1>1, ExecutorAssumption DEF ExecutorStateOK, KernelSpawn, Spawn, TaskId
  <2>3. Ids(task_queue) \subseteq Ids(task_queue')
    <3>1. Ids(Append(task_queue, next_id)) = Ids(task_queue) \union {next_id}
      BY <1>0, <2>2, IdsAppend DEF ExecutorStateOK
    <3> QED
      BY <2>1, <3>1
  <2> QED
    BY <1>1, <2>3 DEF KernelSpawn, Spawn, kbVars
<1>2. CASE KernelRun
  BY <1>2 DEF KernelRun, Run, kbVars
<1>3. CASE ExecutorPop
  <2>1. CASE PopTask
    <3>1. Ids(task_queue) \subseteq Ids(task_queue') \union {Head(task_queue)}
      BY <1>0, <2>1, IdsTail DEF PopTask, ExecutorStateOK
    <3> QED
      BY <1>3, <2>1, <3>1 DEF ExecutorPop, PopTask, kbVars
  <2>2. CASE PopNone
    BY <1>3, <2>2 DEF ExecutorPop, PopNone, kbVars, execVars
  <2> QED
    BY <1>3, <2>1, <2>2 DEF ExecutorPop
<1>4. CASE ExamplePoll
  BY <1>4 DEF ExamplePoll, PollReady, kbVars
<1>5. CASE StreamNew
  BY <1>0, <1>5 DEF StreamNew, KbPolled, execVars
<1>6. CASE FastPop
  <2>1. scancode_queue # <<>> => Head(scancode_queue) # 0
    BY IdsTail DEF KeyboardTypeOK
  <2> QED
    BY <1>6, <2>1 DEF FastPop, KbPolled, execVars
<1>7. CASE RegisterBegin
  BY <1>7 DEF RegisterBegin, KbPolled, CloneWaker
<1>8. CASE RegisterEnd
  <2>1. CASE waker_state = REGISTERING
    BY <1>8, <2>1 DEF RegisterEnd, KbPolled, execVars
  <2>2. CASE waker_state = BOTH
    <3>1. WakeTask(KbTask)
      BY <1>8, <2>2 DEF RegisterEnd
    <3>2. /\ pc' \in {pc, "panic"}
          /\ pc' # "panic" => KbTask \in Ids(task_queue')
      BY <1>0, <3>1, WakeTaskEffect
    <3> QED
      BY <1>8, <2>2, <3>2 DEF RegisterEnd, KbPolled
  <2> QED
    BY <1>8, <2>1, <2>2 DEF RegisterEnd
<1>9. CASE SecondPop
  <2>1. scancode_queue # <<>> => Head(scancode_queue) # 0
    BY IdsTail DEF KeyboardTypeOK
  <2> QED
    BY <1>9, <2>1 DEF SecondPop, KbPolled, PollPending, execVars
<1>10. CASE TakeBegin
  BY <1>10 DEF TakeBegin, KbPolled
<1>11. CASE TakeEnd
  BY <1>11 DEF TakeEnd, KbPolled, execVars
<1>12. CASE Process
  BY <1>12 DEF Process, KbPolled, execVars
<1>13. CASE KeyboardInterrupt
  <2>0. pc # "panic" /\ UNCHANGED <<initialized, kb_pc, hand>>
    BY <1>13 DEF KeyboardInterrupt, AddScancode
  <2>1. CASE UNCHANGED <<execVars, scancode_queue, waker_state>>
    BY <2>0, <2>1 DEF execVars
  <2>2. CASE initialized /\ WakerWake
    <3>1. CASE waker_state = WAITING /\ wakers # {}
      <4>1. /\ WakeTask(KbTask)
            /\ wakers' = {}
            /\ UNCHANGED <<waker_state, tasks, cur>>
        BY <2>2, <3>1 DEF WakerWake
      <4>2. /\ pc' \in {pc, "panic"}
            /\ pc' # "panic" => KbTask \in Ids(task_queue')
        BY <1>0, <4>1, WakeTaskEffect
      <4> QED
        BY <2>0, <2>2, <3>1, <4>1, <4>2
    <3>2. CASE waker_state = WAITING /\ wakers = {}
      <4>1. UNCHANGED <<execVars, waker_state>>
        BY <2>2, <3>2 DEF WakerWake
      <4> QED
        BY <2>0, <2>2, <3>2, <4>1 DEF execVars
    <3>3. CASE waker_state # WAITING
      <4>1. /\ UNCHANGED execVars
            /\ waker_state' \in {waker_state, BOTH}
            /\ waker_state = WAKING => waker_state' = WAKING
        BY <2>2, <3>3 DEF WakerWake
      <4> QED
        BY <2>0, <2>2, <3>3, <4>1 DEF execVars, KeyboardTypeOK
    <3> QED
      BY <3>1, <3>2, <3>3
  <2> QED
    BY <1>13, <2>1, <2>2 DEF KeyboardInterrupt, AddScancode
<1>14. CASE KernelHalted
  BY <1>14 DEF KernelHalted, HltLoop, kbVars, execVars
<1>15. CASE UNCHANGED allVars
  BY <1>15 DEF allVars, kbVars, execVars
<1> QED
  BY <1>1, <1>2, <1>3, <1>4, <1>5, <1>6, <1>7, <1>8, <1>9, <1>10, <1>11,
     <1>12, <1>13, <1>14, <1>15 DEF Next, MainStep

(* The inductive invariant holds.                                          *)
LEMMA KeyboardInvariant == Spec => []KeyboardInv
<1>1. Init => KeyboardInv
  <2> SUFFICES ASSUME Init PROVE KeyboardInv
    OBVIOUS
  <2>1. ExecutorTypeOK
    BY ExecutorTypeInit DEF Init
  <2>2. LiveTaskBookkeeping
    BY DEF Init, ExecutorInit, LiveTaskBookkeeping, Ids, DuplicateIdMsg, NoPanicMsg
  <2>3. KeyboardTypeOK
    <3>1. 0 \in 0 .. MaxKeys
      BY KeyboardAssumption
    <3>2. <<>> \in Seq(1 .. MaxKeys)
      OBVIOUS
    <3> QED
      BY <3>1, <3>2 DEF Init, KeyboardInit, KeyboardTypeOK, WAITING
  <2>4. WakerProtocol
    BY DEF Init, ExecutorInit, KeyboardInit, WakerProtocol, Parked, WAITING,
           REGISTERING, WAKING, BOTH
  <2> QED
    BY <2>1, <2>2, <2>3, <2>4 DEF KeyboardInv
<1>2. KeyboardInv /\ [Next]_allVars => KeyboardInv'
  BY StepIsExecutorStep, ExecutorTypeStep, LiveTaskBookkeepingStep,
     KeyboardTypeStep, WakerProtocolStep DEF KeyboardInv
<1> QED
  BY <1>1, <1>2, PTL DEF Spec

(* Executor and keyboard keep their types.                                 *)
THEOREM TypeCorrect == Spec => []TypeOK
<1>1. KeyboardInv => TypeOK
  BY DEF KeyboardInv, TypeOK, ExecutorTypeOK
<1> QED
  BY <1>1, KeyboardInvariant, PTL

(***************************************************************************)
(* The kernel's executor with the real keyboard task and the real          *)
(* interrupt is an instance of the executor with open futures, so all that *)
(* is proved of the latter holds here.                                     *)
(***************************************************************************)
THEOREM ImplementsExecutor == Spec => ExecutorSpec
<1>1. Init => ExecutorInit
  BY DEF Init
<1> QED
  BY <1>1, StepIsExecutorStep, KeyboardInvariant, PTL DEF Spec, ExecutorSpec

(* The waker protocol of poll_next and AtomicWaker is kept.                *)
THEOREM ProtocolKept == Spec => []WakerProtocol
<1>1. KeyboardInv => WakerProtocol
  BY DEF KeyboardInv
<1> QED
  BY <1>1, KeyboardInvariant, PTL

(***************************************************************************)
(* No scancode waits unseen: if the task is parked and the queue is not    *)
(* empty, the task is queued to run.                                       *)
(***************************************************************************)
THEOREM NoUnseenScancode == Spec => []ParkedHasNoUnseenScancode
<1>1. KeyboardInv => ParkedHasNoUnseenScancode
  BY DEF KeyboardInv, WakerProtocol, ParkedHasNoUnseenScancode
<1> QED
  BY <1>1, KeyboardInvariant, PTL

(***************************************************************************)
(* The interrupt handler never drops the last clone of a Waker: the task   *)
(* registers while its Waker is cached, and the cache keeps it because     *)
(* print_keypresses never completes.                                       *)
(***************************************************************************)
THEOREM HandlerNeverFrees == Spec => []HandlerNeverFreesWaker
<1>1. Init => HandlerNeverFreesWaker
  BY DEF Init, ExecutorInit, HandlerNeverFreesWaker
<1>2. KeyboardInv /\ HandlerNeverFreesWaker /\ [Next]_allVars
        => HandlerNeverFreesWaker'
  <2> SUFFICES ASSUME KeyboardInv, HandlerNeverFreesWaker, [Next]_allVars
               PROVE  HandlerNeverFreesWaker'
    OBVIOUS
  <2> USE DEF HandlerNeverFreesWaker
  <2>1. CASE KernelSpawn \/ KernelRun \/ ExecutorPop \/ KernelHalted
             \/ UNCHANGED allVars
    BY <2>1 DEF KernelSpawn, Spawn, KernelRun, Run, ExecutorPop, PopTask,
                PopNone, KernelHalted, HltLoop, allVars, execVars
  <2>2. CASE ExamplePoll
    BY <2>2 DEF ExamplePoll, PollReady, KeyboardInv, WakerProtocol
  <2>3. CASE RegisterBegin
    BY <2>3 DEF RegisterBegin, CloneWaker, KbPolled, KeyboardInv,
                LiveTaskBookkeeping
  <2>4. CASE StreamNew \/ FastPop \/ SecondPop \/ TakeBegin \/ TakeEnd \/ Process
    BY <2>4 DEF StreamNew, FastPop, Panic, SecondPop, PollPending, TakeBegin,
                TakeEnd, Process, execVars
  <2>5. CASE RegisterEnd
    BY <2>5 DEF RegisterEnd, execVars
  <2>6. CASE KeyboardInterrupt
    BY <2>6 DEF KeyboardInterrupt, AddScancode, WakerWake, execVars
  <2> QED
    BY <2>1, <2>2, <2>3, <2>4, <2>5, <2>6 DEF Next, MainStep
<1> QED
  BY <1>1, <1>2, KeyboardInvariant, PTL DEF Spec

-----------------------------------------------------------------------------
(* The counting argument.                                                  *)

(* The scancodes that were popped or wait are some of those that came.     *)
PoppedBound == Popped + Len(scancode_queue) <= pressed

BudgetInv ==
  /\ KeyboardInv
  /\ WakeBudget
  /\ PoppedBound

(* What popping one scancode does to the counts.                           *)
LEMMA PopCounts ==
  ASSUME KeyboardInv, hand = 0, scancode_queue # <<>>,
         hand' = Head(scancode_queue), scancode_queue' = Tail(scancode_queue),
         delivered' = delivered
  PROVE  /\ Popped' = Popped + 1
         /\ Len(scancode_queue') = Len(scancode_queue) - 1
<1>1. Head(scancode_queue) # 0 /\ Len(Tail(scancode_queue)) = Len(scancode_queue) - 1
  BY IdsTail, KeyboardAssumption DEF KeyboardInv, KeyboardTypeOK
<1>2. Len(delivered) \in Nat
  BY DEF KeyboardInv, KeyboardTypeOK
<1> QED
  BY <1>1, <1>2 DEF Popped

(* All counts are natural numbers.                                         *)
LEMMA CountTypes ==
  ASSUME KeyboardInv
  PROVE  /\ Len(task_queue) \in Nat /\ Len(scancode_queue) \in Nat
         /\ Len(delivered) \in Nat /\ Popped \in Nat
         /\ next_id \in 0 .. NumTasks /\ NumTasks \in Nat
         /\ pressed \in 0 .. MaxKeys /\ MaxKeys \in Nat
         /\ TaskQueueCap \in Nat
BY ExecutorAssumption, KeyboardAssumption
   DEF KeyboardInv, ExecutorTypeOK, ExecutorStateOK, KeyboardTypeOK, Popped

(* Every step keeps popped and waiting scancodes below the key presses.    *)
LEMMA PoppedBoundStep ==
  BudgetInv /\ [Next]_allVars => PoppedBound' /\ Popped' >= Popped
<1> SUFFICES ASSUME BudgetInv, [Next]_allVars
             PROVE  PoppedBound' /\ Popped' >= Popped
  OBVIOUS
<1> USE DEF BudgetInv, PoppedBound
<1>0. /\ Popped \in Nat /\ Len(scancode_queue) \in Nat
      /\ Len(delivered) \in Nat /\ pressed \in Nat
  BY CountTypes
<1>1. CASE UNCHANGED <<hand, delivered, scancode_queue, pressed>>
  BY <1>0, <1>1 DEF Popped
<1>2. CASE FastPop \/ SecondPop
  <2>1. hand = 0 /\ UNCHANGED <<pressed, delivered>>
    BY <1>2 DEF FastPop, SecondPop, KbPolled, KeyboardInv, WakerProtocol
  <2>2. CASE /\ scancode_queue # <<>>
             /\ hand' = Head(scancode_queue)
             /\ scancode_queue' = Tail(scancode_queue)
    <3>1. /\ Popped' = Popped + 1
          /\ Len(scancode_queue') = Len(scancode_queue) - 1
      BY <2>1, <2>2, PopCounts
    <3> QED
      BY <1>0, <2>1, <3>1
  <2>3. CASE UNCHANGED <<hand, scancode_queue>>
    BY <1>0, <2>1, <2>3 DEF Popped
  <2> QED
    BY <1>2, <2>2, <2>3 DEF FastPop, SecondPop
<1>3. CASE Process
  <2>1. /\ hand # 0 /\ hand' = 0
        /\ delivered' = Append(delivered, hand)
        /\ UNCHANGED <<scancode_queue, pressed>>
    BY <1>3 DEF Process, KbPolled, KeyboardInv, WakerProtocol
  <2>2. Len(delivered') = Len(delivered) + 1
    <3>1. hand \in 1 .. MaxKeys /\ delivered \in Seq(1 .. MaxKeys)
      BY <2>1, KeyboardAssumption DEF KeyboardInv, KeyboardTypeOK
    <3> QED
      BY <2>1, <3>1, IdsAppend
  <2>3. Popped' = Popped
    BY <1>0, <2>1, <2>2 DEF Popped
  <2> QED
    BY <1>0, <2>1, <2>3
<1>4. CASE KeyboardInterrupt
  <2>1. pressed' = pressed + 1 /\ UNCHANGED <<hand, delivered>>
    BY <1>4 DEF KeyboardInterrupt, AddScancode
  <2>2. Len(scancode_queue') <= Len(scancode_queue) + 1
    <3>1. \/ scancode_queue' = scancode_queue
          \/ scancode_queue' = Append(scancode_queue, pressed + 1)
      BY <1>4 DEF KeyboardInterrupt, AddScancode
    <3>2. /\ pressed + 1 \in 1 .. MaxKeys
          /\ scancode_queue \in Seq(1 .. MaxKeys)
      BY <1>4, KeyboardAssumption DEF KeyboardInterrupt, AddScancode, KeyboardInv, KeyboardTypeOK
    <3>3. Len(Append(scancode_queue, pressed + 1)) = Len(scancode_queue) + 1
      BY <3>2, IdsAppend
    <3> QED
      BY <1>0, <3>1, <3>3
  <2>3. Len(scancode_queue') \in Nat
    BY KeyboardTypeStep DEF KeyboardTypeOK
  <2>4. Popped' = Popped
    BY <2>1 DEF Popped
  <2> QED
    BY <1>0, <2>1, <2>2, <2>3, <2>4
<1> QED
  BY <1>1, <1>2, <1>3, <1>4
     DEF Next, MainStep, KernelSpawn, KernelRun, ExecutorPop, ExamplePoll,
         StreamNew, RegisterBegin, RegisterEnd, TakeBegin, TakeEnd,
         KernelHalted, kbVars, allVars

(***************************************************************************)
(* Every step respects the budget.  Besides the spawn of a task, only the  *)
(* second pop buys something, the right to register again, and it pays     *)
(* with the scancode it takes.                                             *)
(***************************************************************************)
LEMMA WakeBudgetStep ==
  BudgetInv /\ [Next]_allVars => WakeBudget'
<1> SUFFICES ASSUME BudgetInv, [Next]_allVars
             PROVE  WakeBudget'
  OBVIOUS
<1> DEFINE InCell == IF wakers = {} THEN 0 ELSE 1
           Right  == IF MayRegister THEN 1 ELSE 0
<1>0. /\ Len(task_queue) \in Nat /\ next_id \in Nat
      /\ Popped \in Nat /\ Popped' \in Nat /\ Popped' >= Popped
      /\ Len(task_queue) + InCell + Right <= next_id + Popped
      /\ ExecutorStateOK
  <2>1. Popped' \in Nat
    <3>1. delivered' \in Seq(1 .. MaxKeys)
      BY KeyboardTypeStep DEF BudgetInv, KeyboardTypeOK
    <3>2. Len(delivered') \in Nat
      BY <3>1
    <3> QED
      BY <3>2 DEF Popped
  <2>2. ExecutorStateOK
    BY DEF BudgetInv, KeyboardInv, ExecutorTypeOK
  <2>3. Len(task_queue) \in Nat /\ next_id \in Nat /\ Popped \in Nat
    BY CountTypes DEF BudgetInv
  <2> QED
    BY <2>1, <2>2, <2>3, PoppedBoundStep DEF BudgetInv, WakeBudget
<1>1. SUFFICES Len(task_queue)' + InCell' + Right' <= next_id' + Popped'
  BY DEF WakeBudget
<1> HIDE DEF InCell, Right
<1>2. /\ InCell \in 0 .. 1 /\ InCell' \in 0 .. 1
      /\ Right \in 0 .. 1 /\ Right' \in 0 .. 1
  BY DEF InCell, Right
<1>3. CASE KernelSpawn
  <2>1. next_id' = next_id + 1 /\ UNCHANGED Right /\ UNCHANGED InCell
    BY <1>3 DEF KernelSpawn, Spawn, NewTaskId, kbVars, InCell, Right, MayRegister
  <2>2. Len(task_queue)' <= Len(task_queue) + 1 /\ Len(task_queue)' \in Nat
    <3>1. task_queue' \in {task_queue, Append(task_queue, next_id)}
      BY <1>3 DEF KernelSpawn, Spawn
    <3>2. next_id \in TaskId
      BY <1>0, <1>3, ExecutorAssumption DEF KernelSpawn, Spawn, TaskId
    <3>3. Len(Append(task_queue, next_id)) = Len(task_queue) + 1
      BY <1>0, <3>2, IdsAppend DEF ExecutorStateOK
    <3> QED
      BY <1>0, <3>1, <3>3
  <2> QED
    BY <1>0, <1>2, <2>1, <2>2
<1>4. CASE ExecutorPop
  <2>1. UNCHANGED InCell /\ next_id' = next_id
    BY <1>4 DEF ExecutorPop, PopTask, PopNone, execVars, InCell
  <2>2. CASE PopTask
    <3>1. Len(task_queue)' = Len(task_queue) - 1
      BY <1>0, <2>2, IdsTail DEF PopTask, ExecutorStateOK
    <3>2. Right = 0
      BY <2>2 DEF PopTask, Right, MayRegister
    <3> QED
      BY <1>0, <1>2, <2>1, <3>1, <3>2
  <2>3. CASE PopNone
    <3>1. UNCHANGED Right /\ UNCHANGED task_queue
      BY <1>4, <2>3 DEF ExecutorPop, PopNone, execVars, kbVars, Right, MayRegister
    <3> QED
      BY <1>0, <1>2, <2>1, <3>1
  <2> QED
    BY <1>4, <2>2, <2>3 DEF ExecutorPop
<1>5. CASE RegisterBegin
  <2>1. /\ Right = 1 /\ Right' = 0
        /\ UNCHANGED <<task_queue, next_id>>
    BY <1>5 DEF RegisterBegin, KbPolled, CloneWaker, Right, MayRegister
  <2> QED
    BY <1>0, <1>2, <2>1
<1>6. ASSUME WakeTask(KbTask), wakers # {}, wakers' = {},
             next_id' = next_id, Right' <= Right
      PROVE  Len(task_queue)' + InCell' + Right' <= next_id' + Popped'
  <2>1. InCell = 1 /\ InCell' = 0
    BY <1>6 DEF InCell
  <2>2. Len(task_queue)' <= Len(task_queue) + 1 /\ Len(task_queue)' \in Nat
    <3>1. task_queue' \in {task_queue, Append(task_queue, KbTask)}
      BY <1>6 DEF WakeTask
    <3>2. Len(Append(task_queue, KbTask)) = Len(task_queue) + 1
      BY <1>0, KeyboardAssumption, IdsAppend DEF ExecutorStateOK
    <3> QED
      BY <1>0, <3>1, <3>2
  <2> QED
    BY <1>0, <1>2, <1>6, <2>1, <2>2
<1>7. CASE RegisterEnd
  <2>1. Right' = 0 /\ next_id' = next_id
    BY <1>7 DEF RegisterEnd, KbPolled, execVars, Right, MayRegister
  <2>2. CASE waker_state = REGISTERING
    <3>1. UNCHANGED InCell /\ UNCHANGED task_queue
      BY <1>7, <2>2 DEF RegisterEnd, execVars, InCell, REGISTERING, BOTH
    <3> QED
      BY <1>0, <1>2, <2>1, <3>1
  <2>3. CASE waker_state = BOTH
    <3>1. WakeTask(KbTask) /\ wakers # {} /\ wakers' = {}
      BY <1>7, <2>3 DEF RegisterEnd, REGISTERING, BOTH, KbPolled, BudgetInv,
                        KeyboardInv, WakerProtocol
    <3> QED
      BY <1>2, <1>6, <2>1, <3>1
  <2> QED
    BY <1>7, <2>2, <2>3 DEF RegisterEnd
<1>8. CASE SecondPop
  <2>1. /\ Right = 0 /\ UNCHANGED InCell
        /\ UNCHANGED <<task_queue, next_id, delivered>>
        /\ hand = 0
    BY <1>8 DEF SecondPop, KbPolled, PollPending, execVars, Right, MayRegister,
                InCell, BudgetInv, KeyboardInv, WakerProtocol
  <2>2. CASE scancode_queue # <<>>
    <3>1. Popped' = Popped + 1
      BY <1>8, <2>1, <2>2, PopCounts DEF SecondPop, BudgetInv
    <3> QED
      BY <1>0, <1>2, <2>1, <3>1
  <2>3. CASE scancode_queue = <<>>
    <3>1. Right' = 0
      BY <1>8, <2>3 DEF SecondPop, PollPending, Right, MayRegister
    <3> QED
      BY <1>0, <1>2, <2>1, <3>1
  <2> QED
    BY <2>2, <2>3
<1>9. CASE KeyboardInterrupt
  <2>1. CASE UNCHANGED execVars
    <3>1. UNCHANGED Right /\ UNCHANGED InCell /\ UNCHANGED <<task_queue, next_id>>
      BY <1>9, <2>1 DEF KeyboardInterrupt, AddScancode, execVars, Right, MayRegister, InCell
    <3> QED
      BY <1>0, <1>2, <3>1
  <2>2. CASE WakeTask(KbTask) /\ wakers # {} /\ wakers' = {} /\ WakerWake
    <3>1. next_id' = next_id
      BY <2>2 DEF WakerWake, execVars
    <3>2. pc' \in {pc, "panic"} /\ UNCHANGED <<cur, kb_pc>>
      BY <1>9, <2>2 DEF KeyboardInterrupt, AddScancode, WakerWake, WakeTask, execVars
    <3>3. Right' <= Right
      BY <3>2 DEF Right, MayRegister
    <3> QED
      BY <1>6, <2>2, <3>1, <3>3
  <2> QED
    BY <1>9, <2>1, <2>2 DEF KeyboardInterrupt, AddScancode, WakerWake
<1>10. CASE KernelRun \/ ExamplePoll
  <2>1. /\ Right' = 0 /\ UNCHANGED InCell
        /\ UNCHANGED <<task_queue, next_id>>
    BY <1>10 DEF KernelRun, Run, ExamplePoll, PollReady, Right, MayRegister, InCell
  <2> QED
    BY <1>0, <1>2, <2>1
<1>11. CASE StreamNew \/ FastPop \/ Process \/ TakeEnd
  <2>1. Right = 1
    BY <1>11 DEF StreamNew, FastPop, Process, TakeEnd, KbPolled, Right, MayRegister
  <2>2. UNCHANGED InCell /\ UNCHANGED <<task_queue, next_id>>
    BY <1>11 DEF StreamNew, FastPop, Process, TakeEnd, Panic, execVars, InCell
  <2> QED
    BY <1>0, <1>2, <2>1, <2>2
<1>12. CASE TakeBegin
  <2>1. Right = 1 /\ InCell' = 0 /\ UNCHANGED <<task_queue, next_id>>
    BY <1>12 DEF TakeBegin, KbPolled, Right, MayRegister, InCell
  <2> QED
    BY <1>0, <1>2, <2>1
<1>13. CASE KernelHalted \/ UNCHANGED allVars
  <2>1. UNCHANGED Right /\ UNCHANGED InCell /\ UNCHANGED <<task_queue, next_id>>
    BY <1>13 DEF KernelHalted, HltLoop, allVars, kbVars, execVars, Right,
                 MayRegister, InCell
  <2> QED
    BY <1>0, <1>2, <2>1
<1> QED
  BY <1>3, <1>4, <1>5, <1>7, <1>8, <1>9, <1>10, <1>11, <1>12, <1>13
     DEF Next, MainStep

(* Every entry of the task_queue is paid for.                              *)
LEMMA BudgetInvariant == Spec => []BudgetInv
<1>1. Init /\ KeyboardInv => BudgetInv
  BY DEF Init, ExecutorInit, KeyboardInit, BudgetInv, WakeBudget, PoppedBound,
         Popped, MayRegister
<1>2. BudgetInv /\ KeyboardInv' /\ [Next]_allVars => BudgetInv'
  BY WakeBudgetStep, PoppedBoundStep DEF BudgetInv
<1> QED
  BY <1>1, <1>2, KeyboardInvariant, PTL DEF Spec

(* The wake-ups in flight are bounded by spawned tasks and read scancodes. *)
THEOREM BudgetKept == Spec => []WakeBudget
<1>1. BudgetInv => WakeBudget
  BY DEF BudgetInv
<1> QED
  BY <1>1, BudgetInvariant, PTL

-----------------------------------------------------------------------------
(***************************************************************************)
(* Within the budget no push onto the task_queue finds it full, and the    *)
(* other panics are unreachable in any case.                               *)
(***************************************************************************)
NoPanic == pc # "panic" /\ panicked = NoPanicMsg

LEMMA NoPanicStep ==
  BudgetInv /\ NoPanicWithinBudget /\ [Next]_allVars => NoPanicWithinBudget'
<1> SUFFICES ASSUME BudgetInv, NoPanicWithinBudget, [Next]_allVars,
                    TaskQueueCap >= NumTasks + Popped'
             PROVE  NoPanic'
  BY DEF NoPanic, NoPanicWithinBudget
<1>0. /\ Len(task_queue) \in Nat /\ TaskQueueCap \in Nat
      /\ TaskQueueCap >= NumTasks + Popped /\ Popped \in Nat
      /\ next_id \in Nat /\ next_id <= NumTasks /\ NumTasks \in Nat
      /\ Len(task_queue) <= next_id + Popped
      /\ wakers # {} => Len(task_queue) + 1 <= next_id + Popped
  <2> DEFINE InCell == IF wakers = {} THEN 0 ELSE 1
             Right  == IF MayRegister THEN 1 ELSE 0
  <2>1. /\ Len(task_queue) \in Nat /\ Len(scancode_queue) \in Nat
        /\ Popped \in Nat /\ next_id \in 0 .. NumTasks /\ NumTasks \in Nat
        /\ TaskQueueCap \in Nat
    BY CountTypes DEF BudgetInv
  <2>2. Popped' \in Nat /\ Popped' >= Popped
    <3>1. delivered' \in Seq(1 .. MaxKeys)
      BY KeyboardTypeStep DEF BudgetInv, KeyboardTypeOK
    <3> QED
      BY <3>1, PoppedBoundStep DEF Popped
  <2>3. Len(task_queue) + InCell + Right <= next_id + Popped
    BY DEF BudgetInv, WakeBudget
  <2>4. /\ InCell \in 0 .. 1 /\ Right \in 0 .. 1
        /\ wakers # {} => InCell = 1
    OBVIOUS
  <2>5. TaskQueueCap >= NumTasks + Popped
    <3>1. \A p, q \in Nat : p >= q /\ TaskQueueCap >= NumTasks + p
                           => TaskQueueCap >= NumTasks + q
      BY <2>1
    <3> QED
      BY <2>1, <2>2, <3>1, Zenon
  <2> HIDE DEF InCell, Right
  <2> QED
    BY <2>1, <2>3, <2>4, <2>5
<1>1. wakers # {} => ~(Len(task_queue) >= TaskQueueCap)
  BY <1>0
<1>2. wakers # {} /\ WakeTask(KbTask) => UNCHANGED <<pc, panicked>>
  BY <1>1 DEF WakeTask
<1>10. NoPanic
  BY <1>0 DEF NoPanic, NoPanicWithinBudget
<1> USE <1>10 DEF NoPanic, KbPolled
<1>3. CASE KernelSpawn
  <2>1. ~(Len(task_queue) >= TaskQueueCap)
    BY <1>0, <1>3 DEF KernelSpawn, Spawn
  <2>2. next_id \notin tasks
    BY <1>0 DEF BudgetInv, KeyboardInv, LiveTaskBookkeeping
  <2>3. SpawnOutcome = NoPanicMsg
    BY <2>1, <2>2 DEF SpawnOutcome
  <2> QED
    BY <1>3, <2>3 DEF KernelSpawn, Spawn
<1>4. CASE KernelRun \/ ExecutorPop \/ ExamplePoll
  BY <1>4 DEF KernelRun, Run, ExecutorPop, PopTask, PopNone, ExamplePoll,
              PollReady, execVars
<1>5. CASE StreamNew \/ FastPop
  BY <1>5 DEF StreamNew, FastPop, BudgetInv, KeyboardInv, WakerProtocol, execVars
<1>6. CASE RegisterBegin \/ SecondPop \/ TakeBegin \/ TakeEnd \/ Process
  BY <1>6 DEF RegisterBegin, CloneWaker, SecondPop, PollPending, TakeBegin,
              TakeEnd, Process, execVars
<1>7. CASE RegisterEnd
  BY <1>2, <1>7 DEF RegisterEnd, BudgetInv, KeyboardInv, WakerProtocol, execVars
<1>8. CASE KeyboardInterrupt
  BY <1>2, <1>8 DEF KeyboardInterrupt, AddScancode, WakerWake, execVars
<1>9. CASE KernelHalted \/ UNCHANGED allVars
  BY <1>9 DEF KernelHalted, HltLoop, allVars, execVars
<1> QED
  BY <1>3, <1>4, <1>5, <1>6, <1>7, <1>8, <1>9 DEF Next, MainStep

(***************************************************************************)
(* While the task_queue has a place for each task and for each scancode    *)
(* that was read it does not overflow, and nothing else makes the kernel   *)
(* panic.                                                                  *)
(***************************************************************************)
THEOREM BudgetPreventsPanic == Spec => []NoPanicWithinBudget
<1>1. Init => NoPanicWithinBudget
  BY DEF Init, ExecutorInit, NoPanicWithinBudget
<1> QED
  BY <1>1, NoPanicStep, BudgetInvariant, PTL DEF Spec

-----------------------------------------------------------------------------
(* A sequence that is not empty is its head and its tail.                  *)
LEMMA HeadAndTail ==
  ASSUME NEW S, NEW q \in Seq(S), q # <<>>
  PROVE  q = <<Head(q)>> \o Tail(q)
<1> DEFINE r == <<Head(q)>> \o Tail(q)
<1>1. /\ Len(q) \in Nat /\ Len(q) >= 1 /\ Head(q) = q[1] /\ Head(q) \in S
      /\ Tail(q) \in Seq(S) /\ Len(Tail(q)) = Len(q) - 1
      /\ \A i \in 1 .. Len(q) - 1 : Tail(q)[i] = q[i + 1]
  BY HeadTailProperties, EmptySeq, LenProperties
<1>2. <<Head(q)>> \in Seq(S) /\ Len(<<Head(q)>>) = 1 /\ <<Head(q)>>[1] = q[1]
  BY <1>1
<1>3. /\ r \in Seq(S) /\ Len(r) = Len(q)
      /\ \A i \in 1 .. Len(q) : r[i] = IF i <= 1 THEN <<Head(q)>>[i] ELSE Tail(q)[i - 1]
  <2>1. /\ r \in Seq(S) /\ Len(r) = 1 + (Len(q) - 1)
        /\ \A i \in 1 .. 1 + (Len(q) - 1) :
             r[i] = IF i <= 1 THEN <<Head(q)>>[i] ELSE Tail(q)[i - 1]
    BY <1>1, <1>2, ConcatProperties
  <2>2. 1 + (Len(q) - 1) = Len(q)
    BY <1>1
  <2> QED
    BY <2>1, <2>2
<1> HIDE DEF r
<1>4. \A i \in 1 .. Len(q) : r[i] = q[i]
  <2> SUFFICES ASSUME NEW i \in 1 .. Len(q) PROVE r[i] = q[i]
    OBVIOUS
  <2>1. CASE i = 1
    BY <1>2, <1>3, <2>1
  <2>2. CASE i # 1
    <3>1. i - 1 \in 1 .. Len(q) - 1 /\ (i - 1) + 1 = i /\ ~(i <= 1)
      BY <1>1, <2>2
    <3> QED
      BY <1>1, <1>3, <3>1
  <2> QED
    BY <2>1, <2>2
<1>5. r = q
  BY <1>3, <1>4, SeqEqual
<1> QED
  BY <1>5 DEF r

(* A scancode that is popped, or processed, keeps its place.               *)
LEMMA TransitPop ==
  ASSUME NEW S, NEW d \in Seq(S), NEW q \in Seq(S), q # <<>>
  PROVE  d \o << >> \o q = d \o <<Head(q)>> \o Tail(q)
<1>1. Head(q) \in S /\ Tail(q) \in Seq(S)
  BY HeadTailProperties
<1>2. <<Head(q)>> \in Seq(S)
  BY <1>1
<1>3. d \o << >> \o q = d \o q
  BY ConcatEmptySeq
<1>4. d \o <<Head(q)>> \o Tail(q) = d \o (<<Head(q)>> \o Tail(q))
  BY <1>1, <1>2, ConcatAssociative
<1> QED
  BY <1>3, <1>4, HeadAndTail

LEMMA TransitProcess ==
  ASSUME NEW S, NEW d \in Seq(S), NEW q \in Seq(S), NEW x \in S
  PROVE  d \o <<x>> \o q = Append(d, x) \o << >> \o q
<1>1. Append(d, x) \in Seq(S) /\ Append(d, x) = d \o <<x>>
  BY AppendProperties, AppendIsConcat
<1> QED
  BY <1>1, ConcatEmptySeq

(* A scancode that is accepted is the last one in transit.                 *)
LEMMA TransitAccept ==
  ASSUME NEW S, NEW d \in Seq(S), NEW q \in Seq(S), NEW x \in S
  PROVE  d \o Append(q, x) = Append(d \o q, x)
<1>1. Append(q, x) = q \o <<x>> /\ <<x>> \in Seq(S)
  BY AppendIsConcat
<1>2. d \o q \in Seq(S)
  BY ConcatProperties
<1>3. Append(d \o q, x) = d \o q \o <<x>>
  BY <1>2, AppendIsConcat
<1> QED
  BY <1>1, <1>3, ConcatAssociative

(* EveryScancodeAccounted, of any sequence, set and number of presses.     *)
Accounted(s, lost, n) ==
  /\ \A i, j \in DOMAIN s : i < j => s[i] < s[j]
  /\ Ids(s) \intersect lost = {}
  /\ Ids(s) \union lost = 1 .. n

LEMMA AccountedNext ==
  ASSUME NEW s \in Seq(Nat), NEW lost, NEW n \in Nat, Accounted(s, lost, n)
  PROVE  /\ Accounted(Append(s, n + 1), lost, n + 1)
         /\ Accounted(s, lost \union {n + 1}, n + 1)
<1> DEFINE t == Append(s, n + 1)
<1>1. /\ Len(s) \in Nat /\ DOMAIN s = 1 .. Len(s)
      /\ t \in Seq(Nat) /\ DOMAIN t = 1 .. Len(s) + 1
      /\ \A i \in 1 .. Len(s) : t[i] = s[i]
      /\ t[Len(s) + 1] = n + 1
  BY LenProperties, AppendProperties
<1>2. Ids(t) = Ids(s) \union {n + 1}
  BY IdsAppend
<1> HIDE DEF t
<1>3. 1 .. n + 1 = (1 .. n) \union {n + 1} /\ n + 1 \notin 1 .. n
  OBVIOUS
<1>4. n + 1 \notin Ids(s) /\ n + 1 \notin lost
  BY <1>3 DEF Accounted
<1>5. \A i \in DOMAIN s : s[i] < n + 1
  BY DEF Accounted, Ids
<1>6. \A i, j \in DOMAIN t : i < j => t[i] < t[j]
  <2> SUFFICES ASSUME NEW i \in 1 .. Len(s) + 1, NEW j \in 1 .. Len(s) + 1, i < j
               PROVE  t[i] < t[j]
    BY <1>1
  <2>1. i \in 1 .. Len(s)
    BY <1>1
  <2>2. CASE j = Len(s) + 1
    BY <1>1, <1>5, <2>1, <2>2
  <2>3. CASE j # Len(s) + 1
    <3>1. j \in 1 .. Len(s)
      <4>1. Len(s) \in Nat
        BY <1>1
      <4> QED
        BY <2>3, <4>1
    <3> QED
      BY <1>1, <2>1, <3>1 DEF Accounted
  <2> QED
    BY <2>2, <2>3
<1>7. Accounted(t, lost, n + 1)
  BY <1>2, <1>3, <1>4, <1>6 DEF Accounted
<1>8. Accounted(s, lost \union {n + 1}, n + 1)
  BY <1>3, <1>4 DEF Accounted
<1> QED
  BY <1>7, <1>8 DEF t

(* The scancode in hand as a sequence.                                     *)
InHand == IF hand = 0 THEN <<>> ELSE <<hand>>

(* Every step accounts for the scancodes.                                  *)
LEMMA AccountedStep ==
  KeyboardInv /\ Accounted(InTransit, dropped, pressed) /\ [Next]_allVars
    => Accounted(InTransit, dropped, pressed)'
<1> SUFFICES ASSUME KeyboardInv, Accounted(InTransit, dropped, pressed), [Next]_allVars
             PROVE  Accounted(InTransit', dropped', pressed')
  BY DEF Accounted, Ids
<1>0. /\ scancode_queue \in Seq(Nat) /\ delivered \in Seq(Nat) /\ pressed \in Nat
      /\ hand \in Nat /\ InHand \in Seq(Nat)
  <2>1. scancode_queue \in Seq(1 .. MaxKeys) /\ delivered \in Seq(1 .. MaxKeys)
    BY DEF KeyboardInv, KeyboardTypeOK
  <2>2. 1 .. MaxKeys \subseteq Nat
    OBVIOUS
  <2>3. hand \in Nat /\ pressed \in Nat
    BY KeyboardAssumption DEF KeyboardInv, KeyboardTypeOK
  <2>4. InHand \in Seq(Nat)
    BY <2>3 DEF InHand
  <2> QED
    BY <2>1, <2>2, <2>3, <2>4, SeqMonotonic
<1>1. InTransit = delivered \o InHand \o scancode_queue
  BY DEF InTransit, InHand
<1>2. CASE UNCHANGED <<delivered, hand, scancode_queue, dropped, pressed>>
  <2>1. InTransit' = InTransit
    BY <1>2 DEF InTransit
  <2> QED
    BY <1>2, <2>1
<1>3. CASE FastPop \/ SecondPop
  <2>1. hand = 0 /\ UNCHANGED <<pressed, delivered, dropped>>
    BY <1>3 DEF FastPop, SecondPop, KbPolled, KeyboardInv, WakerProtocol
  <2>2. CASE /\ scancode_queue # <<>>
             /\ hand' = Head(scancode_queue)
             /\ scancode_queue' = Tail(scancode_queue)
    <3>1. Head(scancode_queue) # 0
      <4>1. scancode_queue \in Seq(1 .. MaxKeys)
        BY DEF KeyboardInv, KeyboardTypeOK
      <4>2. Head(scancode_queue) \in 1 .. MaxKeys
        BY <2>2, <4>1, IdsTail
      <4> QED
        BY <4>2
    <3>2. InTransit' = delivered \o <<Head(scancode_queue)>> \o Tail(scancode_queue)
      BY <2>1, <2>2, <3>1 DEF InTransit
    <3>3. InTransit = delivered \o << >> \o scancode_queue
      BY <2>1 DEF InTransit
    <3>4. InTransit' = InTransit
      BY <1>0, <2>2, <3>2, <3>3, TransitPop
    <3> QED
      BY <2>1, <3>4
  <2>3. CASE UNCHANGED <<hand, scancode_queue>>
    BY <1>2, <2>1, <2>3
  <2> QED
    BY <1>3, <2>2, <2>3 DEF FastPop, SecondPop
<1>4. CASE Process
  <2>1. /\ hand # 0 /\ hand' = 0
        /\ delivered' = Append(delivered, hand)
        /\ UNCHANGED <<scancode_queue, pressed, dropped>>
    BY <1>4 DEF Process, KbPolled, KeyboardInv, WakerProtocol
  <2>2. InTransit = delivered \o <<hand>> \o scancode_queue
    BY <2>1 DEF InTransit
  <2>3. InTransit' = Append(delivered, hand) \o << >> \o scancode_queue
    BY <2>1 DEF InTransit
  <2>4. InTransit' = InTransit
    BY <1>0, <2>2, <2>3, TransitProcess
  <2> QED
    BY <2>1, <2>4
<1>5. CASE KeyboardInterrupt
  <2>1. pressed' = pressed + 1 /\ UNCHANGED <<hand, delivered>>
    BY <1>5 DEF KeyboardInterrupt, AddScancode
  <2>2. delivered \o InHand \in Seq(Nat) /\ InTransit \in Seq(Nat) /\ pressed + 1 \in Nat
    BY <1>0, <1>1, ConcatProperties
  <2>3. CASE scancode_queue' = Append(scancode_queue, pressed + 1) /\ UNCHANGED dropped
    <3>1. InTransit' = (delivered \o InHand) \o Append(scancode_queue, pressed + 1)
      BY <2>1, <2>3 DEF InTransit, InHand
    <3>2. InTransit' = Append(InTransit, pressed + 1)
      <4>1. (delivered \o InHand) \o Append(scancode_queue, pressed + 1)
              = Append((delivered \o InHand) \o scancode_queue, pressed + 1)
        BY <1>0, <2>2, TransitAccept
      <4> QED
        BY <1>1, <3>1, <4>1
    <3>3. Accounted(Append(InTransit, pressed + 1), dropped, pressed + 1)
      BY <1>0, <2>2, AccountedNext
    <3> QED
      BY <2>1, <2>3, <3>2, <3>3
  <2>4. CASE dropped' = dropped \union {pressed + 1} /\ UNCHANGED scancode_queue
    <3>1. InTransit' = InTransit
      BY <2>1, <2>4 DEF InTransit
    <3>2. Accounted(InTransit, dropped \union {pressed + 1}, pressed + 1)
      BY <1>0, <2>2, AccountedNext
    <3> QED
      BY <2>1, <2>4, <3>1, <3>2
  <2> QED
    BY <1>5, <2>3, <2>4 DEF KeyboardInterrupt, AddScancode
<1> QED
  BY <1>2, <1>3, <1>4, <1>5
     DEF Next, MainStep, KernelSpawn, KernelRun, ExecutorPop, ExamplePoll,
         StreamNew, RegisterBegin, RegisterEnd, TakeBegin, TakeEnd,
         KernelHalted, kbVars, allVars

(***************************************************************************)
(* Between the interrupt and the decoder no scancode is lost, duplicated   *)
(* or overtaken: every key press was delivered in its place, is in transit *)
(* or was dropped with a WARNING.                                          *)
(***************************************************************************)
THEOREM NoScancodeLost == Spec => []EveryScancodeAccounted
<1>1. Init => Accounted(InTransit, dropped, pressed)
  <2> SUFFICES ASSUME Init PROVE Accounted(InTransit, dropped, pressed)
    OBVIOUS
  <2>1. InTransit = <<>> /\ dropped = {} /\ pressed = 0
    BY ConcatEmptySeq, EmptySeq DEF Init, KeyboardInit, InTransit
  <2>2. DOMAIN << >> = {} /\ 1 .. 0 = {}
    OBVIOUS
  <2> QED
    BY <2>1, <2>2 DEF Accounted, Ids
<1>2. Accounted(InTransit, dropped, pressed) => EveryScancodeAccounted
  BY DEF Accounted, EveryScancodeAccounted
<1> QED
  BY <1>1, <1>2, AccountedStep, KeyboardInvariant, PTL DEF Spec

(***************************************************************************)
(* The scancode queue, poll_next and the interrupt handler implement the   *)
(* lossy FIFO channel: a scancode is delivered when it is popped, and the  *)
(* steps of the waker protocol, the executor and the other tasks do not    *)
(* show.  (That delivery goes on is left to the model checker.)            *)
(***************************************************************************)
THEOREM ImplementsLossyChannel == Spec => Channel!SafeSpec
<1> DEFINE Deliv == IF hand = 0 THEN delivered ELSE Append(delivered, hand)
           cVars == <<initialized, scancode_queue, pressed, dropped, Deliv>>
<1>1. Init => Channel!Init
  BY DEF Init, KeyboardInit, Channel!Init
<1>2. KeyboardInv /\ [Next]_allVars => [Channel!Next]_(Channel!chanVars)
  <2> SUFFICES ASSUME KeyboardInv, [Next]_allVars
               PROVE  Channel!Next \/ UNCHANGED cVars
    BY DEF Channel!chanVars
  <2>1. CASE UNCHANGED <<delivered, hand, scancode_queue, dropped, pressed, initialized>>
    BY <2>1
  <2>2. CASE StreamNew
    <3>1. ~initialized /\ initialized' = TRUE
          /\ UNCHANGED <<delivered, hand, scancode_queue, dropped, pressed>>
      BY <2>2 DEF StreamNew, KbPolled, KeyboardInv, WakerProtocol
    <3>2. Channel!Open
      BY <3>1 DEF Channel!Open
    <3> QED
      BY <3>2 DEF Channel!Next
  <2>3. CASE FastPop \/ SecondPop
    <3>1. hand = 0 /\ UNCHANGED <<pressed, delivered, dropped, initialized>>
      BY <2>3 DEF FastPop, SecondPop, KbPolled, KeyboardInv, WakerProtocol
    <3>2. CASE /\ scancode_queue # <<>>
               /\ hand' = Head(scancode_queue)
               /\ scancode_queue' = Tail(scancode_queue)
      <4>1. Head(scancode_queue) # 0
        <5>1. scancode_queue \in Seq(1 .. MaxKeys)
          BY DEF KeyboardInv, KeyboardTypeOK
        <5>2. Head(scancode_queue) \in 1 .. MaxKeys
          BY <3>2, <5>1, IdsTail
        <5> QED
          BY <5>2
      <4>2. Channel!Deliver
        BY <3>1, <3>2, <4>1 DEF Channel!Deliver
      <4> QED
        BY <4>2 DEF Channel!Next
    <3>3. CASE UNCHANGED <<hand, scancode_queue>>
      BY <2>1, <3>1, <3>3
    <3> QED
      BY <2>3, <3>2, <3>3 DEF FastPop, SecondPop
  <2>4. CASE Process
    BY <2>4 DEF Process, KbPolled, KeyboardInv, WakerProtocol
  <2>5. CASE KeyboardInterrupt
    <3>1. pressed < MaxKeys /\ pressed' = pressed + 1
          /\ UNCHANGED <<initialized, hand, delivered>>
      BY <2>5 DEF KeyboardInterrupt
    <3>2. Channel!Accept \/ Channel!Drop
      BY <2>5, <3>1 DEF KeyboardInterrupt, AddScancode, Channel!Accept, Channel!Drop
    <3> QED
      BY <3>2 DEF Channel!Next
  <2> QED
    BY <2>1, <2>2, <2>3, <2>4, <2>5
       DEF Next, MainStep, KernelSpawn, KernelRun, ExecutorPop, ExamplePoll,
           RegisterBegin, RegisterEnd, TakeBegin, TakeEnd,
           KernelHalted, kbVars, allVars
<1> QED
  BY <1>1, <1>2, KeyboardInvariant, PTL DEF Spec, Channel!SafeSpec
=============================================================================
