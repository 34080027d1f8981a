---------------------------- MODULE AsyncKeyboard ----------------------------
(***************************************************************************)
(* The asynchronous keyboard of the kernel: the keyboard interrupt handler *)
(* (src/interrupts.rs), the scancode queue, its AtomicWaker and the        *)
(* print_keypresses task (src/task/keyboard.rs), running on the executor   *)
(* (module Executor) together with example tasks that complete on their    *)
(* first poll (src/main.rs).                                               *)
(*                                                                         *)
(* The variable wakers of Executor is the cell of SCANCODE_WAKER here: the *)
(* scancode stream is the only event source that keeps a Waker.            *)
(*                                                                         *)
(* Main-context steps are the atomic operations of the code (one queue     *)
(* operation, one compare-exchange of the AtomicWaker); an interrupt can   *)
(* come between any two of them.  The handler itself is one step: it runs  *)
(* with interrupts disabled on the only CPU.                               *)
(*                                                                         *)
(* The n-th scancode read from the controller is represented by n, so that *)
(* loss, duplication and reordering are visible; no step looks at it.      *)
(***************************************************************************)
EXTENDS Executor

CONSTANTS
  ScancodeQueueCap,  \* capacity of SCANCODE_QUEUE (100 in ScancodeStream::new)
  KbTask,            \* TaskId of print_keypresses (1 in kernel_main)
  MaxKeys            \* bound: how many key presses the environment makes

ASSUME KeyboardAssumption ==
  /\ ScancodeQueueCap \in Nat \ {0}
  /\ KbTask \in TaskId
  /\ MaxKeys \in Nat

VARIABLES
  initialized,     \* SCANCODE_QUEUE has been initialized
  scancode_queue,  \* its contents
  waker_state,     \* the state word of the AtomicWaker SCANCODE_WAKER
  kb_pc,           \* where print_keypresses is, or resumes when polled
  hand,            \* the scancode next().await has returned, 0 if none
  pressed,         \* how many scancodes the controller has delivered
  dropped,         \* scancodes dropped with a WARNING
  delivered        \* scancodes print_keypresses has fed to its decoder

kbVars  == <<initialized, scancode_queue, waker_state, kb_pc, hand, pressed,
             dropped, delivered>>
allVars == <<execVars, kbVars>>

WAITING     == "WAITING"
REGISTERING == "REGISTERING"
WAKING      == "WAKING"
BOTH        == "REGISTERING|WAKING"

StreamTwiceMsg == "ScancodeStream::new should only be called once"
NoQueueMsg     == "scancode not initialized"

-----------------------------------------------------------------------------
KeyboardInit ==
  /\ initialized = FALSE
  /\ scancode_queue = <<>>
  /\ waker_state = WAITING
  /\ kb_pc = "start"
  /\ hand = 0
  /\ pressed = 0
  /\ dropped = {}
  /\ delivered = <<>>

Init == ExecutorInit /\ KeyboardInit

(* kernel_main spawns every task, then calls run.                          *)
KernelSpawn == Spawn /\ UNCHANGED kbVars

KernelRun == next_id = NumTasks /\ Run /\ UNCHANGED kbVars

ExecutorPop == (PopTask \/ PopNone) /\ UNCHANGED kbVars

(* example_task: completes on its first poll.                              *)
ExamplePoll == cur # KbTask /\ PollReady /\ UNCHANGED kbVars

-----------------------------------------------------------------------------
(* print_keypresses, polled.  It loops over scancodes.next().await.        *)

KbPolled(at) == pc = "poll" /\ cur = KbTask /\ kb_pc = at

(* ScancodeStream::new: the queue may be initialized once only.            *)
StreamNew ==
  /\ KbPolled("start")
  /\ IF initialized
       THEN /\ Panic(StreamTwiceMsg)
            /\ UNCHANGED <<initialized, kb_pc>>
       ELSE /\ initialized' = TRUE
            /\ kb_pc' = "fast"
            /\ UNCHANGED execVars
  /\ UNCHANGED <<scancode_queue, waker_state, hand, pressed, dropped, delivered>>

(* Mutant of FastPop: an empty queue is not told from a scancode.          *)
FastPopUnchecked ==
  /\ KbPolled("fast")
  /\ kb_pc' = "process"
  /\ IF scancode_queue # <<>>
       THEN hand' = Head(scancode_queue) /\ scancode_queue' = Tail(scancode_queue)
       ELSE UNCHANGED <<hand, scancode_queue>>
  /\ UNCHANGED <<execVars, initialized, waker_state, pressed, dropped, delivered>>

(* poll_next: the fast path pops without registering the waker.            *)
FastPop ==
  /\ KbPolled("fast")
  /\ IF ~initialized
       THEN /\ Panic(NoQueueMsg)
            /\ UNCHANGED <<hand, scancode_queue, kb_pc>>
       ELSE /\ \/ /\ scancode_queue # <<>>
                  /\ hand' = Head(scancode_queue)
                  /\ scancode_queue' = Tail(scancode_queue)
                  /\ kb_pc' = "process"
               \/ /\ scancode_queue = <<>>
                  /\ kb_pc' = "register"
                  /\ UNCHANGED <<hand, scancode_queue>>
            /\ UNCHANGED execVars
  /\ UNCHANGED <<initialized, waker_state, pressed, dropped, delivered>>

(* AtomicWaker::register takes the cell and stores a clone of the waker.   *)
RegisterBegin ==
  /\ KbPolled("register")
  /\ waker_state = WAITING
  /\ waker_state' = REGISTERING
  /\ CloneWaker
  /\ kb_pc' = "registering"
  /\ UNCHANGED <<initialized, scancode_queue, hand, pressed, dropped,
                 delivered>>

(***************************************************************************)
(* AtomicWaker::register gives the cell back.  If a wake came meanwhile    *)
(* it could not take the waker and left the WAKING bit: the waker is then  *)
(* taken and woken here.                                                   *)
(***************************************************************************)
RegisterEnd ==
  /\ KbPolled("registering")
  /\ waker_state' = WAITING
  /\ kb_pc' = "second"
  /\ \/ /\ waker_state = REGISTERING
        /\ UNCHANGED execVars
     \/ /\ waker_state = BOTH
        /\ wakers' = {}
        /\ WakeTask(KbTask)
        /\ UNCHANGED <<next_id, tasks, waker_cache, cur>>
  /\ UNCHANGED <<initialized, scancode_queue, hand, pressed, dropped,
                 delivered>>

(* Mutant of SecondPop: poll_next returns Pending right after registering. *)
SecondPopMissing ==
  /\ KbPolled("second")
  /\ kb_pc' = "fast"
  /\ PollPending
  /\ UNCHANGED <<initialized, scancode_queue, waker_state, hand, pressed, dropped,
                 delivered>>

(* poll_next: the second pop, after the registration.                      *)
SecondPop ==
  /\ KbPolled("second")
  /\ \/ /\ scancode_queue # <<>>
        /\ hand' = Head(scancode_queue)
        /\ scancode_queue' = Tail(scancode_queue)
        /\ kb_pc' = "take"
        /\ UNCHANGED execVars
     \/ /\ scancode_queue = <<>>
        /\ kb_pc' = "fast"
        /\ PollPending
        /\ UNCHANGED <<hand, scancode_queue>>
  /\ UNCHANGED <<initialized, waker_state, pressed, dropped, delivered>>

(***************************************************************************)
(* AtomicWaker::take, called because the second pop succeeded: set the     *)
(* WAKING bit and empty the cell, then clear the bit.  A wake between the  *)
(* two finds the bit set and does nothing.                                 *)
(***************************************************************************)
TakeBegin ==
  /\ KbPolled("take")
  /\ waker_state' = WAKING
  /\ wakers' = {}
  /\ kb_pc' = "taking"
  /\ UNCHANGED <<next_id, tasks, task_queue, waker_cache, cur, pc, panicked,
                 notified, initialized, scancode_queue, hand, pressed,
                 dropped, delivered>>

(* Mutant of TakeEnd: the WAKING bit is left set.                          *)
TakeEndKeepsWaking ==
  /\ KbPolled("taking")
  /\ kb_pc' = "process"
  /\ UNCHANGED <<execVars, initialized, scancode_queue, waker_state, hand, pressed,
                 dropped, delivered>>

TakeEnd ==
  /\ KbPolled("taking")
  /\ waker_state' = WAITING
  /\ kb_pc' = "process"
  /\ UNCHANGED <<execVars, initialized, scancode_queue, hand, pressed,
                 dropped, delivered>>

(* Mutant of Process: the stream is created in the loop.                   *)
ProcessNewStream ==
  /\ KbPolled("process")
  /\ delivered' = Append(delivered, hand)
  /\ hand' = 0
  /\ kb_pc' = "start"
  /\ UNCHANGED <<execVars, initialized, scancode_queue, waker_state, pressed,
                 dropped>>

(* The body of the loop: decode and print the scancode, then poll again.   *)
Process ==
  /\ KbPolled("process")
  /\ delivered' = Append(delivered, hand)
  /\ hand' = 0
  /\ kb_pc' = "fast"
  /\ UNCHANGED <<execVars, initialized, scancode_queue, waker_state, pressed,
                 dropped>>

-----------------------------------------------------------------------------
(***************************************************************************)
(* AtomicWaker::wake called by the handler: in the WAITING state it takes  *)
(* the waker, if there is one, and wakes the task; while a registration is *)
(* in progress it leaves the WAKING bit; otherwise somebody else is waking.*)
(***************************************************************************)
WakerWake ==
  \/ /\ waker_state = WAITING
     /\ wakers # {}
     /\ wakers' = {}
     /\ WakeTask(KbTask)
     /\ UNCHANGED <<waker_state, next_id, tasks, waker_cache, cur>>
  \/ /\ waker_state = WAITING
     /\ wakers = {}
     /\ UNCHANGED <<waker_state, execVars>>
  \/ /\ waker_state \in {REGISTERING, BOTH}
     /\ waker_state' = BOTH
     /\ UNCHANGED execVars
  \/ /\ waker_state = WAKING
     /\ UNCHANGED <<waker_state, execVars>>

(* Mutant of AddScancode: a full queue drops its oldest scancode.          *)
AddScancodeForced(k) ==
  /\ initialized
  /\ scancode_queue' =
       Append(IF Len(scancode_queue) < ScancodeQueueCap
                THEN scancode_queue ELSE Tail(scancode_queue), k)
  /\ WakerWake
  /\ UNCHANGED dropped

(* Mutant of AddScancode: one place of the queue is never used.            *)
AddScancodeOffByOne(k) ==
  IF initialized /\ Len(scancode_queue) + 1 < ScancodeQueueCap
    THEN /\ scancode_queue' = Append(scancode_queue, k)
         /\ WakerWake
         /\ UNCHANGED dropped
    ELSE /\ dropped' = dropped \union {k}
         /\ UNCHANGED <<execVars, scancode_queue, waker_state>>

(* add_scancode: push and wake, or drop with a WARNING.                    *)
AddScancode(k) ==
  \/ /\ initialized /\ Len(scancode_queue) < ScancodeQueueCap
     /\ scancode_queue' = Append(scancode_queue, k)
     /\ WakerWake
     /\ UNCHANGED dropped
  \/ /\ ~initialized \/ Len(scancode_queue) >= ScancodeQueueCap
     /\ dropped' = dropped \union {k}
     /\ UNCHANGED <<execVars, scancode_queue, waker_state>>

(***************************************************************************)
(* keyboard_interrupt_handler: read the scancode, add_scancode, end of     *)
(* interrupt.  Interrupts are enabled from blog_os::init on, long before   *)
(* the queue exists.                                                       *)
(***************************************************************************)
KeyboardInterrupt ==
  /\ pc # "panic"
  /\ pressed < MaxKeys
  /\ pressed' = pressed + 1
  /\ AddScancode(pressed + 1)
  /\ UNCHANGED <<initialized, kb_pc, hand, delivered>>

KernelHalted == HltLoop /\ UNCHANGED kbVars

MainStep ==
  \/ KernelSpawn \/ KernelRun \/ ExecutorPop \/ ExamplePoll
  \/ StreamNew \/ FastPop \/ RegisterBegin \/ RegisterEnd \/ SecondPop
  \/ TakeBegin \/ TakeEnd \/ Process

Next == MainStep \/ KeyboardInterrupt \/ KernelHalted

(***************************************************************************)
(* Fairness: the CPU keeps executing the main context between interrupts.  *)
(* Key presses are not fair.                                               *)
(***************************************************************************)
Spec == Init /\ [][Next]_allVars

FairSpec == Spec /\ WF_allVars(MainStep)

-----------------------------------------------------------------------------
(* Types of the keyboard's state.                                          *)
KeyboardTypeOK ==
  /\ initialized \in BOOLEAN
  /\ scancode_queue \in Seq(1 .. MaxKeys)
  /\ waker_state \in {WAITING, REGISTERING, WAKING, BOTH}
  /\ kb_pc \in {"start", "fast", "register", "registering", "second", "take",
                "taking", "process"}
  /\ hand \in 0 .. MaxKeys
  /\ pressed \in 0 .. MaxKeys
  /\ dropped \subseteq 1 .. MaxKeys
  /\ delivered \in Seq(1 .. MaxKeys)

TypeOK ==
  /\ ExecutorStateOK
  /\ KeyboardTypeOK
  /\ panicked \in {NoPanicMsg, DuplicateIdMsg, SpawnFullMsg, WakeFullMsg,
                   StreamTwiceMsg, NoQueueMsg}

(* print_keypresses has run and has given control back.                    *)
Parked == kb_pc # "start" /\ ~(pc = "poll" /\ cur = KbTask)

(***************************************************************************)
(* The reason for the registration between the two pops of poll_next:      *)
(* whenever the task is parked, a scancode that waits in the queue has     *)
(* already put the task back on the task_queue.  Otherwise the scancode    *)
(* would sit there until another key is pressed.                           *)
(***************************************************************************)
ParkedHasNoUnseenScancode ==
  Parked /\ pc # "panic" /\ scancode_queue # <<>> => KbTask \in Ids(task_queue)

(***************************************************************************)
(* Why the above holds.  The state word of the AtomicWaker follows the     *)
(* steps of register and take; the task is alive as long as its stream is; *)
(* a scancode is in hand from its pop until it is processed; once a        *)
(* registration is complete, and until the second pop, the waker is in     *)
(* place or has been used; and a parked task is queued again, or its waker *)
(* is in place and there is nothing to read.                               *)
(***************************************************************************)
WakerProtocol ==
  /\ wakers \subseteq {KbTask}
  /\ waker_state \in {REGISTERING, BOTH} <=> kb_pc = "registering"
  /\ waker_state = WAKING <=> kb_pc = "taking"
  /\ kb_pc = "registering" => wakers = {KbTask}
  /\ hand # 0 <=> kb_pc \in {"take", "taking", "process"}
  /\ initialized <=> kb_pc # "start"
  /\ initialized => KbTask \in tasks
  /\ ~initialized => wakers = {} /\ scancode_queue = <<>>
  /\ kb_pc = "second" /\ pc # "panic" =>
       wakers = {KbTask} \/ KbTask \in Ids(task_queue)
  /\ Parked /\ pc # "panic" =>
       /\ kb_pc = "fast"
       /\ \/ KbTask \in Ids(task_queue)
          \/ wakers = {KbTask} /\ scancode_queue = <<>>

(***************************************************************************)
(* add_scancode "must not block or allocate": the waker that the handler   *)
(* takes out of the cell, wakes and drops is never the last one, because   *)
(* the executor still caches a clone, so the handler does not enter the    *)
(* heap allocator (whose lock the interrupted code may hold).              *)
(***************************************************************************)
HandlerNeverFreesWaker == wakers \subseteq waker_cache

(* The scancodes that were accepted, oldest first.                         *)
InTransit ==
  delivered \o (IF hand = 0 THEN <<>> ELSE <<hand>>) \o scancode_queue

(***************************************************************************)
(* Nothing is lost, duplicated or reordered between the interrupt and the  *)
(* decoder: what has been delivered, is in hand or waits is in the order   *)
(* of the key presses, and together with the dropped scancodes it accounts *)
(* for every key press.                                                    *)
(***************************************************************************)
EveryScancodeAccounted ==
  /\ \A i, j \in DOMAIN InTransit : i < j => InTransit[i] < InTransit[j]
  /\ Ids(InTransit) \intersect dropped = {}
  /\ Ids(InTransit) \union dropped = 1 .. pressed

(* Scancodes that poll_next has taken off the queue.                       *)
Popped == Len(delivered) + (IF hand = 0 THEN 0 ELSE 1)

(* print_keypresses runs and may still register its waker in this round.   *)
MayRegister ==
  /\ pc = "poll" /\ cur = KbTask
  /\ kb_pc \notin {"registering", "second"}

(***************************************************************************)
(* The wake-up budget: every entry of the task_queue, the waker in the     *)
(* cell and the right to register it were paid for by the spawn of a task  *)
(* or by a scancode that was taken off the queue.  (A scancode can buy an  *)
(* entry because a poll goes on with the next scancode: if the interrupt   *)
(* hits between register and the second pop, the task is queued and yet    *)
(* not parked.)                                                            *)
(***************************************************************************)
WakeBudget ==
  Len(task_queue) + (IF wakers = {} THEN 0 ELSE 1) + (IF MayRegister THEN 1 ELSE 0)
    <= next_id + Popped

(***************************************************************************)
(* As long as the task_queue has room for every task and for every         *)
(* scancode print_keypresses has read, no push onto it fails; and none of  *)
(* the other expect() calls of the executor and of the scancode stream     *)
(* ever fails, so the kernel does not panic.                               *)
(***************************************************************************)
NoPanicWithinBudget ==
  TaskQueueCap >= NumTasks + Popped => pc # "panic" /\ panicked = NoPanicMsg

(***************************************************************************)
(* TaskWaker::wake_task expects its push to succeed: the task_queue is     *)
(* never full when the keyboard interrupt wakes print_keypresses.          *)
(***************************************************************************)
WakeNeverFindsQueueFull == panicked # WakeFullMsg

(***************************************************************************)
(* The keyboard implements the lossy FIFO channel of ScancodeChannel, its  *)
(* promise to keep delivering included unless the kernel panics; a         *)
(* scancode counts as delivered when it is popped.                         *)
(***************************************************************************)
Channel == INSTANCE ScancodeChannel WITH
  open <- initialized,
  chan <- scancode_queue,
  delivered <- IF hand = 0 THEN delivered ELSE Append(delivered, hand)

ImplementsChannel == Channel!SafeSpec /\ (<>(pc = "panic") \/ Channel!Fairness)
=============================================================================
