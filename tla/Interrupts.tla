----------------------------- MODULE Interrupts -----------------------------
(***************************************************************************)
(* Interrupts, exceptions and panics on the one CPU, and the two spin      *)
(* locks that contexts share: SERIAL1 behind println! and PICS.  Sources:  *)
(* src/interrupts.rs, add_scancode of src/task/keyboard.rs, src/gdt.rs,    *)
(* src/serial.rs, init of src/lib.rs and the panic handler of src/main.rs. *)
(*                                                                         *)
(* A context is the main program or a handler; the stack holds the running *)
(* one first and below it the contexts it interrupted.  Interrupt gates    *)
(* clear the interrupt flag and iret restores it.  A spin lock whose       *)
(* holder is further down the stack is never released.                     *)
(*                                                                         *)
(* What a handler prints is left out; a handler that prints several times  *)
(* may do so any number of times.                                          *)
(***************************************************************************)
EXTENDS Naturals, Sequences, FiniteSets

CONSTANTS
  MaxIrqs,    \* bound: interrupt requests of the devices
  MaxFaults   \* bound: exceptions and panics

ASSUME InterruptsAssumption == MaxIrqs \in Nat /\ MaxFaults \in Nat

VARIABLES
  booted,   \* steps of blog_os::init that are done
  flag,     \* the interrupt flag of the CPU
  stack,    \* the contexts, the running one first
  serial,   \* depth of the context that holds SERIAL1, 0 if it is free
  pics,     \* the same for PICS
  irr,      \* requests the PIC has latched
  isr,      \* interrupts in service, end of interrupt not sent
  raised,   \* history: requests so far
  faults,   \* history: exceptions and panics so far
  reset     \* triple fault: the machine restarts

intVars == <<booted, flag, stack, serial, pics, irr, isr, raised, faults, reset>>

(* Mutant of INIT_ORDER: the IDT before the stack of the double fault.     *)
INIT_IDT_FIRST == <<"idt", "gdt", "pics_lock", "pics_unlock", "sti">>

(* blog_os::init: gdt::init with the TSS, init_idt, the remapping of the   *)
(* PICs under their lock, and sti.                                         *)
INIT_ORDER == <<"gdt", "idt", "pics_lock", "pics_unlock", "sti">>

Done(step) == \E i \in 1 .. booted : INIT_ORDER[i] = step

(* gdt::init: the CPU has the TSS, whose interrupt stack table holds the   *)
(* stack for the double fault.  init_idt: it has the handlers.             *)
DoubleFaultStack == Done("gdt")
IdtLoaded        == Done("idt")

(* The entries of the IDT.                                                 *)
Irqs       == {"timer", "keyboard"}
Exceptions == {"breakpoint", "page_fault", "double_fault"}

(* kind: what the context is; pc: "run", "lock" (of SERIAL1), "printing",  *)
(* "printed", "eoi", "eoi_locked", "iret" or "halt"; entry: the flag iret  *)
(* restores; saved: the flag without_interrupts restores.                  *)
Context(kind, pc, entry) ==
  [kind |-> kind, pc |-> pc, entry |-> entry, saved |-> FALSE, panicking |-> FALSE]

Top   == Head(stack)
Depth == Len(stack)

(* The running context goes on.                                            *)
Goto(pc) == stack' = [stack EXCEPT ![1].pc = pc]

(* An interrupt or exception of the given kind.                            *)
Enter(kind) ==
  /\ stack' = <<Context(kind, "run", flag)>> \o stack
  /\ flag' = FALSE

(* The kernel starts with interrupts disabled.                             *)
IntInit ==
  /\ booted = 0 /\ flag = FALSE /\ reset = FALSE
  /\ stack = <<Context("main", "run", FALSE)>>
  /\ serial = 0 /\ pics = 0
  /\ irr = {} /\ isr = {} /\ raised = 0 /\ faults = 0

-----------------------------------------------------------------------------
(* The main program.                                                       *)
InitStep ==
  LET step == INIT_ORDER[booted + 1]
  IN /\ ~reset /\ booted < Len(INIT_ORDER)
     /\ Top.kind = "main" /\ Top.pc = "run" /\ ~Top.panicking
     /\ booted' = booted + 1
     /\ pics' = CASE step = "pics_lock" -> Depth [] step = "pics_unlock" -> 0
                  [] OTHER -> pics
     /\ flag' = (flag \/ step = "sti")
     /\ UNCHANGED <<stack, serial, irr, isr, raised, faults, reset>>

(* Who prints: the main program outside of init, a handler of an           *)
(* exception, add_scancode in the keyboard's handler (once, a warning that *)
(* the queue is full or not there yet), and whoever panics; page_fault and *)
(* panic handler more than once.                                           *)
Prints(c) ==
  \/ c.pc = "run" /\ (c.kind \in Exceptions \union {"keyboard"} \/ c.panicking)
  \/ c.pc = "run" /\ c.kind = "main" /\ booted \in {0, Len(INIT_ORDER)}
  \/ c.pc = "printed" /\ (c.kind = "page_fault" \/ c.panicking)

(* Mutant of Disabled: the flag stays as it is.                            *)
NotDisabled == flag

(* The flag within without_interrupts.                                     *)
Disabled == FALSE

(* println!: without_interrupts, SERIAL1.lock(), write_fmt, unlock.        *)
PrintBegin ==
  /\ ~reset /\ Prints(Top)
  /\ stack' = [stack EXCEPT ![1].pc = "lock", ![1].saved = flag]
  /\ flag' = Disabled
  /\ UNCHANGED <<booted, serial, pics, irr, isr, raised, faults, reset>>

SerialLock ==
  /\ ~reset /\ Top.pc = "lock" /\ serial = 0
  /\ serial' = Depth
  /\ Goto("printing")
  /\ UNCHANGED <<booted, flag, pics, irr, isr, raised, faults, reset>>

(* Mutant of Restored: interrupts are enabled in any case.                 *)
RestoredAlways(c) == TRUE

(* The flag after without_interrupts.                                      *)
Restored(c) == c.saved

SerialUnlock ==
  /\ ~reset /\ Top.pc = "printing"
  /\ serial' = 0
  /\ flag' = Restored(Top)
  /\ Goto(IF Top.kind = "main" /\ ~Top.panicking THEN "run" ELSE "printed")
  /\ UNCHANGED <<booted, pics, irr, isr, raised, faults, reset>>

-----------------------------------------------------------------------------
(* Devices and handlers.                                                   *)

(* A device raises its line; a request that is still latched is lost.      *)
Raise(irq) ==
  /\ raised < MaxIrqs
  /\ raised' = raised + 1
  /\ irr' = irr \union {irq}
  /\ UNCHANGED <<booted, flag, stack, serial, pics, isr, faults, reset>>

(* Requests that the PIC passes on: the timer has the higher priority.     *)
Deliverable(irq) ==
  /\ irq \in irr /\ isr \intersect {"timer", irq} = {}
  /\ irq = "keyboard" => "timer" \notin irr

(* The CPU takes an interrupt.  Without the remapping its vector is that   *)
(* of an exception; without an IDT the machine restarts.                   *)
Deliver(irq) ==
  /\ ~reset /\ flag /\ Deliverable(irq)
  /\ irr' = irr \ {irq} /\ isr' = isr \union {irq}
  /\ Enter(IF Done("pics_unlock") THEN irq ELSE "double_fault")
  /\ reset' = ~IdtLoaded
  /\ UNCHANGED <<booted, serial, pics, raised, faults>>

(* timer_interrupt_handler does nothing before its end of interrupt;       *)
(* keyboard_interrupt_handler reads the scancode and calls add_scancode,   *)
(* which queues it ("run") or has printed its warning ("printed").         *)
HandlerBody ==
  /\ ~reset /\ Top.kind \in Irqs /\ Top.pc \in {"run", "printed"} /\ ~Top.panicking
  /\ Goto("eoi")
  /\ UNCHANGED <<booted, flag, serial, pics, irr, isr, raised, faults, reset>>

PicsLock ==
  /\ ~reset /\ Top.pc = "eoi" /\ pics = 0
  /\ pics' = Depth
  /\ Goto("eoi_locked")
  /\ UNCHANGED <<booted, flag, serial, irr, isr, raised, faults, reset>>

(* Mutant of Served: the timer's end of interrupt is forgotten.            *)
ServedKeyboardOnly(kind) == {kind} \ {"timer"}

(* notify_end_of_interrupt ends the interrupt of the handler.              *)
Served(kind) == {kind}

EndOfInterrupt ==
  /\ ~reset /\ Top.pc = "eoi_locked"
  /\ isr' = isr \ Served(Top.kind)
  /\ pics' = 0
  /\ Goto("iret")
  /\ UNCHANGED <<booted, flag, serial, irr, raised, faults, reset>>

(* The handlers of interrupts and breakpoints return.                      *)
Iret ==
  /\ ~reset
  /\ Top.pc = "iret" \/ (Top.pc = "printed" /\ Top.kind = "breakpoint" /\ ~Top.panicking)
  /\ stack' = Tail(stack)
  /\ flag' = Top.entry
  /\ UNCHANGED <<booted, serial, pics, irr, isr, raised, faults, reset>>

(* page_fault_handler and the panic handler end in hlt_loop, the           *)
(* double_fault_handler in loop {}.                                        *)
Halt ==
  /\ ~reset /\ Top.pc = "printed"
  /\ Top.kind \in {"page_fault", "double_fault"} \/ Top.panicking
  /\ Goto("halt")
  /\ UNCHANGED <<booted, flag, serial, pics, irr, isr, raised, faults, reset>>

-----------------------------------------------------------------------------
(* Exceptions and panics.                                                  *)
Running(c) == c.pc \in {"run", "printing", "printed"}

(* An exception in the running context; a double fault is the page fault   *)
(* of a stack overflow, whose frame cannot be pushed.  Without an IDT, or  *)
(* without the TSS's stack for a double fault, the machine restarts.       *)
Exception(kind) ==
  /\ ~reset /\ Running(Top) /\ faults < MaxFaults
  /\ faults' = faults + 1
  /\ IF IdtLoaded /\ (kind = "double_fault" => DoubleFaultStack)
       THEN Enter(kind) /\ UNCHANGED reset
       ELSE reset' = TRUE /\ UNCHANGED <<stack, flag>>
  /\ UNCHANGED <<booted, serial, pics, irr, isr, raised>>

(* A panic of the running context.  Nothing is unwound: its locks stay.    *)
Panic ==
  /\ ~reset /\ Running(Top) /\ ~Top.panicking /\ faults < MaxFaults
  /\ faults' = faults + 1
  /\ stack' = [stack EXCEPT ![1].pc = "run", ![1].panicking = TRUE]
  /\ UNCHANGED <<booted, flag, serial, pics, irr, isr, raised, reset>>

(* The CPU does nothing any more: it waits for a lock that a context below *)
(* it holds, or halts with interrupts disabled, or was reset.              *)
SpinsOnSerial == Top.pc = "lock" /\ serial # 0
SpinsOnPics   == Top.pc = "eoi" /\ pics # 0
Dead == reset \/ SpinsOnSerial \/ SpinsOnPics \/ (Top.pc = "halt" /\ ~flag)

(* hlt_loop and the spinning locks.                                        *)
Stopped == (Dead \/ Top.pc = "halt") /\ UNCHANGED intVars

(* Steps of the code itself.                                               *)
CpuStep ==
  \/ SerialLock \/ SerialUnlock
  \/ HandlerBody \/ PicsLock \/ EndOfInterrupt \/ Iret \/ Halt
  \/ PrintBegin /\ (Top.kind # "main" \/ Top.panicking)

IntNext ==
  \/ InitStep \/ PrintBegin \/ CpuStep
  \/ \E irq \in Irqs : Raise(irq) \/ Deliver(irq)
  \/ \E kind \in Exceptions : Exception(kind)
  \/ Panic \/ Stopped

(***************************************************************************)
(* The CPU executes the code it is in.  An interrupt that is requested is  *)
(* taken at some instruction that runs with the flag set, if there are     *)
(* such instructions again and again.  Handlers, and kernel_main before    *)
(* init, print finitely often.                                             *)
(***************************************************************************)
IntFairness ==
  /\ WF_intVars(CpuStep) /\ SF_intVars(InitStep) /\ SF_intVars(Halt)
  /\ \A irq \in Irqs : SF_intVars(Deliver(irq))

IntSpec == IntInit /\ [][IntNext]_intVars /\ IntFairness

-----------------------------------------------------------------------------
(***************************************************************************)
(* Interrupts are enabled exactly when the main program runs, init is over *)
(* and it neither waits for SERIAL1 nor holds it: no handler is ever       *)
(* interrupted by a device, and println! restores the flag in whichever    *)
(* context it runs: after the warning of add_scancode the handler of the   *)
(* keyboard goes on with interrupts disabled.                              *)
(***************************************************************************)
FlagDiscipline ==
  ~reset => flag = (Done("sti") /\ Depth = 1 /\ serial = 0 /\ Top.pc # "lock")

(***************************************************************************)
(* An interrupt handler gets the locks it needs at once: PICS for its end  *)
(* of interrupt, SERIAL1 for the warning of add_scancode, which must not   *)
(* block.  println! waits for ever only if the printing of a context was   *)
(* itself cut short, by its own panic or by an exception in it.            *)
(***************************************************************************)
LocksAvailable ==
  /\ ~SpinsOnPics
  /\ Top.kind \in Irqs /\ ~Top.panicking => ~SpinsOnSerial
  /\ SpinsOnSerial => IF serial = Depth THEN Top.panicking
                      ELSE stack[Depth - serial].kind \in Exceptions

(***************************************************************************)
(* The order of init: an exception restarts the machine only before the    *)
(* IDT is loaded, even if it is a stack overflow, and no interrupt of a    *)
(* device ever arrives as an exception.                                    *)
(***************************************************************************)
NoUnexpectedVector ==
  /\ reset => ~IdtLoaded
  /\ Cardinality({i \in 1 .. Depth : stack[i].kind \in Exceptions}) <= faults

(***************************************************************************)
(* Every interrupt request is served: both handlers notify the PIC, and    *)
(* none of the contexts keeps interrupts disabled, unless the CPU is dead. *)
(***************************************************************************)
EveryIrqServed == \A irq \in Irqs : irq \in irr ~> (irq \notin irr \/ Dead)
=============================================================================
