--------------------------- MODULE BumpAllocator ---------------------------
(***************************************************************************)
(* The BumpAllocator of src/allocator/bump.rs.  Each operation runs under  *)
(* the spin lock of Locked, so it is one step.  live is a history variable *)
(* of the blocks the program holds.                                        *)
(***************************************************************************)
EXTENDS Heap, FiniteSets

VARIABLES
  heap_start, heap_end,
  next,         \* the first byte behind the blocks handed out
  allocations   \* number of blocks in use

bumpVars == <<heap_start, heap_end, next, allocations, live>>

(* BumpAllocator::new.                                                     *)
BumpNew ==
  /\ heap_start = 0 /\ heap_end = 0 /\ next = 0 /\ allocations = 0
  /\ live = {}

(* BumpAllocator::init; init_heap repeats it before the first allocation.  *)
BumpInit ==
  /\ live = {}
  /\ heap_start' = HEAP_START
  /\ heap_end' = HEAP_START + HEAP_SIZE
  /\ next' = HEAP_START
  /\ UNCHANGED <<allocations, live>>

AllocEnd(l) == align_up(next, l.align) + l.size

(* alloc; behind the end of the heap it returns null.                      *)
BumpAlloc(l) ==
  /\ AllocEnd(l) <= heap_end
  /\ next' = AllocEnd(l)
  /\ allocations' = allocations + 1
  /\ live' = live \union {Block(align_up(next, l.align), l)}
  /\ UNCHANGED <<heap_start, heap_end>>

BumpAllocNull(l) ==
  /\ AllocEnd(l) > heap_end
  /\ UNCHANGED bumpVars

(* Mutant of BumpDealloc: the memory is taken back one block too early.    *)
BumpDeallocEarly(b) ==
  /\ b \in live
  /\ live' = live \ {b}
  /\ allocations' = allocations - 1
  /\ next' = IF allocations' <= 1 THEN heap_start ELSE next
  /\ UNCHANGED <<heap_start, heap_end>>

(* Mutant of BumpDealloc: the memory is never taken back.                  *)
BumpDeallocNever(b) ==
  /\ b \in live
  /\ live' = live \ {b}
  /\ allocations' = allocations - 1
  /\ UNCHANGED <<heap_start, heap_end, next>>

BumpDealloc(b) ==
  /\ b \in live
  /\ live' = live \ {b}
  /\ allocations' = allocations - 1
  /\ next' = IF allocations' = 0 THEN heap_start ELSE next
  /\ UNCHANGED <<heap_start, heap_end>>

BumpNext ==
  \/ BumpInit
  \/ \E l \in Layouts : BumpAlloc(l) \/ BumpAllocNull(l)
  \/ \E b \in live : BumpDealloc(b)

BumpSpec == BumpNew /\ [][BumpNext]_bumpVars

-----------------------------------------------------------------------------
(***************************************************************************)
(* Every block in use lies below next, the counter is their number, and    *)
(* when the last one is freed the whole heap can be handed out again.      *)
(* This holds once init has run.                                           *)
(***************************************************************************)
BumpReset ==
  heap_end # 0 =>
    /\ allocations = Cardinality(live)
    /\ \A b \in live : b.ptr >= heap_start /\ b.ptr + b.layout.size <= next
    /\ live = {} => next = heap_start
=============================================================================
