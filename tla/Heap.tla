-------------------------------- MODULE Heap --------------------------------
(***************************************************************************)
(* What every global allocator of src/allocator.rs promises through the    *)
(* trait GlobalAlloc: a block it hands out lies in the heap, is aligned as *)
(* asked, and shares no byte with a block that is still in use.  It may    *)
(* always return null, which changes nothing.                              *)
(*                                                                         *)
(* A layout is a record of size and align, size > 0 (the caller's part of  *)
(* the trait's contract).                                                  *)
(***************************************************************************)
EXTENDS Naturals

CONSTANTS
  HEAP_START,  \* first byte of the heap
  HEAP_SIZE,   \* number of its bytes
  Layouts      \* the layouts the program asks for

ASSUME HeapAssumption ==
  /\ HEAP_START \in Nat \ {0} /\ HEAP_SIZE \in Nat \ {0}
  /\ Layouts \subseteq [size : Nat \ {0}, align : Nat \ {0}]

VARIABLE live  \* the blocks in use: records of ptr and layout

(* The bytes of an extent.                                                 *)
Extent(start, size) == start .. start + size - 1
HeapBytes           == Extent(HEAP_START, HEAP_SIZE)
BlockBytes(b)       == Extent(b.ptr, b.layout.size)

(* align_up, for align a power of two.                                     *)
align_up(addr, align) == (addr + align - 1) - ((addr + align - 1) % align)

Block(p, l) == [ptr |-> p, layout |-> l]

(* alloc returns p for layout l.                                           *)
HeapAlloc(l, p) ==
  /\ Extent(p, l.size) \subseteq HeapBytes
  /\ p % l.align = 0
  /\ \A b \in live : BlockBytes(b) \intersect Extent(p, l.size) = {}
  /\ live' = live \union {Block(p, l)}

(* dealloc of a block in use.                                              *)
HeapFree(b) ==
  /\ b \in live
  /\ live' = live \ {b}

HeapNext ==
  \/ \E l \in Layouts, p \in HeapBytes : HeapAlloc(l, p)
  \/ \E b \in live : HeapFree(b)

HeapSpec == live = {} /\ [][HeapNext]_live

(***************************************************************************)
(* An allocator that keeps its blocks in use in live implements the heap:  *)
(* what its alloc returns is aligned, lies in the heap and shares no byte  *)
(* with another block in use, after any sequence of alloc and dealloc.     *)
(***************************************************************************)
ImplementsHeap == HeapSpec
=============================================================================
