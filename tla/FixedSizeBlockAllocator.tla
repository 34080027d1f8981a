---------------------- MODULE FixedSizeBlockAllocator ----------------------
(***************************************************************************)
(* The FixedSizeBlockAllocator of src/allocator/fixed_size_block.rs, the   *)
(* kernel's global allocator.  Small layouts are served from one free list *)
(* per block size; a list that is empty, and the large layouts, go to the  *)
(* fallback allocator.  Each operation runs under the spin lock of Locked, *)
(* so it is one step.                                                      *)
(*                                                                         *)
(* The fallback allocator, linked_list_allocator::Heap, is another crate:  *)
(* it is an instance of Heap, free to choose the place of a block and to   *)
(* fail.  live and peak are history variables.                             *)
(***************************************************************************)
EXTENDS Heap, Sequences, SequencesExt

CONSTANTS
  BLOCK_SIZES,  \* increasing powers of two
  BLOCK_NODE_SIZE,    \* size and alignment of a ListNode (8)
  PAGE_SIZE     \* a multiple of every block size (4096)

Classes == DOMAIN BLOCK_SIZES

(* The asserts of dealloc: a ListNode fits into every block.               *)
ASSUME BlockSizesAssumption ==
  /\ BLOCK_SIZES \in Seq(Nat \ {0})
  /\ BLOCK_NODE_SIZE \in Nat \ {0} /\ PAGE_SIZE \in Nat \ {0}
  /\ \A i \in Classes : BLOCK_NODE_SIZE <= BLOCK_SIZES[i] /\ PAGE_SIZE % BLOCK_SIZES[i] = 0
  /\ \A i, j \in Classes : i < j => BLOCK_SIZES[i] < BLOCK_SIZES[j]

(* Alignments and block sizes are powers of two, of which the smaller      *)
(* divides the larger one.                                                 *)
ASSUME BlockAlignmentAssumption ==
  \A l \in Layouts, i \in Classes :
    l.align <= BLOCK_SIZES[i] => BLOCK_SIZES[i] % l.align = 0

VARIABLES
  list_heads,  \* per class, the addresses of the free blocks, first one first
  fallback,    \* the blocks in use of the fallback allocator
  block_ready,       \* the fallback allocator has been given its memory
  peak         \* history: per class, the most blocks ever in use at once

blockVars == <<list_heads, fallback, block_ready, peak, live>>

NoClass == 0

(* list_index.                                                             *)
list_index(l) ==
  LET fit == {i \in Classes : BLOCK_SIZES[i] >= Max({l.size, l.align})}
  IN IF fit = {} THEN NoClass ELSE Min(fit)

(* Mutant of ClassLayout: a block is not aligned to its size.              *)
ClassLayoutUnaligned(i) == [size |-> BLOCK_SIZES[i], align |-> BLOCK_NODE_SIZE]

(* The layout of a new block of class i.                                   *)
ClassLayout(i) == [size |-> BLOCK_SIZES[i], align |-> BLOCK_SIZES[i]]

Fallback == INSTANCE Heap WITH
  live    <- fallback,
  Layouts <- Layouts \union {ClassLayout(i) : i \in Classes}

InClass(blocks, i) == {b \in blocks : list_index(b.layout) = i}

UpdatePeak ==
  peak' = [i \in Classes |-> Max({peak[i], Cardinality(InClass(live', i))})]

(* FixedSizeBlockAllocator::new.                                           *)
BlockNew ==
  /\ list_heads = [i \in Classes |-> << >>]
  /\ fallback = {} /\ block_ready = FALSE
  /\ peak = [i \in Classes |-> 0] /\ live = {}

(* init.  init_heap repeats it before the first allocation; the fallback   *)
(* allocator then starts afresh.                                           *)
BlockInit ==
  /\ fallback = {}
  /\ block_ready' = TRUE
  /\ UNCHANGED <<list_heads, fallback, peak, live>>

(* alloc from the list of its class.                                       *)
AllocFromList(l) ==
  LET i == list_index(l)
  IN /\ i # NoClass /\ list_heads[i] # << >>
     /\ list_heads' = [list_heads EXCEPT ![i] = Tail(@)]
     /\ live' = live \union {Block(Head(list_heads[i]), l)}
     /\ UpdatePeak
     /\ UNCHANGED <<fallback, block_ready>>

(* What alloc asks of fallback_alloc.                                      *)
NewLayout(l) == IF list_index(l) = NoClass THEN l ELSE ClassLayout(list_index(l))

(* Mutant of NeedsFallback: the list is not looked at.                     *)
NeedsFallbackAlways(l) == TRUE

NeedsFallback(l) == \A i \in Classes : i = list_index(l) => list_heads[i] = << >>

(* alloc from the fallback allocator.                                      *)
AllocFromFallback(l, p) ==
  /\ block_ready /\ NeedsFallback(l)
  /\ Fallback!HeapAlloc(NewLayout(l), p)
  /\ live' = live \union {Block(p, l)}
  /\ UpdatePeak
  /\ UNCHANGED <<list_heads, block_ready>>

(* fallback_alloc returns null.                                            *)
AllocNull(l) == NeedsFallback(l) /\ UNCHANGED blockVars

(* Mutant of DeallocToList: the list keeps only the block freed last.      *)
DeallocToListForgets(b) ==
  LET i == list_index(b.layout)
  IN /\ i # NoClass
     /\ list_heads' = [list_heads EXCEPT ![i] = <<b.ptr>>]
     /\ live' = live \ {b}
     /\ UNCHANGED <<fallback, block_ready, peak>>

(* dealloc of a block of a class.                                          *)
DeallocToList(b) ==
  LET i == list_index(b.layout)
  IN /\ i # NoClass
     /\ list_heads' = [list_heads EXCEPT ![i] = Cons(b.ptr, @)]
     /\ live' = live \ {b}
     /\ UNCHANGED <<fallback, block_ready, peak>>

(* dealloc of a large block.                                               *)
DeallocToFallback(b) ==
  /\ list_index(b.layout) = NoClass
  /\ Fallback!HeapFree(b)
  /\ live' = live \ {b}
  /\ UNCHANGED <<list_heads, block_ready, peak>>

BlockNext ==
  \/ BlockInit
  \/ \E l \in Layouts :
       \/ AllocFromList(l)
       \/ \E p \in HeapBytes : AllocFromFallback(l, p)
       \/ AllocNull(l)
  \/ \E b \in live : DeallocToList(b) \/ DeallocToFallback(b)

BlockSpec == BlockNew /\ [][BlockNext]_blockVars

-----------------------------------------------------------------------------
Listed(i) == ToSet(list_heads[i])

(* The blocks a class has, in its list or in use.                          *)
ClassBlocks(i) ==
  {Block(p, ClassLayout(i)) : p \in Listed(i) \union {b.ptr : b \in InClass(live, i)}}

(***************************************************************************)
(* Every block of the fallback allocator has one owner: a large block is   *)
(* in use, a block of a class is in use or in the list of that class, once *)
(* and not both, and nothing is in use or listed that the fallback did not *)
(* hand out.  So no ListNode is written into memory in use.                *)
(***************************************************************************)
OneOwner ==
  block_ready =>
    /\ fallback = InClass(live, NoClass) \union UNION {ClassBlocks(i) : i \in Classes}
    /\ \A i \in Classes :
         /\ Len(list_heads[i]) = Cardinality(Listed(i))
         /\ \A b \in live : b.ptr \notin Listed(i)

(***************************************************************************)
(* A class never gives memory back and never takes more than it needs: it  *)
(* owns exactly as many blocks as its layouts had in use at the worst      *)
(* moment, so any number of allocations that are freed again, as in the    *)
(* test many_allocation_boxes, live from a fixed part of the heap.         *)
(***************************************************************************)
ClassMemoryIsPeak ==
  block_ready => \A i \in Classes :
    Len(list_heads[i]) + Cardinality(InClass(live, i)) = peak[i]

(***************************************************************************)
(* A block of a class does not cross a page boundary, as it is aligned to  *)
(* its size.  OsHal::share translates the first address of a buffer only,  *)
(* and heap pages that are neighbours need not be so in physical memory:   *)
(* for buffers of up to the largest block size the device sees the buffer. *)
(***************************************************************************)
ClassBlocksWithinPage ==
  block_ready => \A b \in live \ InClass(live, NoClass) :
    b.ptr \div PAGE_SIZE = (b.ptr + b.layout.size - 1) \div PAGE_SIZE
=============================================================================
