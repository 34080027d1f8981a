---------------------------- MODULE MCAllocators ----------------------------
(***************************************************************************)
(* Model of the three allocators for TLC.  The kernel is built with one of *)
(* them as its global allocator: the first init decides, and the other two *)
(* keep their initial state.                                               *)
(***************************************************************************)
EXTENDS BumpAllocator, LinkedListAllocator, FixedSizeBlockAllocator

BumpOwn  == <<heap_start, heap_end, next, allocations>>
ListOwn  == <<regions, list_ready, panicked>>
BlockOwn == <<list_heads, fallback, block_ready, peak>>

MCInit == BumpNew /\ ListNew /\ BlockNew

MCNext ==
  \/ BumpNext  /\ ~list_ready /\ ~block_ready /\ UNCHANGED <<ListOwn, BlockOwn>>
  \/ ListNext  /\ heap_end = 0 /\ ~block_ready /\ UNCHANGED <<BumpOwn, BlockOwn>>
  \/ BlockNext /\ heap_end = 0 /\ ~list_ready /\ UNCHANGED <<BumpOwn, ListOwn>>

MCSpec == MCInit /\ [][MCNext]_<<BumpOwn, ListOwn, BlockOwn, live>>

MCBlockSizes == <<4, 8>>

MCLayouts == {[size |-> 3, align |-> 1], [size |-> 6, align |-> 2],
              [size |-> 5, align |-> 8], [size |-> 9, align |-> 1]}
=============================================================================
