------------------------ MODULE LinkedListAllocator ------------------------
(***************************************************************************)
(* The LinkedListAllocator of src/allocator/linked_list.rs.  The list of   *)
(* free regions hangs off the dummy head; a region is its ListNode, which  *)
(* lies in its first bytes.  Each operation runs under the spin lock of    *)
(* Locked, so it is one step.  live is a history variable.                 *)
(***************************************************************************)
EXTENDS Heap, Sequences, SequencesExt

CONSTANTS
  NODE_SIZE,   \* mem::size_of::<ListNode>()  (16)
  NODE_ALIGN   \* mem::align_of::<ListNode>() (8)

ASSUME ListNodeAssumption ==
  /\ NODE_SIZE \in Nat \ {0} /\ NODE_ALIGN \in Nat \ {0}
  /\ NODE_SIZE % NODE_ALIGN = 0

(* HEAP_START and HEAP_SIZE of src/allocator.rs leave room for a ListNode. *)
(* Alignments are powers of two, of which the smaller divides the larger   *)
(* one, and bounded.                                                       *)
ASSUME ListAlignmentAssumption ==
  /\ HEAP_START % NODE_ALIGN = 0 /\ NODE_SIZE <= HEAP_SIZE
  /\ LET aligns == {NODE_ALIGN} \union {l.align : l \in Layouts}
     IN /\ \A a, b \in aligns : a <= b => b % a = 0
        /\ \E a \in aligns : \A b \in aligns : b <= a

VARIABLES
  regions,   \* the list behind head: records of start_addr and size
  list_ready,     \* init has run
  panicked   \* an assert of add_free_region has failed

listVars == <<regions, list_ready, panicked, live>>

Region(addr, size) == [start_addr |-> addr, size |-> size]
end_addr(r)        == r.start_addr + r.size

(* size_align: align_to, pad_to_align, and the room a ListNode needs.      *)
size_align(l) ==
  LET align == Max({l.align, NODE_ALIGN})
  IN [size |-> Max({align_up(l.size, align), NODE_SIZE}), align |-> align]

(* Mutant of Excess: the front gap counts as part of the rest.             *)
ExcessWithGap(r, need) == r.size - need.size

(* What is left of the region behind an allocation that fits into it.      *)
Excess(r, need) == end_addr(r) - (align_up(r.start_addr, need.align) + need.size)

(* Mutant of alloc_from_region: a region that fits exactly is refused.     *)
alloc_from_region_strict(r, need) ==
  /\ align_up(r.start_addr, need.align) + need.size < end_addr(r)
  /\ Excess(r, need) >= NODE_SIZE

(* alloc_from_region returns Ok.                                           *)
alloc_from_region(r, need) ==
  /\ align_up(r.start_addr, need.align) + need.size <= end_addr(r)
  /\ Excess(r, need) = 0 \/ Excess(r, need) >= NODE_SIZE

(* add_free_region in front of the list, with its two asserts.             *)
add_free_region(list, addr, size) ==
  IF align_up(addr, NODE_ALIGN) = addr /\ size >= NODE_SIZE
    THEN regions' = Cons(Region(addr, size), list) /\ UNCHANGED panicked
    ELSE regions' = list /\ panicked' = TRUE

(* LinkedListAllocator::new.                                               *)
ListNew == regions = << >> /\ list_ready = FALSE /\ panicked = FALSE /\ live = {}

(* init, which "must be called only once".                                 *)
ListInit ==
  /\ ~list_ready /\ list_ready' = TRUE
  /\ add_free_region(regions, HEAP_START, HEAP_SIZE)
  /\ UNCHANGED live

(* find_region: the first region that is suitable.                         *)
Fitting(need) == {i \in DOMAIN regions : alloc_from_region(regions[i], need)}

(* Mutant of ListAlloc: the rest of the region is not put back.            *)
ListAllocDropsRest(l) ==
  LET need == size_align(l)
      i    == Min(Fitting(need))
  IN /\ ~panicked /\ Fitting(need) # {}
     /\ regions' = RemoveAt(regions, i)
     /\ live' = live \union {Block(align_up(regions[i].start_addr, need.align), l)}
     /\ UNCHANGED <<list_ready, panicked>>

ListAlloc(l) ==
  LET need == size_align(l)
      i    == Min(Fitting(need))
      r    == regions[i]
      rest == RemoveAt(regions, i)
      addr == align_up(r.start_addr, need.align)
  IN /\ ~panicked /\ Fitting(need) # {}
     /\ IF Excess(r, need) > 0
          THEN add_free_region(rest, addr + need.size, Excess(r, need))
          ELSE regions' = rest /\ UNCHANGED panicked
     /\ live' = IF panicked' THEN live ELSE live \union {Block(addr, l)}
     /\ UNCHANGED list_ready

ListAllocNull(l) ==
  /\ ~panicked /\ Fitting(size_align(l)) = {}
  /\ UNCHANGED listVars

ListDealloc(b) ==
  /\ ~panicked /\ b \in live
  /\ live' = live \ {b}
  /\ add_free_region(regions, b.ptr, size_align(b.layout).size)
  /\ UNCHANGED list_ready

ListNext ==
  \/ ListInit
  \/ \E l \in Layouts : ListAlloc(l) \/ ListAllocNull(l)
  \/ \E b \in live : ListDealloc(b)

ListSpec == ListNew /\ [][ListNext]_listVars

-----------------------------------------------------------------------------
RegionBytes(r) == Extent(r.start_addr, r.size)

(* What alloc really reserved for a block.                                 *)
ReservedBytes(b) == Extent(b.ptr, size_align(b.layout).size)

(* Bytes that are neither in a region nor reserved for a block.            *)
LostBytes == HeapBytes \ ((UNION {RegionBytes(r) : r \in ToSet(regions)})
                          \union (UNION {ReservedBytes(b) : b \in live}))

(***************************************************************************)
(* A ListNode is never written over memory the program uses, or over       *)
(* another node: regions and reserved blocks are pairwise disjoint parts   *)
(* of the heap.  Every region that comes back, or is split off, has room   *)
(* for its ListNode, so neither assert of add_free_region fails.           *)
(***************************************************************************)
RegionsSound ==
  /\ ~panicked
  /\ \A r \in ToSet(regions) :
       /\ RegionBytes(r) \subseteq HeapBytes
       /\ \A b \in live : RegionBytes(r) \intersect ReservedBytes(b) = {}
  /\ \A i, j \in DOMAIN regions :
       i # j => RegionBytes(regions[i]) \intersect RegionBytes(regions[j]) = {}

(***************************************************************************)
(* Memory is lost only in front of an aligned block: of every stretch of   *)
(* the heap as long as the largest alignment, the first byte stays with    *)
(* the allocator or the program, however long they go on.                  *)
(***************************************************************************)
LossBounded ==
  LET largest == Max({size_align(l).align : l \in Layouts})
  IN list_ready => \A a \in LostBytes : a % largest # 0

(***************************************************************************)
(* A freed block can be had again: right after dealloc, alloc of the same  *)
(* layout does not return null, whatever the fragmentation.                *)
(***************************************************************************)
FreedIsReusable ==
  [][list_ready => \A b \in live \ live' : Fitting(size_align(b.layout))' # {}]_listVars
=============================================================================
