------------------------------- MODULE Memory -------------------------------
(***************************************************************************)
(* Who gets the physical frames, and what the page tables say: src/        *)
(* memory.rs, init_heap of src/allocator.rs, the OsHal of src/virtio/      *)
(* mod.rs, and the part of kernel_main that drives them.                   *)
(*                                                                         *)
(* Frames and pages are numbers; offsets within a page never change and    *)
(* are left out.  A page table is a function from index to entry.          *)
(* OffsetPageTable::map_to is another crate's.  All of this runs in the    *)
(* main context, no interrupt handler takes part.                          *)
(***************************************************************************)
EXTENDS Naturals, Sequences, SequencesExt

CONSTANTS
  Levels, Fanout,    \* of the page tables (4 and 512)
  PhysFrames,        \* number of physical frames
  Root,              \* the frame in CR3
  HEAP_PAGE,         \* page of HEAP_START
  HEAP_PAGES,        \* number of pages of the heap (25)
  KernelPages,       \* 4 KiB pages of the kernel that hold I/O buffers
  Machines           \* what the boot loader and the driver may bring:
                     \* memory_map, tables, and dma, the pages of each
                     \* dma_alloc of VirtIOBlk::new

Frames     == 0 .. PhysFrames - 1
NotPresent == PhysFrames        \* an entry with FrameError::FrameNotPresent
HugeFrame  == PhysFrames + 1    \* an entry with FrameError::HugeFrame
Indexes    == 0 .. Fanout - 1
EmptyTable == [i \in Indexes |-> NotPresent]
HeapPages  == HEAP_PAGE .. HEAP_PAGE + HEAP_PAGES - 1

(* Pages that j levels of tables reach, and the pages of an address space. *)
PagesUnder[j \in 0 .. Levels] == IF j = 0 THEN 1 ELSE Fanout * PagesUnder[j - 1]
Pages == 0 .. PagesUnder[Levels] - 1

(* The 9-bit indexes of a page, the top level first.                       *)
TableIndex(page, k) == (page \div PagesUnder[Levels - k]) % Fanout

(* The entries that translate_addr reaches in the tables t, by the number  *)
(* of steps.  A missing or a huge entry ends the walk.                     *)
Walk(t, page) ==
  LET step[i \in 0 .. Levels] ==
        IF i = 0 THEN Root
        ELSE IF step[i - 1] \in Frames
          THEN t[step[i - 1]][TableIndex(page, i)]
          ELSE step[i - 1]
  IN step

(* Tables t with the root at level 0: an entry above the last level leads  *)
(* one level down, and no other entry leads to the same table.             *)
Hierarchy(t, level) ==
  /\ t \in [DOMAIN t -> [Indexes -> 0 .. PhysFrames + 1]] /\ DOMAIN t \subseteq Frames
  /\ level \in [DOMAIN t -> 0 .. Levels - 1] /\ Root \in DOMAIN t /\ level[Root] = 0
  /\ \A f \in DOMAIN t : \A i \in Indexes :
       level[f] < Levels - 1 /\ t[f][i] \in Frames =>
         /\ t[f][i] \in DOMAIN t /\ level[t[f][i]] = level[f] + 1
         /\ \A g \in DOMAIN t : \A j \in Indexes :
              level[g] < Levels - 1 /\ t[g][j] = t[f][i] => g = f /\ j = i

(* The caller's part of BootInfoFrameAllocator::init and memory::init: the *)
(* regions do not overlap, what is marked usable is unused, and the tables *)
(* are a valid hierarchy, in which the kernel's buffers are mapped.        *)
ASSUME MachineAssumption ==
  /\ Levels \in Nat \ {0} /\ Fanout \in Nat \ {0} /\ PhysFrames \in Nat
  /\ HEAP_PAGE \in Nat /\ HEAP_PAGES \in Nat \ {0}
  /\ HeapPages \subseteq Pages /\ KernelPages \subseteq Pages
  /\ \A m \in Machines :
       /\ \E level \in [DOMAIN m.tables -> 0 .. Levels - 1] : Hierarchy(m.tables, level)
       /\ \A p \in KernelPages : Walk(m.tables, p)[Levels] \in Frames
       /\ m.memory_map \in Seq([start : 0 .. PhysFrames, end : 0 .. PhysFrames,
                                 region_type : STRING])
       /\ \A i \in DOMAIN m.memory_map :
            /\ m.memory_map[i].start <= m.memory_map[i].end
            /\ \A j \in DOMAIN m.memory_map :
                 i < j => m.memory_map[i].end <= m.memory_map[j].start
            /\ m.memory_map[i].region_type = "Usable" => \A f \in DOMAIN m.tables :
                 ~(m.memory_map[i].start <= f /\ f < m.memory_map[i].end)
       /\ m.dma \in Seq(Nat) /\ m.dma # << >>

VARIABLES
  machine,   \* what this boot found: constant
  next,      \* BootInfoFrameAllocator::next
  tables,    \* the page tables, by frame
  pc,        \* what kernel_main does next
  done,      \* heap pages mapped, or dma_alloc calls of the device made
  inits,     \* calls of ALLOCATOR.init so far
  dma,       \* frames of the device in use
  leaked     \* frames given back to dma_dealloc

memVars == <<machine, next, tables, pc, done, inits, dma, leaked>>

-----------------------------------------------------------------------------
(* The frames of a region of the memory map, in steps of 4096 bytes.       *)
RegionFrames(r) == [k \in 1 .. r.end - r.start |-> r.start + k - 1]

(* Mutant of IsUsable: the type of a region is not looked at.              *)
IsAny(r) == TRUE

IsUsable(r) == r.region_type = "Usable"

(* usable_frames: the frames of the usable regions, in order.              *)
usable_frames(memory_map) ==
  FlattenSeq([i \in DOMAIN memory_map |->
    IF IsUsable(memory_map[i]) THEN RegionFrames(memory_map[i]) ELSE << >>])

UsableFrames == usable_frames(machine.memory_map)

(* Mutant of nth: the first frame is handed out twice.                     *)
nth_twice(n) == UsableFrames[IF n = 0 THEN 1 ELSE n]

(* Mutant of HasFrame: the last frame is never handed out.                 *)
HasFrameButLast(n) == n + 1 < Len(UsableFrames)

(* The frame that allocate_frame returns if next is n.                     *)
HasFrame(n) == n < Len(UsableFrames)
nth(n)      == UsableFrames[n + 1]

translate_addr(page) == Walk(tables, page)[Levels]

(* The tables t with an empty table in frame new, for entry i of table at. *)
AddTable(t, at, i, new) ==
  [f \in DOMAIN t \union {new} |->
    IF f = new THEN EmptyTable
    ELSE IF f = at THEN [t[f] EXCEPT ![i] = new] ELSE t[f]]

(* create_next_table of map_to: from the table at to the one its entry i   *)
(* names, which is allocated if it is missing.                             *)
NextTable(s, i) ==
  LET e == s.tables[s.at][i]
  IN IF s.result # "Ok" THEN s
     ELSE IF e = HugeFrame
       THEN [s EXCEPT !.result = "ParentEntryHugePage"]
     ELSE IF e # NotPresent
       THEN [s EXCEPT !.at = e]
     ELSE IF ~HasFrame(s.next)
       THEN [result |-> "FrameAllocationFailed", at |-> s.at, tables |-> s.tables,
             next |-> s.next + 1]
     ELSE [result |-> "Ok", at |-> nth(s.next), next |-> s.next + 1,
           tables |-> AddTable(s.tables, s.at, i, nth(s.next))]

(* The tables of the levels of page, by the steps from the root; n is the  *)
(* allocator's next.                                                       *)
Descend(page, n) ==
  LET table[k \in 0 .. Levels - 1] ==
        IF k = 0 THEN [result |-> "Ok", at |-> Root, tables |-> tables, next |-> n]
        ELSE NextTable(table[k - 1], TableIndex(page, k))
  IN table

(* map_to of page to frame.                                                *)
MapTo(page, frame, n) ==
  LET leaf == Descend(page, n)[Levels - 1]
  IN IF leaf.result # "Ok" THEN leaf
     ELSE IF leaf.tables[leaf.at][TableIndex(page, Levels)] # NotPresent
       THEN [leaf EXCEPT !.result = "PageAlreadyMapped"]
       ELSE [leaf EXCEPT !.tables[leaf.at][TableIndex(page, Levels)] = frame]

-----------------------------------------------------------------------------
(* PAGE_MAPPER and FRAME_ALLOCATOR are set; init_heap comes next.          *)
MemInit ==
  /\ machine \in Machines
  /\ next = 0
  /\ tables = machine.tables
  /\ pc = "init_heap" /\ done = 0 /\ inits = 0
  /\ dma = {} /\ leaked = {}

(* An expect or a panic! of the code fails.                                *)
Panic == pc' = "panicked" /\ UNCHANGED <<machine, done, inits, dma, leaked>>

(* One turn of the loop of init_heap: a frame, its mapping, and the        *)
(* initialization of the allocator.                                        *)
InitHeapPage ==
  /\ pc = "init_heap"
  /\ IF ~HasFrame(next)
       THEN next' = next + 1 /\ UNCHANGED tables /\ Panic
       ELSE LET m == MapTo(HEAP_PAGE + done, nth(next), next + 1)
            IN /\ tables' = m.tables /\ next' = m.next
               /\ IF m.result # "Ok" THEN Panic
                  ELSE /\ inits' = inits + 1
                       /\ IF done + 1 = HEAP_PAGES
                            THEN pc' = "scan" /\ done' = 0
                            ELSE pc' = pc /\ done' = done + 1
                       /\ UNCHANGED <<machine, dma, leaked>>

(* pci::scan finds a device, or kernel_main goes on without one, or panics *)
(* as it cannot use what was found.                                        *)
Scan ==
  /\ pc = "scan"
  /\ pc' \in {"create_device", "run", "panicked"}
  /\ UNCHANGED <<machine, next, tables, done, inits, dma, leaked>>

(* dma_alloc, called by VirtIOBlk::new, the second time for the format.    *)
DmaAlloc ==
  /\ pc \in {"create_device", "recreate_device"}
  /\ UNCHANGED tables
  /\ IF machine.dma[done + 1] > 1
       THEN UNCHANGED next /\ Panic
       ELSE /\ next' = next + 1
            /\ IF ~HasFrame(next) THEN Panic
               ELSE /\ dma' = dma \union {nth(next)}
                    /\ IF done + 1 < Len(machine.dma)
                         THEN pc' = pc /\ done' = done + 1
                         ELSE /\ pc' = IF pc = "create_device" THEN "self_test" ELSE "format"
                              /\ done' = 0
                    /\ UNCHANGED <<machine, inits, leaked>>

(* The device is dropped: dma_dealloc keeps its frames for good.           *)
DropDevice == leaked' = leaked \union dma /\ dma' = {}
KeepDevice == UNCHANGED <<dma, leaked>>

(* kernel_main has read, written and read block 0; SFS::format and         *)
(* init_root_directory returned a file system.                             *)
DeviceWorks ==
  /\ \/ pc = "self_test" /\ pc' = "mount"
     \/ pc = "format" /\ pc' = "files"
  /\ KeepDevice /\ UNCHANGED <<machine, next, tables, done, inits>>

(* The outcome of SFS::mount.  An error drops the device.                  *)
MountDevice ==
  /\ pc = "mount"
  /\ \/ pc' = "files" /\ KeepDevice
     \/ pc' = "recreate_device" /\ DropDevice
  /\ UNCHANGED <<machine, next, tables, done, inits>>

(* A call returns an error where kernel_main expects none: PciTransport::  *)
(* new, VirtIOBlk::new and SFS::format, which drop the device or as much   *)
(* of it as there is, or read_blocks, write_blocks and init_root_directory.*)
DeviceFails ==
  /\ \/ pc \in {"create_device", "recreate_device", "format"} /\ DropDevice
     \/ pc \in {"self_test", "format"} /\ KeepDevice
  /\ pc' = "panicked"
  /\ UNCHANGED <<machine, next, tables, done, inits>>

(* create_file was called twice, its errors are printed.  The file system  *)
(* goes out of scope, and with it the device.                              *)
FilesDone ==
  /\ pc = "files" /\ pc' = "run"
  /\ DropDevice
  /\ UNCHANGED <<machine, next, tables, done, inits>>

(* share of a buffer in the given page: expect panics if it is not mapped, *)
(* translate_addr if it lies in a huge page.                               *)
Share(page) ==
  /\ pc \in {"self_test", "mount", "format", "files"}
  /\ UNCHANGED <<next, tables>>
  /\ IF translate_addr(page) \in Frames THEN UNCHANGED memVars ELSE Panic

(* A panic ends in hlt_loop.  The executor needs no frame and no device.   *)
Halted == pc \in {"panicked", "run"} /\ UNCHANGED memVars

MemNext ==
  \/ InitHeapPage \/ Scan \/ DmaAlloc \/ DeviceWorks \/ MountDevice
  \/ DeviceFails \/ FilesDone
  \/ \E page \in HeapPages \union KernelPages : Share(page)
  \/ Halted

MemSpec == MemInit /\ [][MemNext]_memVars

-----------------------------------------------------------------------------
(* Heap pages whose turn in init_heap is over.                             *)
Mapped == IF inits = HEAP_PAGES THEN HeapPages
          ELSE HEAP_PAGE .. HEAP_PAGE + inits - 1

NewTables  == DOMAIN tables \ DOMAIN machine.tables
HeapFrames == {translate_addr(p) : p \in Mapped}
UsedFrames == HeapFrames \union NewTables \union dma \union leaked

(***************************************************************************)
(* A frame that allocate_frame returned has one use: a page of the heap, a *)
(* page table, or a buffer of the device, in use or leaked.  All of them   *)
(* are usable ones, and no frame is lost while the kernel runs.            *)
(***************************************************************************)
FramesExclusive ==
  /\ UsedFrames \subseteq ToSet(UsableFrames)
  /\ Cardinality(UsedFrames) = Cardinality(Mapped) + Cardinality(NewTables)
                                + Cardinality(dma) + Cardinality(leaked)
  /\ pc # "panicked" => next = Cardinality(UsedFrames)

(* What a page meant to the boot loader.                                   *)
BootWalk(page) == Walk(machine.tables, page)[Levels]

(***************************************************************************)
(* Page tables: a heap page is mapped as soon as its turn in init_heap is  *)
(* over, and stays so; every other page means what it meant at boot, in    *)
(* particular no mapping of the kernel or of physical memory changes.      *)
(***************************************************************************)
MappingsKept ==
  \A page \in Pages :
    IF page \in Mapped THEN translate_addr(page) \in ToSet(UsableFrames)
    ELSE translate_addr(page) = BootWalk(page)

(* Tables the heap needs and the boot loader did not set up: one for each  *)
(* prefix of a heap page's indexes at which the boot loader's walk ends.   *)
MissingTables ==
  LET stops(k) == {page \in HeapPages : Walk(machine.tables, page)[k] = NotPresent}
  IN UNION {{<<k, page \div PagesUnder[Levels - k]>> : page \in stops(k)} :
              k \in 1 .. Levels - 1}

FramesNeeded ==
  HEAP_PAGES + Cardinality(MissingTables) + 2 * Len(machine.dma)
=============================================================================
