--------------------------- MODULE MCKernelStart ---------------------------
(* Model of KernelStart for TLC.                                           *)
EXTENDS KernelStart

CONSTANTS virtioBlk, otherVendor, allOnes, wordA, wordB

MapRegion(s, e, t) == [start |-> s, end |-> e, region_type |-> t]

(* Frames 0 to 3 hold boot tables and the kernel's stack.  The rest has up *)
(* to two usable regions around a reserved one.                            *)
MemoryMaps ==
  {<<MapRegion(0, 4, "InUse"), MapRegion(4, lo, "Usable"),
     MapRegion(lo, hi, "Reserved"), MapRegion(hi, PhysFrames, "Usable")>> :
     <<lo, hi>> \in {<<lo, hi>> \in (4 .. 8) \X (4 .. PhysFrames) : lo <= hi}}

TableOf(e0, e1, e2) == 0 :> e0 @@ 1 :> e1 @@ 2 :> e2

(* Pages 0 to 2 are a huge page, page 3 is the kernel's stack.  The heap,  *)
(* pages 7 to 10, needs a table below a table of the boot loader and two   *)
(* of its own; with the second set it meets a huge page.                   *)
BootTables(e) ==
  0 :> TableOf(1, e, NotPresent)
  @@ 1 :> TableOf(HugeFrame, 2, NotPresent)
  @@ 2 :> TableOf(3, NotPresent, NotPresent)

MCMachines ==
  {[memory_map |-> mm, tables |-> BootTables(e), dma |-> d] :
     mm \in MemoryMaps, e \in {NotPresent, HugeFrame}, d \in {<<1, 1>>, <<1, 2>>}}
=============================================================================
