---------------------------- MODULE KernelStart ----------------------------
(***************************************************************************)
(* kernel_main of src/main.rs from init_heap to the block device: Memory   *)
(* and PciScan composed.  The scan runs when the heap is there, its result *)
(* decides how the kernel goes on, and the driver writes the device's      *)
(* configuration while it is being created.  What the file system writes   *)
(* is left to KernelBoot: here it succeeds or fails.                       *)
(***************************************************************************)
EXTENDS Memory, PciScan

VARIABLE failed  \* history: a call on the device that kernel_main expects to
                 \* succeed has failed

startVars == <<memVars, pciVars, failed>>

StartInit == MemInit /\ PciInit /\ failed = FALSE

(* What follows the scan.  PciTransport::new refuses a function of another *)
(* vendor, and kernel_main expects it not to; its other errors are         *)
(* DeviceFails.                                                            *)
ScanOutcome ==
  IF found = {} THEN "run"
  ELSE IF \A f \in found : read_word(f, 0) \in VirtioVendors THEN "create_device"
  ELSE "panicked"

DeviceStep ==
  \/ DmaAlloc \/ DeviceWorks \/ MountDevice \/ FilesDone
  \/ \E page \in HeapPages \union KernelPages : Share(page)

StartNext ==
  \/ InitHeapPage /\ UNCHANGED <<pciVars, failed>>
  \/ pc = "scan" /\ ScanStep /\ UNCHANGED <<memVars, failed>>
  \/ scan_pc = "done" /\ Scan /\ pc' = ScanOutcome /\ UNCHANGED <<pciVars, failed>>
  \/ pc \in {"create_device", "recreate_device"} /\ WriteStep /\ UNCHANGED <<memVars, failed>>
  \/ DeviceStep /\ UNCHANGED <<pciVars, failed>>
  \/ DeviceFails /\ failed' = TRUE /\ UNCHANGED pciVars
  \/ Halted /\ UNCHANGED <<pciVars, failed>>

StartSpec == StartInit /\ [][StartNext]_startVars

-----------------------------------------------------------------------------
(***************************************************************************)
(* An expect or panic! of kernel_main, init_heap, translate_addr or OsHal  *)
(* fires only if the machine is too small, if the heap lies in a huge page *)
(* or on a mapped one, if the driver asks for two pages at once, if the    *)
(* VirtIO function of the device is not its function 0, which scan returns *)
(* in any case, or if the driver or the file system reports an error where *)
(* kernel_main expects none.  As dma_dealloc leaks, a machine must have    *)
(* the frames of two devices.  Sharing a buffer never panics.              *)
(***************************************************************************)
EnoughMemoryNoPanic ==
  pc = "panicked" =>
    \/ Len(UsableFrames) < FramesNeeded
    \/ \E page \in HeapPages : BootWalk(page) # NotPresent
    \/ \E i \in DOMAIN machine.dma : machine.dma[i] > 1
    \/ \E f \in found : f \notin Virtio
    \/ failed
=============================================================================
