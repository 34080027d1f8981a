----------------------------- MODULE KernelBoot -----------------------------
(***************************************************************************)
(* The part of kernel_main (src/main.rs) that uses the block device: the   *)
(* self test on block 0, mount or else format and init_root_directory, and *)
(* the two attempts to create hello.txt, before the executor takes over.   *)
(* The operations of the file system are those of module SimpleFs.  The    *)
(* machine may be reset at any time, and is started again after a halt.    *)
(***************************************************************************)
EXTENDS SimpleFs

CONSTANT hello   \* the name "hello.txt"

ASSUME KernelBootAssumption == hello \in Names \ BadNames /\ hello \notin {".", ".."}

VARIABLES
  stage,   \* where kernel_main is
  first,   \* what the first create_file returned
  second   \* what the second create_file returned

bootVars == <<fsVars, stage, first, second>>

BootInit ==
  /\ Init
  /\ stage = "read" /\ first = "none" /\ second = "none"

-----------------------------------------------------------------------------
(* The self test: each device call is followed by expect().                *)

SelfTest(next, contents) ==
  /\ \/ super' = contents /\ stage' = next /\ UNCHANGED faults
     \/ /\ super' \in {super, contents}
        /\ stage' = "panic"
        /\ faults < MaxFaults /\ faults' = faults + 1
  /\ UNCHANGED <<imap, dmap, blk, fs, fresh, pc, call, result, rooted, acked,
                 first, second>>

ReadBlock0  == stage = "read" /\ SelfTest("write", super)

(* The test message has no magic number at its place.                      *)
WriteBlock0 == stage = "write" /\ SelfTest("readback", NoSuper)

ReadBack    == stage = "readback" /\ SelfTest("mount", super)

-----------------------------------------------------------------------------
(* expect() on the Result of an operation, once it has returned.           *)
Expect(next) ==
  stage' = IF pc' # "idle" THEN stage
           ELSE IF result' = "Ok" THEN next ELSE "panic"

(* Mutant of MountOrFormat: a mount that fails is tried again.             *)
MountOrRetry ==
  /\ stage = "mount"
  /\ Mount
  /\ stage' = IF result' = "Ok" THEN "create" ELSE "mount"
  /\ UNCHANGED <<first, second>>

MountOrFormat ==
  /\ stage = "mount"
  /\ Mount
  /\ stage' = IF result' = "Ok" THEN "create" ELSE "format"
  /\ UNCHANGED <<first, second>>

FormatDisk ==
  /\ stage = "format"
  /\ FormatSuper \/ FormatImap \/ FormatDmap
  /\ Expect("init")
  /\ UNCHANGED <<first, second>>

InitRoot ==
  /\ stage = "init"
  /\ RootImap \/ RootDmap \/ RootInode \/ RootDir
  /\ Expect("create")
  /\ UNCHANGED <<first, second>>

(* The results of the two create_file calls are only printed.              *)
CreateHello == CreateBegin(hello) \/ CreateImap \/ CreateInode \/ CreateDir

FirstCreate ==
  /\ stage = "create"
  /\ CreateHello
  /\ IF pc' = "idle" THEN stage' = "again" /\ first' = result'
                     ELSE UNCHANGED <<stage, first>>
  /\ UNCHANGED second

SecondCreate ==
  /\ stage = "again"
  /\ CreateHello
  /\ IF pc' = "idle" THEN stage' = "tasks" /\ second' = result'
                     ELSE UNCHANGED <<stage, second>>
  /\ UNCHANGED first

-----------------------------------------------------------------------------
Restarted == stage' = "read" /\ first' = "none" /\ second' = "none"

(* A reset at an unfortunate moment.                                       *)
Reset == Crash /\ Restarted

(* The machine is switched off and on while it runs tasks or has panicked. *)
PowerCycle ==
  /\ stage \in {"tasks", "panic"}
  /\ fs' = NoFs /\ fresh' = FALSE
  /\ pc' = "idle" /\ call' = NoCall /\ result' = "none"
  /\ Restarted
  /\ UNCHANGED <<disk, rooted, acked, faults>>

KernelStep ==
  \/ ReadBlock0 \/ WriteBlock0 \/ ReadBack
  \/ MountOrFormat \/ FormatDisk \/ InitRoot
  \/ FirstCreate \/ SecondCreate

BootNext == KernelStep \/ Reset \/ PowerCycle

(***************************************************************************)
(* Fairness: the CPU executes kernel_main and the device answers (its      *)
(* calls block until it does).  Nobody has to reset the machine.           *)
(***************************************************************************)
BootSpec == BootInit /\ [][BootNext]_bootVars /\ WF_bootVars(KernelStep)

-----------------------------------------------------------------------------
(***************************************************************************)
(* Every boot of a machine without faults ends with the file of this boot  *)
(* as the only one, in inode 1, however many boots came before: neither    *)
(* stale blocks nor stale bitmaps shine through the format.  On any        *)
(* machine, the second create_file never follows the first with Ok         *)
(* ("This should not happen!").                                            *)
(***************************************************************************)
HelloAfterBoot ==
  /\ stage = "panic" => faults > 0
  /\ stage = "tasks" /\ faults = 0 =>
       first = "Ok" /\ acked = {<<hello, 1>>} /\ Files = acked
  /\ stage = "tasks" /\ first = "Ok" => second # "Ok"

(***************************************************************************)
(* A file system that is complete when kernel_main mounts it is found:     *)
(* "Mounts an existing file system from a block device".                   *)
(***************************************************************************)
ExistingFsIsMounted ==
  [][stage = "mount" /\ rooted => stage' # "format"]_bootVars

(* kernel_main gets to its tasks or panics, boot after boot.               *)
BootCompletes == []<>(stage \in {"tasks", "panic"})
=============================================================================
