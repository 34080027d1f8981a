-------------------------- MODULE KernelBoot_proofs --------------------------
(***************************************************************************)
(* Proofs about module KernelBoot: the file system as kernel_main uses it, *)
(* boot after boot.                                                        *)
(***************************************************************************)
EXTENDS KernelBoot, SimpleFs_proofs

(* There is room for a second inode, and for a third directory entry.  The *)
(* code has 4096 bits in a bitmap and 4 inodes in a block.                 *)
RoomForHello == MapBits >= 2 /\ InodesPerBlock >= 2

Stages == {"read", "write", "readback", "mount", "format", "init", "create", "again",
           "tasks", "panic"}

(* Before a handle exists.                                                 *)
SelfTesting == {"read", "write", "readback", "mount"}

EarlySound ==
  /\ stage \in Stages
  /\ stage \in SelfTesting => pc = "idle" /\ fs = NoFs /\ ~fresh
  /\ stage \in {"readback", "mount"} => super = NoSuper
  /\ stage = "format" => pc \in {"idle"} \union Formatting

(* The bitmaps are empty after the format, so the data block that          *)
(* init_root_directory gets is the first one.                              *)
InitSound ==
  stage = "init" =>
    /\ fresh /\ pc \in {"idle"} \union Rooting
    /\ pc \in {"idle", "root_dmap"} => dmap = {}
    /\ pc \in {"root_inode", "root_dir"} => call.block \in Blocks

(* The first create_file finds an empty directory.                         *)
FirstSound ==
  stage = "create" =>
    /\ rooted /\ acked = {} /\ Files = {}
    /\ pc \in {"idle"} \union Creating
    /\ pc \in {"idle", "create_imap"} => imap = {0}
    /\ pc \in {"create_inode", "create_dir"} => imap = {0, 1} /\ call.inode = 1
    /\ pc \in Creating => call.name = hello

(* The second one finds the file of the first, unless a fault kept the     *)
(* first from success.                                                     *)
SecondSound ==
  stage \in {"again", "tasks"} =>
    /\ rooted
    /\ first = "Ok" =>
         /\ acked = {<<hello, 1>>} /\ Files = acked /\ pc = "idle"
         /\ stage = "tasks" => second # "Ok"
    /\ first # "Ok" => faults > 0

HaltSound ==
  /\ stage \in {"tasks", "panic"} => pc = "idle"
  /\ stage = "panic" => faults > 0

BootInv ==
  /\ FsInv
  /\ EarlySound /\ InitSound /\ FirstSound /\ SecondSound /\ HaltSound

-----------------------------------------------------------------------------
(* Steps between the operations of the file system: the disk behind block  *)
(* 0 stays, and no handle is left.                                         *)
Between ==
  /\ pc = "idle" /\ pc' = "idle" /\ fresh' = FALSE
  /\ super' \in {super, NoSuper} /\ UNCHANGED <<imap, dmap, blk, rooted, acked>>
  /\ fs' \in {fs, NoFs} /\ call' \in {call, NoCall} /\ result' \in {result, "none"}
  /\ faults' \in {faults, faults + 1} /\ faults' <= MaxFaults

LEMMA BetweenKeeps ==
  ASSUME FsInv, Between
  PROVE  FsInv'
<1>0. TypeOK /\ ControlSound /\ AckedSound /\ RootIntact /\ EntriesSound
  BY DEF FsInv, DiskInv, RootSound
<1>1. TypeOK'
  <2>1. faults \in Nat /\ MaxFaults \in Nat
    BY <1>0, LayoutFacts DEF TypeOK
  <2>2. faults' \in 0 .. MaxFaults
    BY <2>1 DEF Between
  <2> QED
    BY <1>0, <2>2, Types, NoCallType DEF Between, StateOK, Pcs, ErrorNames
<1>2. ControlSound'
  BY <1>0 DEF Between, ControlSound, Formatting, Rooting, Creating
<1>3. AckedSound'
  BY <1>0 DEF Between, AckedSound
<1>4. RootIntact' /\ EntriesSound' /\ Files' = Files
  BY <1>0, Views, ViewsNext DEF Between
<1>5. RootSound' /\ CreateSound'
  BY <1>4 DEF Between, RootSound, CreateSound, Creating
<1>6. AckedFilesSurvive'
  BY <1>4 DEF Between, FsInv, AckedFilesSurvive
<1>7. LeakBound'
  <2>1. Leaked' = Leaked
    BY <1>4 DEF Between, Leaked, Reserved
  <2>2. faults \in Nat
    BY <1>0, LayoutFacts DEF TypeOK
  <2>3. Leaked \subseteq 0 .. MapBits - 1
    BY <1>0 DEF Leaked, TypeOK
  <2>3a. IsFiniteSet(0 .. MapBits - 1)
    BY LayoutFacts, FS_Interval
  <2>4. Cardinality(Leaked) \in Nat
    BY <2>3, <2>3a, FS_Subset, FS_CardinalityType
  <2>5. faults' = faults \/ faults' = faults + 1
    BY DEF Between
  <2>6. ASSUME rooted' PROVE Cardinality(Leaked) <= faults'
    <3>1. Cardinality(Leaked) <= faults
      BY <2>6 DEF FsInv, LeakBound, Between
    <3> QED
      BY <2>2, <2>4, <2>5, <3>1
  <2> QED
    BY <2>1, <2>6 DEF LeakBound
<1> QED
  BY <1>1, <1>2, <1>3, <1>4, <1>5, <1>6, <1>7 DEF FsInv, DiskInv

(* The self test, and the power switch.                                    *)
LEMMA SelfTestFacts ==
  ASSUME BootInv, NEW next, NEW contents, contents \in {super, NoSuper},
         stage \in SelfTesting, SelfTest(next, contents)
  PROVE  /\ Between /\ fs' = NoFs
         /\ \/ stage' = next /\ super' = contents /\ faults' = faults
            \/ stage' = "panic" /\ faults' = faults + 1
<1>1. pc = "idle" /\ fs = NoFs /\ ~fresh
  BY DEF BootInv, EarlySound
<1>2. fresh' = FALSE
  BY <1>1 DEF SelfTest, BootInv, FsInv, DiskInv, TypeOK
<1>3. faults' \in {faults, faults + 1} /\ faults' <= MaxFaults
  <2>1. faults \in Nat /\ faults <= MaxFaults /\ MaxFaults \in Nat
    BY LayoutFacts DEF BootInv, FsInv, DiskInv, TypeOK
  <2>2. faults' = faults \/ (faults < MaxFaults /\ faults' = faults + 1)
    BY DEF SelfTest
  <2> QED
    BY <2>1, <2>2
<1>4. super' \in {super, NoSuper}
  BY DEF SelfTest
<1> QED
  BY <1>1, <1>2, <1>3, <1>4 DEF SelfTest, Between

LEMMA PowerCycleFacts ==
  ASSUME BootInv, PowerCycle
  PROVE  Between /\ fs' = NoFs /\ stage' = "read" /\ faults' = faults
<1>1. pc = "idle"
  BY DEF BootInv, HaltSound, PowerCycle
<1>2. faults <= MaxFaults
  BY LayoutFacts DEF BootInv, FsInv, DiskInv, TypeOK
<1> QED
  BY <1>1, <1>2 DEF PowerCycle, Between, Restarted, disk

(* What the steps of kernel_main are to the file system.                   *)
LEMMA BootStepKinds ==
  ASSUME BootInv, BootNext
  PROVE  Next \/ Between
<1>1. CASE ReadBlock0 \/ WriteBlock0 \/ ReadBack
  BY <1>1, SelfTestFacts DEF ReadBlock0, WriteBlock0, ReadBack, SelfTesting
<1>2. CASE MountOrFormat \/ FormatDisk \/ InitRoot \/ FirstCreate \/ SecondCreate \/ Reset
  BY <1>2, KernelBootAssumption DEF MountOrFormat, FormatDisk, InitRoot, FirstCreate,
     SecondCreate, CreateHello, Reset, Next
<1>3. CASE PowerCycle
  BY <1>3, PowerCycleFacts
<1> QED
  BY <1>1, <1>2, <1>3 DEF BootNext, KernelStep

LEMMA BootKeepsFs ==
  ASSUME BootInv, BitmapFits, BootNext
  PROVE  FsInv'
<1>1. FsInv
  BY DEF BootInv
<1> QED
  BY <1>1, BootStepKinds, BetweenKeeps, FsInvNext

-----------------------------------------------------------------------------
(* The steps up to the format.                                             *)
LEMMA EarlySteps ==
  ASSUME BootInv, BitmapFits,
         ReadBlock0 \/ WriteBlock0 \/ ReadBack \/ MountOrFormat \/ Reset \/ PowerCycle
  PROVE  /\ EarlySound' /\ InitSound' /\ FirstSound' /\ SecondSound' /\ HaltSound'
<1>0. faults \in Nat
  BY LayoutFacts DEF BootInv, FsInv, DiskInv, TypeOK
<1>a. stage \in SelfTesting => pc = "idle" /\ fs = NoFs /\ ~fresh
  BY DEF BootInv, EarlySound
<1> DEFINE Early == /\ pc' = "idle" /\ fs' = NoFs /\ fresh' = FALSE
                    /\ stage' \in SelfTesting \union {"format"}
                    /\ stage' \in {"readback", "mount"} => super' = NoSuper
           Halted == pc' = "idle" /\ stage' = "panic" /\ faults' = faults + 1
<1>1. ASSUME Early \/ Halted
      PROVE  /\ EarlySound' /\ InitSound' /\ FirstSound' /\ SecondSound' /\ HaltSound'
  <2>1. CASE Early
    <3>1. stage' \notin {"init", "create", "again", "tasks", "panic"}
      BY <2>1 DEF SelfTesting
    <3>2. EarlySound'
      BY <2>1 DEF EarlySound, SelfTesting, Stages
    <3>3. InitSound' /\ FirstSound'
      BY <3>1 DEF InitSound, FirstSound
    <3>4. SecondSound'
      BY <3>1 DEF SecondSound
    <3>5. HaltSound'
      BY <3>1 DEF HaltSound
    <3> QED
      BY <3>2, <3>3, <3>4, <3>5
  <2>2. CASE Halted
    <3>1. faults' > 0
      BY <1>0, <2>2
    <3> QED
      BY <2>2, <3>1 DEF EarlySound, InitSound, FirstSound, SecondSound, HaltSound,
         SelfTesting, Stages
  <2> QED
    BY <1>1, <2>1, <2>2
<1>2. CASE ReadBlock0
  <2>1. stage \in SelfTesting /\ SelfTest("write", super)
    BY <1>2 DEF ReadBlock0, SelfTesting
  <2>2. /\ Between /\ fs' = NoFs
        /\ stage' = "write" \/ (stage' = "panic" /\ faults' = faults + 1)
    BY <2>1, SelfTestFacts
  <2> QED
    BY <1>1, <2>2 DEF Between, SelfTesting
<1>3. CASE WriteBlock0
  <2>1. stage \in SelfTesting /\ SelfTest("readback", NoSuper)
    BY <1>3 DEF WriteBlock0, SelfTesting
  <2>2. /\ Between /\ fs' = NoFs
        /\ \/ stage' = "readback" /\ super' = NoSuper
           \/ stage' = "panic" /\ faults' = faults + 1
    BY <2>1, SelfTestFacts
  <2> QED
    BY <1>1, <2>2 DEF Between, SelfTesting
<1>4. CASE ReadBack
  <2>1. super = NoSuper
    BY <1>4 DEF ReadBack, BootInv, EarlySound
  <2>2. stage \in SelfTesting /\ SelfTest("mount", super)
    BY <1>4 DEF ReadBack, SelfTesting
  <2>3. /\ Between /\ fs' = NoFs
        /\ \/ stage' = "mount" /\ super' = NoSuper
           \/ stage' = "panic" /\ faults' = faults + 1
    BY <2>1, <2>2, SelfTestFacts
  <2> QED
    BY <1>1, <2>3 DEF Between, SelfTesting
<1>5. CASE MountOrFormat
  <2>1. super = NoSuper
    BY <1>5 DEF MountOrFormat, BootInv, EarlySound
  <2>2. fs' = NoFs /\ pc' = "idle" /\ result' = "InvalidSuperBlock" /\ fresh' = FALSE
    BY <1>5, <2>1, LayoutFacts DEF MountOrFormat, Mount, MountFrom, Return
  <2>3. stage' = "format"
    BY <1>5, <2>2 DEF MountOrFormat
  <2> QED
    BY <1>1, <2>2, <2>3
<1>6. CASE Reset
  BY <1>1, <1>6 DEF Reset, Crash, Restarted, SelfTesting
<1>7. CASE PowerCycle
  BY <1>1, <1>7 DEF PowerCycle, Restarted, SelfTesting
<1> QED
  BY <1>2, <1>3, <1>4, <1>5, <1>6, <1>7

-----------------------------------------------------------------------------
(* What a step of kernel_main does to its stage.                           *)
Panics == stage' = "panic" /\ pc' = "idle" /\ faults' = faults + 1

LEMMA FaultsGrow ==
  ASSUME BootInv
  PROVE  faults \in Nat /\ faults + 1 > 0
  BY LayoutFacts DEF BootInv, FsInv, DiskInv, TypeOK

LEMMA PanicsSound ==
  ASSUME BootInv, Panics
  PROVE  EarlySound' /\ InitSound' /\ FirstSound' /\ SecondSound' /\ HaltSound'
<1>1. stage' = "panic" /\ pc' = "idle" /\ faults' > 0
  BY FaultsGrow DEF Panics
<1>2. EarlySound' /\ HaltSound'
  BY <1>1 DEF EarlySound, HaltSound, SelfTesting, Stages
<1>3. InitSound' /\ FirstSound' /\ SecondSound'
  BY <1>1 DEF InitSound, FirstSound, SecondSound
<1> QED
  BY <1>2, <1>3

(* The format.                                                             *)
LEMMA FormatSteps ==
  ASSUME BootInv, FormatDisk
  PROVE  EarlySound' /\ InitSound' /\ FirstSound' /\ SecondSound' /\ HaltSound'
<1>1. \/ stage' = "format" /\ pc' \in Formatting
      \/ stage' = "init" /\ pc' = "idle" /\ fresh' = TRUE /\ dmap' = {}
      \/ Panics
  <2>1. CASE FormatSuper
    BY <2>1 DEF FormatDisk, FormatSuper, Expect, Continue, DeviceFails, Return, Formatting, Panics
  <2>2. CASE FormatImap
    BY <2>2 DEF FormatDisk, FormatImap, Expect, Continue, DeviceFails, Return, Formatting, Panics
  <2>3. CASE FormatDmap
    BY <2>3 DEF FormatDisk, FormatDmap, Expect, Finish, DeviceFails, Return, Panics
  <2> QED
    BY <2>1, <2>2, <2>3 DEF FormatDisk
<1>2. CASE stage' = "format" /\ pc' \in Formatting
  <2>1. EarlySound' /\ HaltSound'
    BY <1>2 DEF EarlySound, HaltSound, SelfTesting, Stages
  <2>2. InitSound' /\ FirstSound' /\ SecondSound'
    BY <1>2 DEF InitSound, FirstSound, SecondSound
  <2> QED
    BY <2>1, <2>2
<1>3. CASE stage' = "init" /\ pc' = "idle" /\ fresh' = TRUE /\ dmap' = {}
  <2>1. EarlySound' /\ HaltSound'
    BY <1>3 DEF EarlySound, HaltSound, SelfTesting, Stages
  <2>2. InitSound' /\ FirstSound' /\ SecondSound'
    BY <1>3 DEF InitSound, FirstSound, SecondSound
  <2> QED
    BY <2>1, <2>2
<1> QED
  BY <1>1, <1>2, <1>3, PanicsSound

(* The first bits of small bitmaps.                                        *)
LEMMA MinIs ==
  ASSUME NEW S \in SUBSET Nat, NEW m \in S, \A y \in S : m <= y
  PROVE  Min(S) = m
<1>1. \A x \in S : (\A y \in S : x <= y) => x = m
  <2> SUFFICES ASSUME NEW x \in S, \A y \in S : x <= y PROVE x = m
    OBVIOUS
  <2>1. x <= m /\ m <= x /\ x \in Nat /\ m \in Nat
    OBVIOUS
  <2> QED
    BY <2>1
<1> QED
  BY <1>1 DEF Min

LEMMA FirstBits ==
  /\ FreeBits({}) # {} /\ FirstFree({}) = 0
  /\ MapBits >= 2 => FreeBits({0}) # {} /\ FirstFree({0}) = 1
<1>1. MapBits \in Nat \ {0}
  BY LayoutFacts
<1>2. FreeBits({}) \in SUBSET Nat /\ 0 \in FreeBits({}) /\ \A y \in FreeBits({}) : 0 <= y
  BY <1>1 DEF FreeBits
<1>3. FirstFree({}) = 0
  BY <1>2, MinIs DEF FirstFree
<1>4. ASSUME MapBits >= 2
      PROVE  FreeBits({0}) # {} /\ FirstFree({0}) = 1
  <2>1. FreeBits({0}) \in SUBSET Nat /\ 1 \in FreeBits({0}) /\ \A y \in FreeBits({0}) : 1 <= y
    BY <1>1, <1>4 DEF FreeBits
  <2> QED
    BY <2>1, MinIs DEF FirstFree
<1> QED
  BY <1>2, <1>3, <1>4

(* init_root_directory.                                                    *)
LEMMA InitSteps ==
  ASSUME BootInv, BitmapFits, InitRoot
  PROVE  EarlySound' /\ InitSound' /\ FirstSound' /\ SecondSound' /\ HaltSound'
<1>0. /\ stage = "init" /\ fresh
      /\ pc \in {"idle", "root_dmap"} => dmap = {}
      /\ pc \in {"root_inode", "root_dir"} => call.block \in Blocks
  BY DEF BootInv, InitSound, InitRoot
<1>a. TypeOK /\ ControlSound
  BY DEF BootInv, FsInv, DiskInv
<1>1. ASSUME stage' = "init", pc' \in Rooting, fresh' = fresh,
             pc' = "root_dmap" => dmap' = {},
             pc' \in {"root_inode", "root_dir"} => call'.block \in Blocks
      PROVE  EarlySound' /\ InitSound' /\ FirstSound' /\ SecondSound' /\ HaltSound'
  <2>1. EarlySound' /\ HaltSound'
    BY <1>1 DEF EarlySound, HaltSound, SelfTesting, Stages
  <2>2. InitSound'
    <3>1. pc' # "idle"
      BY <1>1 DEF Rooting
    <3> QED
      BY <1>0, <1>1, <3>1 DEF InitSound
  <2>3. FirstSound' /\ SecondSound'
    BY <1>1 DEF FirstSound, SecondSound
  <2> QED
    BY <2>1, <2>2, <2>3
<1>2. CASE RootImap
  <2>1. Panics \/ (stage' = "init" /\ pc' = "root_dmap" /\ UNCHANGED <<fresh, dmap>> /\ pc = "idle")
    BY <1>2 DEF InitRoot, RootImap, Expect, Continue, DeviceFails, Return, Panics
  <2> QED
    BY <1>0, <1>1, <2>1, PanicsSound DEF Rooting
<1>3. CASE RootDmap
  <2>1. dmap = {} /\ fs = SuperBlock
    BY <1>0, <1>3, <1>a DEF RootDmap, ControlSound
  <2>2. \/ Panics
        \/ /\ stage' = "init" /\ pc' = "root_inode" /\ fresh' = fresh
           /\ call' = [call EXCEPT !.block = SuperBlock.data_block_start + FirstFree({})]
    BY <1>3, <2>1, FirstBits DEF InitRoot, RootDmap, Expect, Continue, DeviceFails, Finish,
         Return, Panics
  <2>3. call' = [call EXCEPT !.block = SuperBlock.data_block_start + FirstFree({})]
          => call'.block \in Blocks
    <3>1. SuperBlock.data_block_start + FirstFree({}) \in Blocks
      BY FirstBits, LayoutFacts
    <3> QED
      BY <1>a, <3>1, Types DEF StateOK, Calls
  <2> QED
    BY <1>1, <2>2, <2>3, PanicsSound DEF Rooting
<1>4. CASE RootInode
  <2>1. \/ Panics
        \/ stage' = "init" /\ pc' = "root_dir" /\ UNCHANGED <<fresh, call>> /\ pc = "root_inode"
    BY <1>4 DEF InitRoot, RootInode, Expect, Continue, DeviceFails, Return, Panics
  <2> QED
    BY <1>0, <1>1, <2>1, PanicsSound DEF Rooting
<1>5. CASE RootDir
  <2>1. call.block \in Blocks
    BY <1>0, <1>5 DEF RootDir
  <2>2. Panics \/ (stage' = "create" /\ rooted' = TRUE /\ pc' = "idle" /\ imap' = imap)
    BY <1>5, <2>1 DEF InitRoot, RootDir, Expect, DeviceFails, Finish, Return, Panics
  <2>3. CASE stage' = "create" /\ rooted' = TRUE /\ pc' = "idle" /\ imap' = imap
    <3>1. FsInv /\ Next /\ ~rooted /\ pc = "root_dir"
      BY <1>0, <1>5, <1>a DEF BootInv, Next, ControlSound, RootDir
    <3>2. Founded
      BY <2>3, <3>1, DirectorySteps DEF Same, Added
    <3>3. Files' = {} /\ imap' = {0} /\ acked' = {}
      BY <3>1, <3>2, FoundedFacts, ViewsNext DEF Founded
    <3>4. EarlySound' /\ HaltSound'
      BY <2>3 DEF EarlySound, HaltSound, SelfTesting, Stages
    <3>5. InitSound' /\ SecondSound'
      BY <2>3 DEF InitSound, SecondSound
    <3>6. FirstSound'
      BY <2>3, <3>3 DEF FirstSound, Creating
    <3> QED
      BY <3>4, <3>5, <3>6
  <2> QED
    BY <2>2, <2>3, PanicsSound
<1> QED
  BY <1>2, <1>3, <1>4, <1>5 DEF InitRoot

-----------------------------------------------------------------------------
(* What create_file finds in a complete root directory.                    *)
LEMMA CheckOutcome ==
  ASSUME FsInv, rooted, NEW n \in Names \ BadNames
  PROVE  /\ n \in EntryNames(RootIn(blk)) => CreateCheck(n) = "Corrupt"
         /\ n \notin EntryNames(RootIn(blk)) /\ UnusedSlots(RootIn(blk)) # {}
              => CreateCheck(n) = "Ok"
<1> DEFINE root == InodePointer(0)
           mode == InodeMode(0)
<1>1. mode = "Directory" /\ root \in Blocks /\ blk[root] = RootIn(blk)
  BY RootedFacts, Views DEF RootOK, RootIn
<1>2. root # 0
  BY <1>1, LayoutFacts
<1> HIDE DEF root, mode
<1>3. CASE n \in EntryNames(blk[root])
  BY <1>1, <1>2, <1>3 DEF CreateCheck, ROOT_DIRECTORY_INODE, root, mode
<1>4. CASE n \notin EntryNames(blk[root])
  BY <1>1, <1>2, <1>4 DEF CreateCheck, ROOT_DIRECTORY_INODE, root, mode
<1> QED
  BY <1>1, <1>3, <1>4

(* An empty directory has "." and "..", and room.                          *)
LEMMA EmptyRoot ==
  ASSUME FsInv, RoomForHello, rooted, FilesIn(RootIn(blk)) = {}
  PROVE  CreateCheck(hello) = "Ok"
<1> DEFINE d == RootIn(blk)
<1>1. d[0] = Entry(".", 0) /\ d[1] = Entry("..", 0)
  BY RootedFacts DEF RootOK
<1>2. FileCellsIn(d) = {}
  BY DEF FilesIn
<1> HIDE DEF d
<1>3. EntryNames(d) \subseteq {".", ".."}
  <2>1. ASSUME NEW c \in Cells, Used(d[c]) PROVE d[c].name \in {".", ".."}
    <3>1. c \in {0, 1}
      BY <1>2, <2>1 DEF FileCellsIn
    <3>2. Entry(".", 0).name = "." /\ Entry("..", 0).name = ".."
      BY CellFacts
    <3> QED
      BY <1>1, <3>1, <3>2
  <2> QED
    BY <2>1 DEF EntryNames
<1>4. 2 \in UnusedSlots(d)
  <2>1. 2 \in Cells \ {0, 1}
    BY LayoutFacts DEF RoomForHello, Cells, DIR_ENTRIES_PER_BLOCK
  <2> QED
    BY <1>2, <2>1 DEF FileCellsIn, UnusedSlots
<1> QED
  BY <1>3, <1>4, CheckOutcome, KernelBootAssumption DEF d

(* The first create_file comes to nothing, which takes a fault.            *)
Misses ==
  /\ stage' = "again" /\ first' # "Ok" /\ pc' = "idle" /\ rooted' = rooted
  /\ faults' = faults + 1

(* It goes on.                                                             *)
Proceeds ==
  /\ stage' = "create" /\ pc' \in Creating /\ UNCHANGED <<rooted, acked>>
  /\ Files' = {} /\ call'.name = hello
  /\ pc' = "create_imap" => imap' = {0}
  /\ pc' \in {"create_inode", "create_dir"} => imap' = {0, 1} /\ call'.inode = 1

(* It succeeds.                                                            *)
Succeeds ==
  /\ stage' = "again" /\ first' = "Ok" /\ pc' = "idle" /\ rooted' = rooted
  /\ acked' = {<<hello, 1>>} /\ Files' = {<<hello, 1>>}

LEMMA FirstOutcomes ==
  ASSUME BootInv, BitmapFits, RoomForHello, FirstCreate
  PROVE  Misses \/ Proceeds \/ Succeeds
<1>0. /\ stage = "create" /\ rooted /\ acked = {} /\ Files = {}
      /\ pc \in {"idle", "create_imap"} => imap = {0}
      /\ pc \in {"create_inode", "create_dir"} => imap = {0, 1} /\ call.inode = 1
      /\ pc \in Creating => call.name = hello
  BY DEF BootInv, FirstSound, FirstCreate
<1>a. FsInv /\ TypeOK /\ FilesIn(RootIn(blk)) = {}
  BY <1>0, Views DEF BootInv, FsInv, DiskInv
<1>b. CreateHello /\ IF pc' = "idle" THEN stage' = "again" /\ first' = result'
                                     ELSE UNCHANGED <<stage, first>>
  BY DEF FirstCreate
<1>c. Next
  BY <1>b, KernelBootAssumption DEF CreateHello, Next
<1>1. CASE CreateBegin(hello)
  <2>1. CreateCheck(hello) = "Ok"
    BY <1>0, <1>a, EmptyRoot
  <2>2. /\ UNCHANGED <<imap, blk, rooted, acked>> /\ pc = "idle"
        /\ \/ pc' = "create_imap" /\ call'.name = hello
           \/ pc' = "idle" /\ result' = "CreationFailed" /\ faults' = faults + 1
    BY <1>1, <2>1 DEF CreateBegin, disk, Continue, DeviceFails, Return
  <2>3. Files' = {}
    BY <1>a, <2>2, ViewsNext
  <2>4. CASE pc' = "create_imap" /\ call'.name = hello
    <3>1. stage' = "create"
      BY <1>0, <1>b, <2>4
    <3> QED
      BY <1>0, <2>2, <2>3, <2>4, <3>1 DEF Proceeds, Creating
  <2>5. CASE pc' = "idle" /\ result' = "CreationFailed" /\ faults' = faults + 1
    BY <1>b, <2>2, <2>5 DEF Misses
  <2> QED
    BY <2>2, <2>4, <2>5
<1>2. CASE CreateImap
  <2>1. pc = "create_imap" /\ imap = {0} /\ FreeBits(imap) # {} /\ FirstFree(imap) = 1
    BY <1>0, <1>2, FirstBits DEF CreateImap, RoomForHello
  <2>2. /\ UNCHANGED <<blk, rooted, acked>>
        /\ \/ /\ pc' = "create_inode" /\ imap' = {0, 1}
              /\ call' = [call EXCEPT !.inode = 1]
           \/ pc' = "idle" /\ result' = "CreationFailed" /\ faults' = faults + 1
    BY <1>2, <2>1 DEF CreateImap, Continue, DeviceFails, Return, Finish
  <2>3. Files' = {}
    BY <1>a, <2>2, ViewsNext
  <2>4. CASE pc' = "create_inode" /\ imap' = {0, 1} /\ call' = [call EXCEPT !.inode = 1]
    <3>1. call \in Calls
      BY <1>a, Types DEF StateOK
    <3>2. call'.inode = 1 /\ call'.name = call.name
      BY <2>4, <3>1 DEF Calls
    <3>3. call.name = hello
      BY <1>0, <2>1 DEF Creating
    <3>4. stage' = "create"
      BY <1>0, <1>b, <2>4
    <3> QED
      BY <2>2, <2>3, <2>4, <3>2, <3>3, <3>4 DEF Proceeds, Creating
  <2>5. CASE pc' = "idle" /\ result' = "CreationFailed" /\ faults' = faults + 1
    BY <1>b, <2>2, <2>5 DEF Misses
  <2> QED
    BY <2>2, <2>4, <2>5
<1>3. CASE CreateInode
  <2>1. InodeBlock(call.inode) \in Blocks
    BY <1>a, CallFacts, InodeInTable
  <2>2. /\ pc = "create_inode" /\ UNCHANGED <<imap, rooted, acked>>
        /\ \/ pc' = "create_dir" /\ call' = call
           \/ pc' = "idle" /\ result' = "CreationFailed" /\ faults' = faults + 1
    BY <1>3, <2>1 DEF CreateInode, Continue, DeviceFails, Return
  <2>3. Files' = {}
    <3>1. Same
      BY <1>0, <1>a, <1>c, <2>2, DirectorySteps DEF Added, Founded
    <3> QED
      BY <1>a, <3>1, ViewsNext DEF Same
  <2>4. CASE pc' = "create_dir" /\ call' = call
    <3>1. call.name = hello /\ imap = {0, 1} /\ call.inode = 1
      BY <1>0, <2>2 DEF Creating
    <3>2. stage' = "create"
      BY <1>0, <1>b, <2>4
    <3> QED
      BY <2>2, <2>3, <2>4, <3>1, <3>2 DEF Proceeds, Creating
  <2>5. CASE pc' = "idle" /\ result' = "CreationFailed" /\ faults' = faults + 1
    BY <1>b, <2>2, <2>5 DEF Misses
  <2> QED
    BY <2>2, <2>4, <2>5
<1>4. CASE CreateDir
  <2>1. pc = "create_dir" /\ call.name = hello /\ call.inode = 1
    BY <1>0, <1>4 DEF CreateDir, Creating
  <2>2. /\ pc' = "idle" /\ UNCHANGED <<imap, dmap, rooted>>
        /\ \/ /\ blk' = EntryWritten /\ result' = "Ok" /\ faults' = faults
              /\ acked' = acked \union {<<call.name, call.inode>>}
           \/ result' = "CreationFailed" /\ faults' = faults + 1
    BY <1>4 DEF CreateDir, EntryWritten, DeviceFails, Return, Finish
  <2>3. stage' = "again" /\ first' = result'
    BY <1>b, <2>2
  <2>4. CASE /\ blk' = EntryWritten /\ result' = "Ok" /\ faults' = faults
             /\ acked' = acked \union {<<call.name, call.inode>>}
    <3>1. Added
      BY <1>0, <2>1, <2>2, <2>4 DEF Added
    <3>2. Files' = {<<hello, 1>>}
      BY <1>a, <2>1, <3>1, AddedFacts, ViewsNext
    <3> QED
      BY <1>0, <2>1, <2>2, <2>3, <2>4, <3>2 DEF Succeeds
  <2>5. CASE result' = "CreationFailed" /\ faults' = faults + 1
    BY <2>2, <2>3, <2>5 DEF Misses
  <2> QED
    BY <2>2, <2>4, <2>5
<1> QED
  BY <1>1, <1>2, <1>3, <1>4, <1>b DEF CreateHello

LEMMA FirstSteps ==
  ASSUME BootInv, BitmapFits, RoomForHello, FirstCreate
  PROVE  EarlySound' /\ InitSound' /\ FirstSound' /\ SecondSound' /\ HaltSound'
<1>0. rooted /\ acked = {}
  BY DEF BootInv, FirstSound, FirstCreate
<1>1. CASE Proceeds
  <2>1. EarlySound' /\ HaltSound'
    BY <1>1 DEF Proceeds, EarlySound, HaltSound, SelfTesting, Stages
  <2>2. InitSound' /\ SecondSound'
    BY <1>1 DEF Proceeds, InitSound, SecondSound
  <2>3. FirstSound'
    BY <1>0, <1>1 DEF Proceeds, FirstSound, Creating
  <2> QED
    BY <2>1, <2>2, <2>3
<1>2. CASE Misses \/ Succeeds
  <2>1. stage' = "again"
    BY <1>2 DEF Misses, Succeeds
  <2>2. EarlySound' /\ HaltSound'
    BY <2>1 DEF EarlySound, HaltSound, SelfTesting, Stages
  <2>3. InitSound' /\ FirstSound'
    BY <2>1 DEF InitSound, FirstSound
  <2>4. SecondSound'
    <3>1. CASE Misses
      <4>1. faults' > 0
        BY <3>1, FaultsGrow DEF Misses
      <4> QED
        BY <1>0, <2>1, <3>1, <4>1 DEF Misses, SecondSound
    <3>2. CASE Succeeds
      BY <1>0, <2>1, <3>2 DEF Succeeds, SecondSound
    <3> QED
      BY <1>2, <3>1, <3>2
  <2> QED
    BY <2>2, <2>3, <2>4
<1> QED
  BY <1>1, <1>2, FirstOutcomes

(* The second create_file.                                                 *)
LEMMA SecondSteps ==
  ASSUME BootInv, SecondCreate
  PROVE  EarlySound' /\ InitSound' /\ FirstSound' /\ SecondSound' /\ HaltSound'
<1>0. /\ stage = "again" /\ rooted /\ FsInv
      /\ first = "Ok" => acked = {<<hello, 1>>} /\ Files = acked /\ pc = "idle"
      /\ first # "Ok" => faults > 0
  BY DEF BootInv, SecondSound, SecondCreate
<1>1. /\ CreateHello /\ first' = first
      /\ IF pc' = "idle" THEN stage' = "tasks" /\ second' = result'
                         ELSE UNCHANGED <<stage, second>>
  BY DEF SecondCreate
<1>2. rooted' = rooted /\ faults' \in {faults, faults + 1}
  BY <1>1 DEF CreateHello, CreateBegin, CreateImap, CreateInode, CreateDir, Continue,
     DeviceFails, Finish, Return
<1>3. stage' \in {"again", "tasks"} /\ (stage' = "tasks" => pc' = "idle")
  BY <1>0, <1>1
<1>4. EarlySound' /\ HaltSound'
  BY <1>3 DEF EarlySound, HaltSound, SelfTesting, Stages
<1>5. InitSound' /\ FirstSound'
  BY <1>3 DEF InitSound, FirstSound
<1>6. CASE first = "Ok"
  <2>1. CreateBegin(hello)
    BY <1>0, <1>1, <1>6 DEF CreateHello, CreateImap, CreateInode, CreateDir
  <2>2. CreateCheck(hello) = "Corrupt"
    <3>1. <<hello, 1>> \in FilesIn(RootIn(blk))
      BY <1>0, <1>6, Views
    <3>2. PICK c \in FileCellsIn(RootIn(blk)) :
            <<hello, 1>> = <<RootIn(blk)[c].name, RootIn(blk)[c].inode>>
      BY <3>1 DEF FilesIn
    <3>3. hello = RootIn(blk)[c].name /\ c \in Cells /\ Used(RootIn(blk)[c])
      BY <3>2 DEF FileCellsIn
    <3>4. hello \in EntryNames(RootIn(blk))
      BY <3>3 DEF EntryNames
    <3> QED
      BY <1>0, <3>4, CheckOutcome, KernelBootAssumption
  <2>3. pc' = "idle" /\ result' \in {"Corrupt", "CreationFailed"} /\ UNCHANGED <<blk, acked>>
    BY <2>1, <2>2 DEF CreateBegin, disk, Continue, DeviceFails, Finish, Return
  <2>4. Files' = Files
    BY <2>3, Views, ViewsNext
  <2>5. second' # "Ok"
    BY <1>1, <2>3
  <2> QED
    BY <1>0, <1>1, <1>2, <1>4, <1>5, <1>6, <2>3, <2>4, <2>5 DEF SecondSound
<1>7. CASE first # "Ok"
  <2>1. faults' > 0
    BY <1>0, <1>2, <1>7, FaultsGrow
  <2>2. SecondSound'
    BY <1>0, <1>1, <1>2, <1>7, <2>1 DEF SecondSound
  <2> QED
    BY <1>4, <1>5, <2>2
<1> QED
  BY <1>6, <1>7

-----------------------------------------------------------------------------
LEMMA BootInvInit == BootInit => BootInv
<1> SUFFICES ASSUME BootInit PROVE BootInv
  OBVIOUS
<1>1. FsInv
  BY FsInvInit DEF BootInit
<1>2. stage = "read" /\ pc = "idle" /\ fs = NoFs /\ ~fresh
  BY DEF BootInit, Init
<1>3. EarlySound /\ HaltSound
  BY <1>2 DEF EarlySound, HaltSound, SelfTesting, Stages
<1>4. InitSound /\ FirstSound /\ SecondSound
  BY <1>2 DEF InitSound, FirstSound, SecondSound
<1> QED
  BY <1>1, <1>3, <1>4 DEF BootInv

LEMMA BootInvNext ==
  ASSUME BitmapFits, RoomForHello
  PROVE  BootInv /\ [BootNext]_bootVars => BootInv'
<1> SUFFICES ASSUME BootInv, [BootNext]_bootVars PROVE BootInv'
  OBVIOUS
<1>1. CASE BootNext
  <2>1. FsInv'
    BY <1>1, BootKeepsFs
  <2>2. EarlySound' /\ InitSound' /\ FirstSound' /\ SecondSound' /\ HaltSound'
    BY <1>1, EarlySteps, FormatSteps, InitSteps, FirstSteps, SecondSteps DEF BootNext, KernelStep
  <2> QED
    BY <2>1, <2>2 DEF BootInv
<1>2. CASE UNCHANGED bootVars
  <2>1. UNCHANGED fsVars /\ UNCHANGED <<stage, first, second>>
    BY <1>2 DEF bootVars
  <2>2. FsInv'
    BY <2>1, FsInvNext DEF BootInv
  <2>3. UNCHANGED <<super, imap, dmap, blk, fs, fresh, pc, call, rooted, acked, faults>>
    BY <2>1 DEF fsVars, disk
  <2>4. Files' = Files
    BY <2>3, Views, ViewsNext
  <2>5. EarlySound' /\ InitSound' /\ HaltSound'
    BY <2>1, <2>3 DEF BootInv, EarlySound, InitSound, HaltSound
  <2>6. FirstSound' /\ SecondSound'
    BY <2>1, <2>3, <2>4 DEF BootInv, FirstSound, SecondSound
  <2> QED
    BY <2>2, <2>5, <2>6 DEF BootInv
<1> QED
  BY <1>1, <1>2

(***************************************************************************)
(* On a device whose inode bitmap fits its table, with room for a file,    *)
(* kernel_main panics only after a fault, a boot without faults leaves     *)
(* hello.txt as the only file, and no boot creates it twice.               *)
(***************************************************************************)
THEOREM EveryBootCreatesHello ==
  ASSUME BitmapFits, RoomForHello
  PROVE  BootSpec => []HelloAfterBoot
<1>1. BootInv => HelloAfterBoot
  <2> SUFFICES ASSUME BootInv PROVE HelloAfterBoot
    OBVIOUS
  <2>1. faults \in Nat
    BY FaultsGrow
  <2>2. stage = "panic" => faults > 0
    BY DEF BootInv, HaltSound
  <2>3. stage = "tasks" =>
          /\ first = "Ok" => acked = {<<hello, 1>>} /\ Files = acked /\ second # "Ok"
          /\ first # "Ok" => faults > 0
    BY DEF BootInv, SecondSound
  <2> QED
    BY <2>1, <2>2, <2>3 DEF HelloAfterBoot
<1> QED
  BY <1>1, BootInvInit, BootInvNext, PTL DEF BootSpec
=============================================================================
