--------------------------- MODULE SimpleFs_proofs ---------------------------
(***************************************************************************)
(* Proofs about the modules SimpleFs and, at the end, RootDirEntries, for  *)
(* every capacity of the device, every size of blocks and bitmaps and      *)
(* every number of crashes and failed device calls.                        *)
(***************************************************************************)
EXTENDS RootDirEntries, FiniteSetTheorems, WellFoundedInduction, TLAPS

Formatting == {"format_imap", "format_dmap"}
Rooting    == {"root_dmap", "root_inode", "root_dir"}
Creating   == {"create_imap", "create_inode", "create_dir"}

(***************************************************************************)
(* Who runs when: format without a handle, init_root_directory with a      *)
(* fresh one and create_file with one that is not fresh.  From the first   *)
(* write of a format to the end of init_root_directory there are no files, *)
(* and of the inodes only the root can be allocated.                       *)
(***************************************************************************)
ControlSound ==
  /\ pc \in Formatting => ~rooted /\ acked = {} /\ fs = NoFs /\ ~fresh
  /\ pc = "format_dmap" => imap = {}
  /\ fresh => ~rooted /\ acked = {} /\ fs = SuperBlock /\ imap \subseteq {0}
  /\ pc \in Rooting => fresh /\ 0 \in imap
  /\ pc \in Creating => ~fresh /\ fs # NoFs /\ call.name \in Names
  /\ rooted => 0 \in imap

(* The inodes of acknowledged files stay allocated, so that no other file  *)
(* gets them.                                                              *)
AckedSound ==
  /\ \A f \in acked : f[2] \in imap /\ InodeBlock(f[2]) \in Blocks
  /\ \A f, g \in acked : f # g => f[2] # g[2]
  /\ rooted => \A f \in acked : f[2] # 0
  /\ pc \in {"create_inode", "create_dir"} =>
       /\ call.inode \in imap /\ \A f \in acked : f[2] # call.inode
       /\ rooted => call.inode # 0
  /\ pc = "create_dir" => InodeBlock(call.inode) \in Blocks

DiskInv == TypeOK /\ ControlSound /\ AckedSound

(***************************************************************************)
(* Bitmap::find_and_set_first_free leaves it to its callers that a bitmap  *)
(* is not longer than what it stands for.  format does not see to it; this *)
(* says that the device is large enough for the inode bitmap.              *)
(***************************************************************************)
BitmapFits == MapBits <= SuperBlock.inode_count

(* init_root_directory on its way, and the root when it is complete.       *)
RootSound ==
  /\ pc \in {"root_inode", "root_dir"} =>
       /\ call.block >= SuperBlock.data_block_start
       /\ call.block - SuperBlock.data_block_start \in dmap
  /\ pc = "root_dir" => InodeMode(0) = "Directory" /\ InodePointer(0) = call.block
  /\ RootIntact

(* The copy of the directory block that create_file holds is not stale,    *)
(* and the inode it has allocated is no file's.                            *)
CreateSound ==
  rooted /\ pc \in Creating =>
    /\ call.block = InodePointer(0) /\ call.buf = RootBlock
    /\ call.slot \in UnusedSlots(RootBlock)
    /\ call.name \notin EntryNames(RootBlock) /\ call.name \in Names
    /\ pc # "create_imap" => \A f \in Files : f[2] # call.inode
    /\ pc = "create_dir" => InodeMode(call.inode) = "File"

FsInv ==
  /\ DiskInv /\ RootSound /\ CreateSound
  /\ EntriesSound /\ AckedFilesSurvive /\ LeakBound

-----------------------------------------------------------------------------
(* Quotient and remainder.                                                 *)
LEMMA DivMod ==
  ASSUME NEW m \in Nat, NEW n \in Nat \ {0}
  PROVE  /\ m \div n \in Nat /\ m % n \in 0 .. n - 1 /\ m % n \in Nat
         /\ m = n * (m \div n) + (m % n)
  OBVIOUS

(* A set of numbers that is not empty has a least element.                 *)
LEMMA MinInSet ==
  ASSUME NEW S \in SUBSET Nat, S # {}
  PROVE  Min(S) \in S
<1> DEFINE R == {p \in Nat \X Nat : p[1] < p[2]}
<1>1. IsWellFoundedOn(R, Nat)
  BY NatLessThanWellFounded DEF OpToRel
<1>2. PICK x \in S : \A y \in S : ~ (<<y, x>> \in R)
  BY <1>1, WFMin
<1>3. ASSUME NEW y \in S PROVE x <= y
  <2>1. x \in Nat /\ y \in Nat /\ ~ (<<y, x>> \in R)
    BY <1>2
  <2>2. ~ (y < x)
    BY <2>1
  <2> QED
    BY <2>1, <2>2
<1> QED
  BY <1>3 DEF Min

(* The first free bit of a bitmap.                                         *)
LEMMA FirstFreeFacts ==
  ASSUME NEW map, FreeBits(map) # {}
  PROVE  FirstFree(map) \in 0 .. MapBits - 1 /\ FirstFree(map) \notin map
<1>1. FreeBits(map) \in SUBSET Nat
  BY SimpleFsAssumption DEF FreeBits
<1>2. FirstFree(map) \in FreeBits(map)
  BY <1>1, MinInSet DEF FirstFree
<1> QED
  BY <1>2 DEF FreeBits

(* Where the parts of the disk are.                                        *)
LEMMA LayoutFacts ==
  /\ Capacity \in Nat /\ InodesPerBlock \in Nat \ {0} /\ MapBits \in Nat \ {0}
  /\ MaxFaults \in Nat /\ inode_table_blocks \in Nat
  /\ SuperBlock.data_block_start = 3 + inode_table_blocks
  /\ SuperBlock.data_block_start < Capacity
  /\ SuperBlock.inode_count = inode_table_blocks * InodesPerBlock
  /\ SuperBlock # NoSuper /\ SuperBlock # NoFs
  /\ SuperBlock.magic_number = MAGIC_NUMBER /\ NoSuper.magic_number # MAGIC_NUMBER
  /\ Blocks = 3 .. Capacity - 1 /\ 3 \in Blocks
  /\ InodeBlock(0) = 3 /\ LowCell(0) = 0 /\ HighCell(0) = 1
  /\ 0 \in Cells /\ 1 \in Cells /\ Cells \subseteq Nat
<1>1. /\ Capacity \in Nat /\ InodesPerBlock \in Nat \ {0} /\ MapBits \in Nat \ {0}
      /\ MaxFaults \in Nat /\ inode_table_blocks \in Nat
      /\ Capacity > 3 + inode_table_blocks
  BY SimpleFsAssumption, DivMod DEF INODE_TABLE_START_BLOCK, inode_table_blocks
<1>2. /\ SuperBlock.data_block_start = 3 + inode_table_blocks
      /\ SuperBlock.inode_count = inode_table_blocks * InodesPerBlock
      /\ SuperBlock.magic_number = MAGIC_NUMBER /\ NoSuper.magic_number # MAGIC_NUMBER
  BY DEF SuperBlock, NoSuper, INODE_TABLE_START_BLOCK, MAGIC_NUMBER
<1>3. SuperBlock # NoSuper /\ SuperBlock # NoFs
  BY <1>2 DEF NoFs
<1>4. Blocks = 3 .. Capacity - 1 /\ 3 \in Blocks
  BY <1>1 DEF Blocks, INODE_TABLE_START_BLOCK
<1>5. 0 \div InodesPerBlock = 0 /\ 0 % InodesPerBlock = 0
  BY <1>1
<1>6. InodeBlock(0) = 3 /\ LowCell(0) = 0 /\ HighCell(0) = 1
  BY <1>5 DEF InodeBlock, LowCell, HighCell, INODE_TABLE_START_BLOCK
<1>7. 0 \in Cells /\ 1 \in Cells /\ Cells \subseteq Nat
  BY <1>1 DEF Cells, DIR_ENTRIES_PER_BLOCK
<1> QED
  BY <1>1, <1>2, <1>3, <1>4, <1>6, <1>7

(* An inode has two cells of its own.                                      *)
LEMMA InodePlace ==
  ASSUME NEW i \in Nat
  PROVE  /\ InodeBlock(i) \in Nat /\ InodeBlock(i) >= 3
         /\ LowCell(i) \in Cells /\ HighCell(i) \in Cells /\ LowCell(i) # HighCell(i)
<1>1. InodesPerBlock \in Nat \ {0}
  BY SimpleFsAssumption
<1>2. i \div InodesPerBlock \in Nat /\ i % InodesPerBlock \in 0 .. InodesPerBlock - 1
  BY <1>1, DivMod
<1> DEFINE q == i \div InodesPerBlock
           r == i % InodesPerBlock
<1> HIDE DEF q, r
<1>3. InodeBlock(i) = 3 + q /\ LowCell(i) = 2 * r /\ HighCell(i) = 2 * r + 1
  BY DEF InodeBlock, LowCell, HighCell, INODE_TABLE_START_BLOCK, q, r
<1>4. q \in Nat /\ r \in 0 .. InodesPerBlock - 1
  BY <1>2 DEF q, r
<1>5. 3 + q \in Nat /\ 3 + q >= 3
  BY <1>4
<1>6. 2 * r \in Cells /\ 2 * r + 1 \in Cells /\ 2 * r # 2 * r + 1
  BY <1>1, <1>4 DEF Cells, DIR_ENTRIES_PER_BLOCK
<1> QED
  BY <1>3, <1>5, <1>6

LEMMA InodesApart ==
  ASSUME NEW i \in Nat, NEW j \in Nat, i # j, InodeBlock(i) = InodeBlock(j)
  PROVE  /\ LowCell(i) # LowCell(j) /\ LowCell(i) # HighCell(j)
         /\ HighCell(i) # LowCell(j) /\ HighCell(i) # HighCell(j)
<1>1. InodesPerBlock \in Nat \ {0}
  BY SimpleFsAssumption
<1> DEFINE q == i \div InodesPerBlock
           r == i % InodesPerBlock
           p == j \div InodesPerBlock
           s == j % InodesPerBlock
<1>2. q \in Nat /\ r \in Nat /\ i = InodesPerBlock * q + r
  BY <1>1, DivMod, Zenon
<1>3. p \in Nat /\ s \in Nat /\ j = InodesPerBlock * p + s
  BY <1>1, DivMod, Zenon
<1> HIDE DEF q, r, p, s
<1>4. q = p
  <2>1. 3 + q = 3 + p
    BY DEF InodeBlock, INODE_TABLE_START_BLOCK, q, p
  <2> QED
    BY <1>2, <1>3, <2>1
<1>5. r # s
  BY <1>2, <1>3, <1>4
<1>6. LowCell(i) = 2 * r /\ HighCell(i) = 2 * r + 1 /\ LowCell(j) = 2 * s /\ HighCell(j) = 2 * s + 1
  BY DEF LowCell, HighCell, r, s
<1>7. 2 * r # 2 * s /\ 2 * r # 2 * s + 1 /\ 2 * r + 1 # 2 * s /\ 2 * r + 1 # 2 * s + 1
  BY <1>2, <1>3, <1>5
<1> QED
  BY <1>6, <1>7

(* If the bitmap fits, every inode of it lies in the table.                *)
LEMMA InodeInTable ==
  ASSUME BitmapFits, NEW i \in 0 .. MapBits - 1
  PROVE  InodeBlock(i) \in Blocks /\ InodeBlock(i) < SuperBlock.data_block_start
<1>1. /\ InodesPerBlock \in Nat \ {0} /\ MapBits \in Nat \ {0} /\ i \in Nat /\ Capacity \in Nat
      /\ inode_table_blocks \in Nat /\ i < inode_table_blocks * InodesPerBlock
  BY LayoutFacts DEF BitmapFits
<1> DEFINE n == InodesPerBlock
           t == inode_table_blocks
           q == i \div n
           r == i % n
<1>2. q \in Nat /\ r \in Nat /\ i = n * q + r
  BY <1>1, DivMod
<1> HIDE DEF n, t, q, r
<1>3. q < t
  <2>1. n \in Nat \ {0} /\ t \in Nat /\ n * q + r < t * n
    BY <1>1, <1>2 DEF n, t
  <2>2. ASSUME q >= t PROVE FALSE
    <3>1. n * q >= n * t
      BY <1>2, <2>1, <2>2
    <3> QED
      BY <1>2, <2>1, <3>1
  <2> QED
    BY <1>2, <2>1, <2>2
<1>4. InodeBlock(i) = 3 + q /\ SuperBlock.data_block_start = 3 + t
  BY LayoutFacts DEF InodeBlock, INODE_TABLE_START_BLOCK, q, t, n
<1>5. 3 + t < Capacity /\ t \in Nat
  BY LayoutFacts DEF t
<1>6. 3 + q \in 3 .. Capacity - 1 /\ 3 + q < 3 + t
  BY <1>1, <1>2, <1>3, <1>5
<1> QED
  BY <1>4, <1>6, LayoutFacts

-----------------------------------------------------------------------------
(* Cells, blocks and inodes.                                               *)
Pointers == 0 .. Capacity + MapBits

LEMMA CellTypes ==
  /\ Zero \in CellValues
  /\ \A m \in {"File", "Directory"} : InodeHigh(m) \in CellValues
  /\ \A d \in Pointers : InodeLow(d) \in CellValues
  /\ \A n \in Names \union {".", ".."}, i \in 0 .. MapBits - 1 : Entry(n, i) \in CellValues
  BY DEF CellValues, Pointers

(* What the code reads in a cell depends on what was written there last.   *)
LEMMA CellFacts ==
  /\ ~Used(Zero)
  /\ \A m : ~Used(InodeHigh(m)) /\ Mode(InodeHigh(m)) = m
  /\ \A d : ~Used(InodeLow(d)) /\ DirectPointer0(InodeLow(d)) = d
  /\ \A n, i : Used(Entry(n, i)) /\ Entry(n, i).name = n /\ Entry(n, i).inode = i
  BY DEF Used, Zero, InodeHigh, InodeLow, Entry, Mode, DirectPointer0

LEMMA CellReads ==
  ASSUME NEW c \in CellValues
  PROVE  /\ Mode(c) \in {"File", "Directory", "invalid", "Unknown"}
         /\ DirectPointer0(c) \in Pointers
         /\ Used(c) => /\ c.name \in Names \union {".", ".."}
                       /\ c.inode \in 0 .. MapBits - 1
<1>1. Capacity \in Pointers /\ 0 \in Pointers
  BY LayoutFacts DEF Pointers
<1>2. CASE c = Zero
  BY <1>1, <1>2 DEF Zero, Mode, DirectPointer0, Used
<1>3. CASE \E m \in {"File", "Directory"} : c = InodeHigh(m)
  BY <1>1, <1>3 DEF InodeHigh, Mode, DirectPointer0, Used
<1>4. CASE \E d \in Pointers : c = InodeLow(d)
  BY <1>1, <1>4 DEF InodeLow, Mode, DirectPointer0, Used
<1>5. CASE \E n \in Names \union {".", ".."}, i \in 0 .. MapBits - 1 : c = Entry(n, i)
  <2>1. PICK n \in Names \union {".", ".."}, i \in 0 .. MapBits - 1 : c = Entry(n, i)
    BY <1>5
  <2>2. c.kind = "entry" /\ c.name = n /\ c.inode = i
    BY <2>1 DEF Entry
  <2> QED
    BY <1>1, <2>2 DEF Mode, DirectPointer0, Used
<1> QED
  BY <1>2, <1>3, <1>4, <1>5 DEF CellValues, Pointers

LEMMA BlockTypes ==
  /\ ZeroBlock \in BlockValues /\ RootDirBlock \in BlockValues
  /\ \A c \in Cells : ZeroBlock[c] = Zero
  /\ RootDirBlock[0] = Entry(".", 0) /\ RootDirBlock[1] = Entry("..", 0)
  /\ \A c \in Cells \ {0, 1} : RootDirBlock[c] = Zero
<1>1. 0 \in Cells /\ 1 \in Cells /\ 0 \in 0 .. MapBits - 1
  BY LayoutFacts
<1>2. Entry(".", 0) \in CellValues /\ Entry("..", 0) \in CellValues
  BY <1>1, CellTypes
<1>3. ZeroBlock \in BlockValues /\ \A c \in Cells : ZeroBlock[c] = Zero
  BY CellTypes DEF ZeroBlock, BlockValues
<1> QED
  BY <1>1, <1>2, <1>3 DEF RootDirBlock, BlockValues

(* write_inode changes the two cells of its inode.                         *)
LEMMA PutInodeFacts ==
  ASSUME NEW b \in BlockValues, NEW i \in Nat, NEW m \in {"File", "Directory"},
         NEW d \in Pointers
  PROVE  /\ PutInode(b, i, m, d) \in BlockValues
         /\ PutInode(b, i, m, d)[LowCell(i)] = InodeLow(d)
         /\ PutInode(b, i, m, d)[HighCell(i)] = InodeHigh(m)
         /\ \A c \in Cells \ {LowCell(i), HighCell(i)} : PutInode(b, i, m, d)[c] = b[c]
<1>1. LowCell(i) \in Cells /\ HighCell(i) \in Cells /\ LowCell(i) # HighCell(i)
  BY InodePlace
<1>2. InodeLow(d) \in CellValues /\ InodeHigh(m) \in CellValues
  BY CellTypes
<1> QED
  BY <1>1, <1>2 DEF PutInode, BlockValues

(* The root inode, of whichever disk.                                      *)
LEMMA RootInodeTypes ==
  ASSUME TypeOK
  PROVE  /\ InodeMode(0) \in {"File", "Directory", "invalid", "Unknown"}
         /\ InodePointer(0) \in Pointers
<1>1. blk[3] \in [Cells -> CellValues] /\ 0 \in Cells /\ 1 \in Cells
  BY LayoutFacts DEF TypeOK, BlockValues
<1>2. blk[3][0] \in CellValues /\ blk[3][1] \in CellValues
  BY <1>1
<1> QED
  BY <1>2, CellReads, LayoutFacts DEF InodeMode, InodePointer

(* When create_file_in_root gets as far as allocating an inode.            *)
LEMMA CreateCheckFacts ==
  ASSUME TypeOK, NEW n \in Names
  PROVE  /\ CreateCheck(n) \in ErrorNames
         /\ CreateCheck(n) = "Ok" =>
              /\ InodePointer(0) \in Blocks
              /\ n \notin EntryNames(blk[InodePointer(0)])
              /\ UnusedSlots(blk[InodePointer(0)]) # {}
<1> DEFINE root == InodePointer(0)
           mode == InodeMode(0)
<1>1. mode \in {"File", "Directory", "invalid", "Unknown"}
  BY RootInodeTypes
<1>2. 0 \notin Blocks
  BY LayoutFacts
<1> HIDE DEF root, mode
<1>3. CASE n \in BadNames
  BY <1>3 DEF CreateCheck, ErrorNames
<1>4. CASE n \notin BadNames /\ mode # "Directory"
  BY <1>1, <1>4 DEF CreateCheck, ErrorNames, ROOT_DIRECTORY_INODE, mode
<1>5. CASE n \notin BadNames /\ mode = "Directory" /\ root \notin Blocks
  BY <1>5 DEF CreateCheck, ErrorNames, ROOT_DIRECTORY_INODE, mode, root
<1>6. CASE n \notin BadNames /\ mode = "Directory" /\ root \in Blocks /\ n \in EntryNames(blk[root])
  BY <1>2, <1>6 DEF CreateCheck, ErrorNames, ROOT_DIRECTORY_INODE, mode, root
<1>7. CASE n \notin BadNames /\ mode = "Directory" /\ root \in Blocks /\ n \notin EntryNames(blk[root])
  BY <1>2, <1>7 DEF CreateCheck, ErrorNames, ROOT_DIRECTORY_INODE, mode, root
<1> QED
  BY <1>3, <1>4, <1>5, <1>6, <1>7

-----------------------------------------------------------------------------
Calls == [name : Names \union {"."}, block : Pointers, buf : BlockValues, slot : Cells,
          inode : 0 .. MapBits - 1]

Pcs == {"idle"} \union Formatting \union Rooting \union Creating

(* A call returns or goes on, and the faults are counted.                  *)
Outcome == pc' \in Pcs /\ result' \in ErrorNames /\ faults' \in 0 .. MaxFaults

LEMMA Outcomes ==
  ASSUME TypeOK
  PROVE  /\ \A r \in ErrorNames : Finish(r) => Outcome
         /\ \A r \in ErrorNames : DeviceFails(r) => Outcome
         /\ \A next \in Pcs : Continue(next) => Outcome
<1>1. faults < MaxFaults /\ faults' = faults + 1 => faults' \in 0 .. MaxFaults
  BY LayoutFacts DEF TypeOK
<1>2. "idle" \in Pcs
  BY DEF Pcs
<1> QED
  BY <1>1, <1>2 DEF TypeOK, Outcome, Finish, DeviceFails, Continue, Return

(* The types, with these abbreviations.                                    *)
StateOK ==
  /\ super \in {NoSuper, SuperBlock}
  /\ imap \in SUBSET (0 .. MapBits - 1) /\ dmap \in SUBSET (0 .. MapBits - 1)
  /\ blk \in [Blocks -> BlockValues]
  /\ fs \in {NoFs, SuperBlock}
  /\ fresh \in BOOLEAN /\ rooted \in BOOLEAN
  /\ pc \in Pcs /\ call \in Calls /\ result \in ErrorNames
  /\ acked \in SUBSET (Names \X (0 .. MapBits - 1))
  /\ faults \in 0 .. MaxFaults

LEMMA Types == (TypeOK <=> StateOK) /\ (TypeOK' <=> StateOK')
<1>1. Pcs = {"idle", "format_imap", "format_dmap", "root_dmap", "root_inode",
             "root_dir", "create_imap", "create_inode", "create_dir"}
  BY DEF Pcs, Formatting, Rooting, Creating
<1> QED
  BY <1>1 DEF TypeOK, StateOK, Calls, Pointers

(* No call at all is a call.                                               *)
LEMMA NoCallType == NoCall \in Calls
<1>1. 0 \in Pointers /\ 0 \in Cells /\ 0 \in 0 .. MapBits - 1
  BY LayoutFacts DEF Pointers
<1> QED
  BY <1>1, BlockTypes DEF NoCall, Calls

(* Every operation keeps the types.                                        *)
LEMMA FormatTypes ==
  ASSUME TypeOK, Mount \/ FormatSuper \/ FormatImap \/ FormatDmap \/ Crash
  PROVE  TypeOK'
<1>1. CASE Mount
  <2>1. fs' \in {NoFs, SuperBlock}
    BY <1>1, LayoutFacts DEF Mount, MountFrom, TypeOK, NoFs
  <2>2. Outcome
    <3>1. MountFrom(super) => pc' = "idle" /\ result' \in ErrorNames
      BY DEF MountFrom, Return, ErrorNames
    <3>2. \A buffer : MountFrom(buffer) => pc' = "idle" /\ result' \in ErrorNames
      BY DEF MountFrom, Return, ErrorNames
    <3>3. pc' = "idle" /\ result' \in ErrorNames
      BY <1>1, <3>1, <3>2 DEF Mount
    <3>4. faults' \in 0 .. MaxFaults
      <4>1. faults' = faults \/ (faults < MaxFaults /\ faults' = faults + 1)
        BY <1>1 DEF Mount
      <4> QED
        BY <4>1, LayoutFacts DEF TypeOK
    <3> QED
      BY <3>3, <3>4 DEF Outcome, Pcs
  <2>3. UNCHANGED <<super, imap, dmap, blk, call, rooted, acked>> /\ fresh' = FALSE
    BY <1>1 DEF Mount, disk
  <2> QED
    BY <2>1, <2>2, <2>3, Types DEF Outcome, StateOK
<1>2. CASE FormatSuper
  <2>1. Outcome
    BY <1>2, Outcomes DEF FormatSuper, ErrorNames, Pcs, Formatting
  <2>2. super' \in {super, SuperBlock} /\ rooted' = FALSE /\ acked' = {}
        /\ UNCHANGED <<imap, dmap, blk, fs, fresh, call>>
    BY <1>2 DEF FormatSuper
  <2> QED
    BY <2>1, <2>2, Types DEF Outcome, StateOK
<1>3. CASE FormatImap
  <2>1. Outcome
    BY <1>3, Outcomes DEF FormatImap, ErrorNames, Pcs, Formatting
  <2>2. imap' \in {imap, {}} /\ UNCHANGED <<super, dmap, blk, fs, fresh, call, rooted, acked>>
    BY <1>3 DEF FormatImap
  <2> QED
    BY <2>1, <2>2, Types DEF Outcome, StateOK
<1>4. CASE FormatDmap
  <2>1. Outcome
    BY <1>4, Outcomes DEF FormatDmap, ErrorNames, Pcs
  <2>2. /\ dmap' \in {dmap, {}} /\ fs' \in {fs, SuperBlock} /\ fresh' \in {fresh, TRUE}
        /\ UNCHANGED <<super, imap, blk, call, rooted, acked>>
    BY <1>4 DEF FormatDmap
  <2> QED
    BY <2>1, <2>2, Types DEF Outcome, StateOK
<1>5. CASE Crash
  <2>1. Outcome
    BY <1>5, LayoutFacts DEF Crash, Outcome, Pcs, ErrorNames, TypeOK
  <2>2. /\ call' = NoCall /\ fs' = NoFs /\ fresh' = FALSE
        /\ UNCHANGED <<super, imap, dmap, blk, rooted, acked>>
    BY <1>5 DEF Crash, disk
  <2> QED
    BY <2>1, <2>2, Types, NoCallType DEF Outcome, StateOK
<1> QED
  BY <1>1, <1>2, <1>3, <1>4, <1>5

(* A write to one block.                                                   *)
LEMMA WriteBlock ==
  ASSUME blk \in [Blocks -> BlockValues], NEW b, NEW v \in BlockValues
  PROVE  /\ [blk EXCEPT ![b] = v] \in [Blocks -> BlockValues]
         /\ b \in Blocks => [blk EXCEPT ![b] = v][b] = v
         /\ \A a \in Blocks : a # b => [blk EXCEPT ![b] = v][a] = blk[a]
  OBVIOUS

(* The writes of init_root_directory and create_file.                      *)
RootInodeWritten ==
  [blk EXCEPT ![InodeBlock(0)] = PutInode(@, 0, "Directory", call.block)]

FileInodeWritten ==
  [blk EXCEPT ![InodeBlock(call.inode)] = PutInode(@, call.inode, "File", 0)]

EntryWritten ==
  [blk EXCEPT ![call.block] =
     [call.buf EXCEPT ![call.slot] = Entry(call.name, call.inode)]]

(* What they leave in the blocks.                                          *)
LEMMA CallFacts ==
  ASSUME TypeOK
  PROVE  /\ call.block \in Pointers /\ call.buf \in BlockValues /\ call.slot \in Cells
         /\ call.inode \in 0 .. MapBits - 1 /\ call.inode \in Nat
         /\ call.name \in Names \union {"."}
         /\ blk \in [Blocks -> BlockValues]
<1>1. call \in Calls /\ blk \in [Blocks -> BlockValues]
  BY Types DEF StateOK
<1> QED
  BY <1>1 DEF Calls

LEMMA RootInodeWrite ==
  ASSUME TypeOK
  PROVE  /\ RootInodeWritten \in [Blocks -> BlockValues]
         /\ RootInodeWritten[3][0] = InodeLow(call.block)
         /\ RootInodeWritten[3][1] = InodeHigh("Directory")
         /\ \A b \in Blocks : b # 3 => RootInodeWritten[b] = blk[b]
<1> DEFINE v == PutInode(blk[3], 0, "Directory", call.block)
<1>1. blk \in [Blocks -> BlockValues] /\ blk[3] \in BlockValues /\ call.block \in Pointers
  BY CallFacts, LayoutFacts
<1>2. v \in BlockValues /\ v[0] = InodeLow(call.block) /\ v[1] = InodeHigh("Directory")
  <2>1. v \in BlockValues /\ v[LowCell(0)] = InodeLow(call.block)
        /\ v[HighCell(0)] = InodeHigh("Directory")
    BY <1>1, PutInodeFacts
  <2>2. LowCell(0) = 0 /\ HighCell(0) = 1
    BY LayoutFacts
  <2> HIDE DEF v
  <2> QED
    BY <2>1, <2>2
<1>3. RootInodeWritten = [blk EXCEPT ![3] = v]
  BY LayoutFacts DEF RootInodeWritten
<1> HIDE DEF v
<1> QED
  BY <1>1, <1>2, <1>3, WriteBlock, LayoutFacts

LEMMA FileInodeWrite ==
  ASSUME TypeOK, InodeBlock(call.inode) \in Blocks
  PROVE  /\ FileInodeWritten \in [Blocks -> BlockValues]
         /\ FileInodeWritten[InodeBlock(call.inode)][HighCell(call.inode)] = InodeHigh("File")
         /\ \A c \in Cells \ {LowCell(call.inode), HighCell(call.inode)} :
              FileInodeWritten[InodeBlock(call.inode)][c] = blk[InodeBlock(call.inode)][c]
         /\ \A b \in Blocks : b # InodeBlock(call.inode) => FileInodeWritten[b] = blk[b]
<1> DEFINE d == InodeBlock(call.inode)
           v == PutInode(blk[d], call.inode, "File", 0)
<1>1. blk \in [Blocks -> BlockValues] /\ blk[d] \in BlockValues
      /\ call.inode \in Nat /\ 0 \in Pointers
  BY CallFacts, LayoutFacts DEF Pointers
<1>2. /\ v \in BlockValues /\ v[HighCell(call.inode)] = InodeHigh("File")
      /\ \A c \in Cells \ {LowCell(call.inode), HighCell(call.inode)} : v[c] = blk[d][c]
  BY <1>1, PutInodeFacts
<1>3. FileInodeWritten = [blk EXCEPT ![d] = v] /\ d \in Blocks
  BY DEF FileInodeWritten
<1> HIDE DEF v, d
<1>4. /\ FileInodeWritten \in [Blocks -> BlockValues] /\ FileInodeWritten[d] = v
      /\ \A b \in Blocks : b # d => FileInodeWritten[b] = blk[b]
  BY <1>1, <1>2, <1>3, WriteBlock
<1> QED
  BY <1>2, <1>4 DEF d

LEMMA EntryWrite ==
  ASSUME TypeOK
  PROVE  /\ EntryWritten \in [Blocks -> BlockValues]
         /\ call.block \in Blocks =>
              /\ EntryWritten[call.block][call.slot] = Entry(call.name, call.inode)
              /\ \A c \in Cells : c # call.slot => EntryWritten[call.block][c] = call.buf[c]
         /\ \A b \in Blocks : b # call.block => EntryWritten[b] = blk[b]
<1> DEFINE v == [call.buf EXCEPT ![call.slot] = Entry(call.name, call.inode)]
<1>1. /\ blk \in [Blocks -> BlockValues] /\ call.buf \in [Cells -> CellValues]
      /\ call.slot \in Cells /\ Entry(call.name, call.inode) \in CellValues
  BY CallFacts, CellTypes DEF BlockValues
<1>2. /\ v \in BlockValues /\ v[call.slot] = Entry(call.name, call.inode)
      /\ \A c \in Cells : c # call.slot => v[c] = call.buf[c]
  BY <1>1 DEF BlockValues
<1>3. EntryWritten = [blk EXCEPT ![call.block] = v]
  BY DEF EntryWritten
<1> HIDE DEF v
<1> QED
  BY <1>1, <1>2, <1>3, WriteBlock

LEMMA RootTypes ==
  ASSUME TypeOK, fs = SuperBlock, RootImap \/ RootDmap \/ RootInode \/ RootDir
  PROVE  TypeOK'
<1>1. CASE RootImap
  <2>1. Outcome
    BY <1>1, Outcomes DEF RootImap, ErrorNames, Pcs, Rooting
  <2>2. /\ imap' \in {imap, imap \union {0}} /\ 0 \in 0 .. MapBits - 1
        /\ UNCHANGED <<super, dmap, blk, fs, fresh, call, rooted, acked>>
    BY <1>1, LayoutFacts DEF RootImap
  <2> QED
    BY <2>1, <2>2, Types DEF Outcome, StateOK
<1>2. CASE RootDmap
  <2>1. Outcome
    BY <1>2, Outcomes DEF RootDmap, ErrorNames, Pcs, Rooting
  <2>2. dmap' \in SUBSET (0 .. MapBits - 1)
    BY <1>2, FirstFreeFacts DEF RootDmap, TypeOK
  <2>3. call' \in Calls
    <3>1. CASE FreeBits(dmap) # {}
      <4>1. FirstFree(dmap) \in 0 .. MapBits - 1
        BY <3>1, FirstFreeFacts
      <4>2. fs.data_block_start + FirstFree(dmap) \in Pointers
        BY <4>1, LayoutFacts DEF Pointers
      <4>3. \/ call' = [call EXCEPT !.block = fs.data_block_start + FirstFree(dmap)]
            \/ call' = call
        BY <1>2 DEF RootDmap
      <4>4. call \in Calls
        BY Types DEF StateOK
      <4> QED
        BY <4>2, <4>3, <4>4 DEF Calls
    <3>2. CASE FreeBits(dmap) = {}
      BY <1>2, <3>2, Types DEF RootDmap, StateOK
    <3> QED
      BY <3>1, <3>2
  <2>4. UNCHANGED <<super, imap, blk, fs, fresh, rooted, acked>>
    BY <1>2 DEF RootDmap
  <2> QED
    BY <2>1, <2>2, <2>3, <2>4, Types DEF Outcome, StateOK
<1>3. CASE RootInode
  <2>1. Outcome
    BY <1>3, Outcomes DEF RootInode, ErrorNames, Pcs, Rooting
  <2>2. /\ blk' \in {blk, RootInodeWritten}
        /\ UNCHANGED <<super, imap, dmap, fs, fresh, call, rooted, acked>>
    BY <1>3 DEF RootInode, RootInodeWritten, ROOT_DIRECTORY_INODE
  <2>3. blk' \in [Blocks -> BlockValues]
    BY <2>2, CallFacts, RootInodeWrite
  <2> QED
    BY <2>1, <2>2, <2>3, Types DEF Outcome, StateOK
<1>4. CASE RootDir
  <2>1. Outcome
    BY <1>4, Outcomes DEF RootDir, ErrorNames, Pcs
  <2>2. /\ blk' \in {blk, [blk EXCEPT ![call.block] = RootDirBlock]}
        /\ rooted' \in {rooted, TRUE} /\ fresh' \in {fresh, FALSE} /\ call' = NoCall
        /\ UNCHANGED <<super, imap, dmap, fs, acked>>
    BY <1>4 DEF RootDir
  <2>3. blk' \in [Blocks -> BlockValues]
    BY <2>2, CallFacts, BlockTypes, WriteBlock
  <2> QED
    BY <2>1, <2>2, <2>3, Types, NoCallType DEF Outcome, StateOK
<1> QED
  BY <1>1, <1>2, <1>3, <1>4

LEMMA CreateTypes ==
  ASSUME TypeOK, (\E n \in Names : CreateBegin(n)) \/ CreateImap \/ CreateInode \/ CreateDir,
         pc = "create_dir" => call.name \in Names
  PROVE  TypeOK'
<1>1. ASSUME NEW n \in Names, CreateBegin(n)
      PROVE  TypeOK'
  <2>1. Outcome
    <3>1. CreateCheck(n) \in ErrorNames
      BY CreateCheckFacts
    <3> QED
      BY <1>1, <3>1, Outcomes DEF CreateBegin, ErrorNames, Pcs, Creating
  <2>2. UNCHANGED <<super, imap, dmap, blk, fs, fresh, rooted, acked>>
    BY <1>1 DEF CreateBegin, disk
  <2>3. call' \in Calls
    <3>1. CASE CreateCheck(n) = "Ok" /\ UNCHANGED call
      BY <3>1, Types DEF StateOK
    <3>2. CASE CreateCheck(n) = "Ok" /\ ~UNCHANGED call
      <4> DEFINE root == InodePointer(0)
                 slots == UnusedSlots(blk[root])
      <4>1. root \in Blocks /\ slots # {}
        BY <3>2, CreateCheckFacts
      <4>2. Min(slots) \in Cells
        <5>1. slots \in SUBSET Nat /\ slots \subseteq Cells
          BY LayoutFacts DEF UnusedSlots
        <5> QED
          BY <4>1, <5>1, MinInSet
      <4>3. blk[root] \in BlockValues /\ root \in Pointers
        BY <4>1, CallFacts, RootInodeTypes
      <4>4. 0 \in 0 .. MapBits - 1
        BY LayoutFacts
      <4>5. call' = [name |-> n, block |-> root, buf |-> blk[root], slot |-> Min(slots),
                     inode |-> 0]
        BY <1>1, <3>2 DEF CreateBegin, ROOT_DIRECTORY_INODE
      <4> HIDE DEF root, slots
      <4> QED
        BY <4>2, <4>3, <4>4, <4>5 DEF Calls
    <3>3. CASE CreateCheck(n) # "Ok"
      BY <1>1, <3>3, Types DEF CreateBegin, StateOK
    <3> QED
      BY <3>1, <3>2, <3>3
  <2> QED
    BY <2>1, <2>2, <2>3, Types DEF Outcome, StateOK
<1>2. CASE CreateImap
  <2>1. Outcome
    BY <1>2, Outcomes DEF CreateImap, ErrorNames, Pcs, Creating
  <2>2. imap' \in SUBSET (0 .. MapBits - 1)
    BY <1>2, FirstFreeFacts DEF CreateImap, TypeOK
  <2>3. call' \in Calls
    <3>1. CASE FreeBits(imap) # {} /\ call' = [call EXCEPT !.inode = FirstFree(imap)]
      <4>1. FirstFree(imap) \in 0 .. MapBits - 1 /\ call \in Calls
        BY <3>1, FirstFreeFacts, Types DEF StateOK
      <4> QED
        BY <3>1, <4>1 DEF Calls
    <3> QED
      BY <1>2, <3>1, NoCallType DEF CreateImap
  <2>4. UNCHANGED <<super, dmap, blk, fs, fresh, rooted, acked>>
    BY <1>2 DEF CreateImap
  <2> QED
    BY <2>1, <2>2, <2>3, <2>4, Types DEF Outcome, StateOK
<1>3. CASE CreateInode
  <2>1. Outcome
    BY <1>3, Outcomes DEF CreateInode, ErrorNames, Pcs, Creating
  <2>2. /\ \/ blk' = blk
           \/ InodeBlock(call.inode) \in Blocks /\ blk' = FileInodeWritten
        /\ call' \in {call, NoCall}
        /\ UNCHANGED <<super, imap, dmap, fs, fresh, rooted, acked>>
    BY <1>3 DEF CreateInode, FileInodeWritten
  <2>3. blk' \in [Blocks -> BlockValues]
    BY <2>2, CallFacts, FileInodeWrite
  <2> QED
    BY <2>1, <2>2, <2>3, Types, NoCallType DEF Outcome, StateOK
<1>4. CASE CreateDir
  <2>1. Outcome
    BY <1>4, Outcomes DEF CreateDir, ErrorNames, Pcs
  <2>2. /\ blk' \in {blk, EntryWritten} /\ call' = NoCall
        /\ acked' \in {acked, acked \union {<<call.name, call.inode>>}}
        /\ UNCHANGED <<super, imap, dmap, fs, fresh, rooted>>
    BY <1>4 DEF CreateDir, EntryWritten
  <2>3. blk' \in [Blocks -> BlockValues]
    BY <2>2, CallFacts, EntryWrite
  <2>4. <<call.name, call.inode>> \in Names \X (0 .. MapBits - 1)
    BY <1>4, CallFacts DEF CreateDir
  <2>5. acked' \in SUBSET (Names \X (0 .. MapBits - 1))
    BY <2>2, <2>4, Types DEF StateOK
  <2> QED
    BY <2>1, <2>2, <2>3, <2>5, Types, NoCallType DEF Outcome, StateOK
<1> QED
  BY <1>1, <1>2, <1>3, <1>4

-----------------------------------------------------------------------------
(* Every operation keeps the order of the calls.                           *)
LEMMA ControlStep ==
  ASSUME TypeOK, ControlSound, Next
  PROVE  ControlSound'
<1> USE DEF ControlSound, Formatting, Rooting, Creating, Finish, Return, DeviceFails, Continue
<1>1. CASE Mount
  <2>1. pc = "idle" /\ fs = NoFs /\ ~fresh /\ pc' = "idle" /\ fresh' = FALSE
        /\ UNCHANGED <<imap, rooted, acked>>
    BY <1>1, LayoutFacts DEF Mount, MountFrom, disk
  <2> QED
    BY <2>1
<1>2. CASE FormatSuper
  BY <1>2, LayoutFacts DEF FormatSuper
<1>3. CASE FormatImap
  BY <1>3 DEF FormatImap
<1>4. CASE FormatDmap
  BY <1>4 DEF FormatDmap
<1>5. CASE RootImap
  BY <1>5 DEF RootImap
<1>6. CASE RootDmap
  BY <1>6 DEF RootDmap
<1>7. CASE RootInode
  BY <1>7 DEF RootInode
<1>8. CASE RootDir
  <2>1. /\ pc = "root_dir" /\ pc' = "idle" /\ UNCHANGED <<imap, fs, acked>>
        /\ \/ rooted' = TRUE /\ fresh' = FALSE
           \/ UNCHANGED <<rooted, fresh>>
    BY <1>8 DEF RootDir
  <2>2. /\ fresh /\ ~rooted /\ 0 \in imap /\ acked = {} /\ fs = SuperBlock
        /\ imap \subseteq {0}
    BY <2>1
  <2>3. CASE rooted' = TRUE /\ fresh' = FALSE
    BY <2>1, <2>2, <2>3
  <2>4. CASE UNCHANGED <<rooted, fresh>>
    BY <2>1, <2>2, <2>4
  <2> QED
    BY <2>1, <2>3, <2>4
<1>9. ASSUME NEW n \in Names, CreateBegin(n) PROVE ControlSound'
  <2>1. pc = "idle" /\ fs # NoFs /\ ~fresh /\ UNCHANGED <<imap, fs, fresh, rooted, acked>>
    BY <1>9 DEF CreateBegin, disk
  <2>2. pc' = "idle" \/ (pc' = "create_imap" /\ call'.name = n)
    BY <1>9 DEF CreateBegin
  <2> QED
    BY <2>1, <2>2
<1>10. CASE CreateImap
  <2>1. call' = [call EXCEPT !.inode = FirstFree(imap)] => call'.name = call.name
    BY Types DEF StateOK, Calls
  <2> QED
    BY <1>10, <2>1 DEF CreateImap
<1>11. CASE CreateInode
  BY <1>11 DEF CreateInode
<1>12. CASE CreateDir
  BY <1>12 DEF CreateDir
<1>13. CASE Crash
  BY <1>13 DEF Crash, disk
<1> QED
  BY <1>1, <1>2, <1>3, <1>4, <1>5, <1>6, <1>7, <1>8, <1>9, <1>10, <1>11, <1>12, <1>13 DEF Next

(* Every operation keeps the inodes of acknowledged files.                 *)
LEMMA AckedStep ==
  ASSUME TypeOK, ControlSound, AckedSound, Next
  PROVE  AckedSound'
<1> USE DEF AckedSound, Finish, Return, DeviceFails, Continue
<1>0. acked \in SUBSET (Names \X (0 .. MapBits - 1))
  BY Types DEF StateOK
<1>1. CASE Mount \/ Crash
  <2>1. pc' = "idle" /\ UNCHANGED <<imap, rooted, acked>>
    BY <1>1 DEF Mount, MountFrom, Crash, disk
  <2> QED
    BY <2>1
<1>2. CASE FormatSuper
  BY <1>2 DEF FormatSuper
<1>3. CASE FormatImap \/ FormatDmap
  <2>1. acked = {} /\ acked' = {} /\ pc' \in {"idle", "format_dmap"}
    BY <1>3 DEF FormatImap, FormatDmap, ControlSound, Formatting
  <2> QED
    BY <2>1
<1>4. CASE RootImap \/ RootDmap \/ RootInode \/ RootDir
  <2>1. acked = {} /\ acked' = {} /\ pc' \in {"idle", "root_dmap", "root_inode", "root_dir"}
    BY <1>4 DEF RootImap, RootDmap, RootInode, RootDir, ControlSound, Rooting
  <2> QED
    BY <2>1
<1>5. ASSUME NEW n \in Names, CreateBegin(n) PROVE AckedSound'
  <2>1. pc' \in {"idle", "create_imap"} /\ UNCHANGED <<imap, rooted, acked>>
    BY <1>5 DEF CreateBegin, disk
  <2> QED
    BY <2>1
<1>6. CASE CreateImap
  <2>1. /\ UNCHANGED <<rooted, acked>> /\ imap \subseteq imap'
        /\ \/ pc' = "idle"
           \/ /\ pc' = "create_inode" /\ FreeBits(imap) # {}
              /\ imap' = imap \union {FirstFree(imap)}
              /\ call' = [call EXCEPT !.inode = FirstFree(imap)]
    BY <1>6 DEF CreateImap
  <2>2. CASE pc' = "idle"
    BY <2>1, <2>2
  <2>3. CASE pc' = "create_inode"
    <3>1. call'.inode = FirstFree(imap) /\ call'.inode \in imap' /\ FirstFree(imap) \notin imap
      <4>1. call \in Calls
        BY Types DEF StateOK
      <4>2. call'.inode = FirstFree(imap)
        BY <2>1, <2>3, <4>1 DEF Calls
      <4> QED
        BY <2>1, <2>3, <4>2, FirstFreeFacts
    <3>2. rooted => 0 \in imap
      BY DEF ControlSound
    <3> QED
      BY <2>1, <2>3, <3>1, <3>2
  <2> QED
    BY <2>1, <2>2, <2>3
<1>7. CASE CreateInode
  <2>1. /\ pc = "create_inode" /\ UNCHANGED <<imap, rooted, acked>>
        /\ \/ pc' = "idle"
           \/ pc' = "create_dir" /\ call' = call /\ InodeBlock(call.inode) \in Blocks
    BY <1>7 DEF CreateInode
  <2> QED
    BY <2>1
<1>8. CASE CreateDir
  <2>1. /\ pc = "create_dir" /\ pc' = "idle" /\ UNCHANGED <<imap, rooted>>
        /\ acked' \in {acked, acked \union {<<call.name, call.inode>>}}
    BY <1>8 DEF CreateDir
  <2> DEFINE f == <<call.name, call.inode>>
  <2>2. f[2] = call.inode
    OBVIOUS
  <2> HIDE DEF f
  <2>3. /\ call.inode \in imap /\ \A g \in acked : g[2] # call.inode
        /\ rooted => call.inode # 0
        /\ InodeBlock(call.inode) \in Blocks
    BY <2>1
  <2>4. acked' = acked \/ acked' = acked \union {f}
    BY <2>1 DEF f
  <2> QED
    BY <2>1, <2>2, <2>3, <2>4
<1> QED
  BY <1>1, <1>2, <1>3, <1>4, <1>5, <1>6, <1>7, <1>8 DEF Next

(* The first invariant, for any size of the bitmaps.                       *)
LEMMA DiskInvInit == Init => DiskInv
<1> SUFFICES ASSUME Init PROVE DiskInv
  OBVIOUS
<1>1. TypeOK
  <2>1. blk \in [Blocks -> BlockValues]
    BY BlockTypes DEF Init
  <2>2. 0 \in 0 .. MaxFaults
    BY LayoutFacts
  <2> QED
    BY <2>1, <2>2, Types, NoCallType DEF Init, StateOK, Pcs, ErrorNames
<1>2. ControlSound /\ AckedSound
  BY DEF Init, ControlSound, AckedSound, Formatting, Rooting, Creating
<1> QED
  BY <1>1, <1>2 DEF DiskInv

LEMMA DiskInvNext == DiskInv /\ [Next]_fsVars => DiskInv'
<1> SUFFICES ASSUME DiskInv, [Next]_fsVars PROVE DiskInv'
  OBVIOUS
<1>0. TypeOK /\ ControlSound /\ AckedSound
  BY DEF DiskInv
<1>1. CASE Next
  <2>1. ControlSound' /\ AckedSound'
    BY <1>0, <1>1, ControlStep, AckedStep
  <2>2. RootImap \/ RootDmap \/ RootInode \/ RootDir => fs = SuperBlock
    BY <1>0 DEF ControlSound, Rooting, RootImap, RootDmap, RootInode, RootDir
  <2>3. pc = "create_dir" => call.name \in Names
    BY <1>0 DEF ControlSound, Creating
  <2>4. TypeOK'
    BY <1>0, <1>1, <2>2, <2>3, FormatTypes, RootTypes, CreateTypes DEF Next
  <2> QED
    BY <2>1, <2>4 DEF DiskInv
<1>2. CASE UNCHANGED fsVars
  BY <1>0, <1>2 DEF fsVars, disk, DiskInv, TypeOK, ControlSound, AckedSound
<1> QED
  BY <1>1, <1>2

LEMMA DiskInvAlways == Spec => []DiskInv
  BY DiskInvInit, DiskInvNext, PTL DEF Spec

(***************************************************************************)
(* Every operation of SFS, interrupted or not, leaves a disk and a handle  *)
(* of the right types, however the bitmaps and the inode table relate.     *)
(***************************************************************************)
THEOREM DiskTyped == Spec => []TypeOK
<1>1. DiskInv => TypeOK
  BY DEF DiskInv
<1> QED
  BY <1>1, DiskInvAlways, PTL

-----------------------------------------------------------------------------
(* The root directory and the inodes as the blocks B hold them, and the    *)
(* properties of SimpleFs in these terms.                                  *)
PointerIn(B)   == DirectPointer0(B[3][0])
RootIn(B)      == B[PointerIn(B)]
ModeIn(B, i)   == Mode(B[InodeBlock(i)][HighCell(i)])
FileCellsIn(d) == {c \in Cells \ {0, 1} : Used(d[c])}
FilesIn(d)     == {<<d[c].name, d[c].inode>> : c \in FileCellsIn(d)}
InodesIn(d)    == {f[2] : f \in FilesIn(d)}

RootOK(m, dm, B) ==
  /\ 0 \in m /\ ModeIn(B, 0) = "Directory" /\ PointerIn(B) \in Blocks
  /\ PointerIn(B) - SuperBlock.data_block_start \in dm
  /\ RootIn(B)[0] = Entry(".", 0) /\ RootIn(B)[1] = Entry("..", 0)

EntriesOK(m, B) ==
  /\ \A i \in InodesIn(RootIn(B)) : i \in m /\ ModeIn(B, i) = "File"
  /\ \A c, d \in FileCellsIn(RootIn(B)) : c # d =>
       /\ RootIn(B)[c].name # RootIn(B)[d].name
       /\ RootIn(B)[c].inode # RootIn(B)[d].inode

LEMMA Views ==
  /\ InodePointer(0) = PointerIn(blk) /\ \A i : InodeMode(i) = ModeIn(blk, i)
  /\ RootBlock = RootIn(blk) /\ Files = FilesIn(RootIn(blk))
  /\ RootIntact <=> (rooted => RootOK(imap, dmap, blk))
  /\ EntriesSound <=> (rooted => EntriesOK(imap, blk))
  /\ Leaked = imap \ (InodesIn(RootIn(blk)) \union {0} \union Reserved)
<1>1. InodePointer(0) = PointerIn(blk) /\ \A i : InodeMode(i) = ModeIn(blk, i)
  BY LayoutFacts DEF InodePointer, InodeMode, PointerIn, ModeIn
<1>2. RootBlock = RootIn(blk) /\ FileCells = FileCellsIn(RootIn(blk))
  BY <1>1 DEF RootBlock, FileCells, RootIn, FileCellsIn, ROOT_DIRECTORY_INODE
<1>3. Files = FilesIn(RootIn(blk))
  BY <1>2 DEF Files, FilesIn
<1>4. RootIntact <=> (rooted => RootOK(imap, dmap, blk))
  BY <1>1, <1>2 DEF RootIntact, RootOK, ROOT_DIRECTORY_INODE
<1>5. EntriesSound <=> (rooted => EntriesOK(imap, blk))
  BY <1>1, <1>2, <1>3 DEF EntriesSound, EntriesOK, InodesIn
<1>6. Leaked = imap \ (InodesIn(RootIn(blk)) \union {0} \union Reserved)
  BY <1>3 DEF Leaked, InodesIn, ROOT_DIRECTORY_INODE
<1> QED
  BY <1>1, <1>2, <1>3, <1>4, <1>5, <1>6

LEMMA ViewsNext ==
  /\ InodePointer(0)' = PointerIn(blk') /\ \A i : InodeMode(i)' = ModeIn(blk', i)
  /\ RootBlock' = RootIn(blk') /\ Files' = FilesIn(RootIn(blk'))
  /\ RootIntact' <=> (rooted' => RootOK(imap', dmap', blk'))
  /\ EntriesSound' <=> (rooted' => EntriesOK(imap', blk'))
  /\ Leaked' = imap' \ (InodesIn(RootIn(blk')) \union {0} \union Reserved')
<1>1. InodePointer(0)' = PointerIn(blk') /\ \A i : InodeMode(i)' = ModeIn(blk', i)
  BY LayoutFacts DEF InodePointer, InodeMode, PointerIn, ModeIn
<1>2. RootBlock' = RootIn(blk') /\ FileCells' = FileCellsIn(RootIn(blk'))
  BY <1>1 DEF RootBlock, FileCells, RootIn, FileCellsIn, ROOT_DIRECTORY_INODE
<1>3. Files' = FilesIn(RootIn(blk'))
  BY <1>2 DEF Files, FilesIn
<1>4. RootIntact' <=> (rooted' => RootOK(imap', dmap', blk'))
  BY <1>1, <1>2 DEF RootIntact, RootOK, ROOT_DIRECTORY_INODE
<1>5. EntriesSound' <=> (rooted' => EntriesOK(imap', blk'))
  BY <1>1, <1>2, <1>3 DEF EntriesSound, EntriesOK, InodesIn
<1>6. Leaked' = imap' \ (InodesIn(RootIn(blk')) \union {0} \union Reserved')
  BY <1>3 DEF Leaked, InodesIn, ROOT_DIRECTORY_INODE
<1> QED
  BY <1>1, <1>2, <1>3, <1>4, <1>5, <1>6

(* The directory and its inodes stay as they are.                          *)
LEMMA SameDirectory ==
  ASSUME NEW m, NEW m2, NEW dm, NEW B, NEW B2, m \subseteq m2,
         PointerIn(B2) = PointerIn(B), RootIn(B2) = RootIn(B), ModeIn(B2, 0) = ModeIn(B, 0),
         \A i \in InodesIn(RootIn(B)) : ModeIn(B2, i) = ModeIn(B, i)
  PROVE  /\ RootOK(m, dm, B) => RootOK(m2, dm, B2)
         /\ EntriesOK(m, B) => EntriesOK(m2, B2)
<1>1. RootOK(m, dm, B) => RootOK(m2, dm, B2)
  BY DEF RootOK
<1>2. EntriesOK(m, B) => EntriesOK(m2, B2)
  BY DEF EntriesOK
<1> QED
  BY <1>1, <1>2

(* The inodes of a directory block.                                        *)
LEMMA InodesOfBlock ==
  ASSUME NEW d \in BlockValues
  PROVE  InodesIn(d) = {d[c].inode : c \in FileCellsIn(d)}
         /\ InodesIn(d) \subseteq 0 .. MapBits - 1
<1>1. InodesIn(d) = {d[c].inode : c \in FileCellsIn(d)}
  <2>1. ASSUME NEW f \in FilesIn(d) PROVE f[2] \in {d[c].inode : c \in FileCellsIn(d)}
    <3>1. PICK c \in FileCellsIn(d) : f = <<d[c].name, d[c].inode>>
      BY DEF FilesIn
    <3> QED
      BY <3>1
  <2>2. ASSUME NEW c \in FileCellsIn(d) PROVE \E f \in FilesIn(d) : f[2] = d[c].inode
    <3>1. <<d[c].name, d[c].inode>> \in FilesIn(d)
      BY DEF FilesIn
    <3> QED
      BY <3>1
  <2> QED
    BY <2>1, <2>2 DEF InodesIn
<1>2. \A c \in FileCellsIn(d) : d[c] \in CellValues /\ Used(d[c])
  BY DEF FileCellsIn, BlockValues
<1>3. \A c \in FileCellsIn(d) : d[c].inode \in 0 .. MapBits - 1
  BY <1>2, CellReads
<1> QED
  BY <1>1, <1>3

(* The root block lies behind the inode table.                             *)
LEMMA RootBehindTable ==
  ASSUME TypeOK, BitmapFits, RootOK(imap, dmap, blk)
  PROVE  /\ PointerIn(blk) \in Blocks /\ RootIn(blk) \in BlockValues
         /\ \A i \in 0 .. MapBits - 1 : InodeBlock(i) \in Blocks /\ InodeBlock(i) # PointerIn(blk)
         /\ PointerIn(blk) # 3
<1> DEFINE p == PointerIn(blk)
           s == SuperBlock.data_block_start
<1>1. p \in Blocks /\ p - s \in dmap /\ dmap \subseteq 0 .. MapBits - 1
  BY DEF RootOK, TypeOK
<1>2. p \in Nat /\ s \in Nat /\ MapBits \in Nat \ {0}
  BY <1>1, LayoutFacts
<1> HIDE DEF p, s
<1>3. p >= s
  <2>1. p - s >= 0
    BY <1>1, <1>2
  <2> QED
    BY <1>2, <2>1
<1>4. \A i \in 0 .. MapBits - 1 : InodeBlock(i) \in Blocks /\ InodeBlock(i) # p
  <2> TAKE i \in 0 .. MapBits - 1
  <2>1. InodeBlock(i) \in Blocks /\ InodeBlock(i) < s
    BY InodeInTable DEF s
  <2>2. InodeBlock(i) \in Nat
    BY InodePlace
  <2> QED
    BY <1>2, <1>3, <2>1, <2>2
<1>5. InodeBlock(0) # p
  <2>1. 0 \in 0 .. MapBits - 1
    BY <1>2
  <2> QED
    BY <1>4, <2>1
<1>6. p # 3
  BY <1>5, LayoutFacts
<1>7. RootIn(blk) \in BlockValues
  BY <1>1, Types DEF RootIn, p, StateOK
<1> QED
  BY <1>1, <1>4, <1>6, <1>7 DEF p

(* The write of a new inode leaves the directory and the other inodes.     *)
LEMMA NewInode ==
  ASSUME TypeOK, BitmapFits, RootOK(imap, dmap, blk), call.inode # 0
  PROVE  LET B == FileInodeWritten
         IN  /\ PointerIn(B) = PointerIn(blk) /\ RootIn(B) = RootIn(blk)
             /\ \A i \in 0 .. MapBits - 1 : i # call.inode => ModeIn(B, i) = ModeIn(blk, i)
             /\ ModeIn(B, call.inode) = "File"
<1> DEFINE B == FileInodeWritten
           k == call.inode
<1>1. k \in 0 .. MapBits - 1 /\ k \in Nat /\ k # 0
  BY CallFacts
<1>2. InodeBlock(k) \in Blocks /\ InodeBlock(k) # PointerIn(blk) /\ PointerIn(blk) \in Blocks
  BY <1>1, RootBehindTable
<1>3. /\ B[InodeBlock(k)][HighCell(k)] = InodeHigh("File")
      /\ \A c \in Cells \ {LowCell(k), HighCell(k)} : B[InodeBlock(k)][c] = blk[InodeBlock(k)][c]
      /\ \A b \in Blocks : b # InodeBlock(k) => B[b] = blk[b]
  BY <1>2, FileInodeWrite
<1> HIDE DEF B, k
<1>4. ASSUME NEW i \in 0 .. MapBits - 1, i # k
      PROVE  /\ B[InodeBlock(i)][HighCell(i)] = blk[InodeBlock(i)][HighCell(i)]
             /\ B[InodeBlock(i)][LowCell(i)] = blk[InodeBlock(i)][LowCell(i)]
  <2>0. i \in Nat
    BY LayoutFacts
  <2>1. i \in Nat /\ InodeBlock(i) \in Blocks /\ LowCell(i) \in Cells /\ HighCell(i) \in Cells
    BY <2>0, RootBehindTable, InodePlace
  <2>2. CASE InodeBlock(i) # InodeBlock(k)
    BY <1>3, <2>1, <2>2
  <2>3. CASE InodeBlock(i) = InodeBlock(k)
    <3>1. /\ LowCell(i) # LowCell(k) /\ LowCell(i) # HighCell(k)
          /\ HighCell(i) # LowCell(k) /\ HighCell(i) # HighCell(k)
      BY <1>1, <1>4, <2>1, <2>3, InodesApart
    <3> QED
      BY <1>3, <2>1, <2>3, <3>1
  <2> QED
    BY <2>2, <2>3
<1>5. B[3][0] = blk[3][0]
  <2>1. 0 \in 0 .. MapBits - 1
    BY LayoutFacts
  <2> QED
    BY <1>1, <1>4, <2>1, LayoutFacts
<1>6. PointerIn(B) = PointerIn(blk) /\ RootIn(B) = RootIn(blk)
  BY <1>2, <1>3, <1>5 DEF PointerIn, RootIn
<1>7. \A i \in 0 .. MapBits - 1 : i # k => ModeIn(B, i) = ModeIn(blk, i)
  BY <1>4 DEF ModeIn
<1>8. ModeIn(B, k) = "File"
  BY <1>3, CellFacts DEF ModeIn
<1> QED
  BY <1>6, <1>7, <1>8 DEF B, k

(* The write of the directory block adds an entry in a free slot.          *)
LEMMA NewEntry ==
  ASSUME TypeOK, BitmapFits, RootOK(imap, dmap, blk),
         call.block = PointerIn(blk), call.buf = RootIn(blk), call.slot \in UnusedSlots(RootIn(blk))
  PROVE  LET B == EntryWritten
         IN  /\ PointerIn(B) = PointerIn(blk)
             /\ \A i \in 0 .. MapBits - 1 : ModeIn(B, i) = ModeIn(blk, i)
             /\ RootIn(B)[call.slot] = Entry(call.name, call.inode)
             /\ \A c \in Cells : c # call.slot => RootIn(B)[c] = RootIn(blk)[c]
             /\ call.slot \in Cells \ {0, 1} /\ ~Used(RootIn(blk)[call.slot])
<1> DEFINE B == EntryWritten
<1>1. /\ call.block \in Blocks /\ call.block # 3
      /\ \A i \in 0 .. MapBits - 1 : InodeBlock(i) \in Blocks /\ InodeBlock(i) # call.block
  BY RootBehindTable
<1>2. /\ B[call.block][call.slot] = Entry(call.name, call.inode)
      /\ \A c \in Cells : c # call.slot => B[call.block][c] = RootIn(blk)[c]
      /\ \A b \in Blocks : b # call.block => B[b] = blk[b]
  BY <1>1, EntryWrite
<1> HIDE DEF B
<1>3. PointerIn(B) = PointerIn(blk) /\ RootIn(B) = B[call.block]
  BY <1>1, <1>2, LayoutFacts DEF PointerIn, RootIn
<1>4. \A i \in 0 .. MapBits - 1 : ModeIn(B, i) = ModeIn(blk, i)
  BY <1>1, <1>2 DEF ModeIn
<1>5. call.slot \in Cells \ {0, 1} /\ ~Used(RootIn(blk)[call.slot])
  <2>1. Used(RootIn(blk)[0]) /\ Used(RootIn(blk)[1])
    BY CellFacts DEF RootOK
  <2> QED
    BY <2>1 DEF UnusedSlots
<1> QED
  BY <1>2, <1>3, <1>4, <1>5 DEF B

LEMMA EntryAdded ==
  ASSUME NEW d, NEW d2, NEW s \in Cells \ {0, 1}, NEW n, NEW i, ~Used(d[s]),
         d2[s] = Entry(n, i), \A c \in Cells : c # s => d2[c] = d[c]
  PROVE  /\ FileCellsIn(d2) = FileCellsIn(d) \union {s}
         /\ FilesIn(d2) = FilesIn(d) \union {<<n, i>>}
         /\ InodesIn(d2) = InodesIn(d) \union {i}
         /\ s \notin FileCellsIn(d) /\ d2[s].name = n /\ d2[s].inode = i
<1>1. Used(d2[s]) /\ d2[s].name = n /\ d2[s].inode = i
  BY CellFacts
<1>2. FileCellsIn(d2) = FileCellsIn(d) \union {s} /\ s \notin FileCellsIn(d)
  BY <1>1 DEF FileCellsIn
<1>3. \A c \in FileCellsIn(d) : d2[c] = d[c]
  BY <1>2 DEF FileCellsIn
<1>4. FilesIn(d2) = FilesIn(d) \union {<<n, i>>}
  BY <1>1, <1>2, <1>3 DEF FilesIn
<1>5. InodesIn(d2) = InodesIn(d) \union {i}
  <2> DEFINE F == FilesIn(d)
             g == <<n, i>>
  <2>1. g[2] = i
    OBVIOUS
  <2>2. FilesIn(d2) = F \union {g}
    BY <1>4
  <2> HIDE DEF F, g
  <2>3. {f[2] : f \in F \union {g}} = {f[2] : f \in F} \union {i}
    BY <2>1
  <2> QED
    BY <2>2, <2>3 DEF InodesIn, F
<1> QED
  BY <1>1, <1>2, <1>4, <1>5

-----------------------------------------------------------------------------
(* What a step may do to a directory that exists after it: it leaves it    *)
(* alone, it adds the entry of a running create_file, or it completes      *)
(* init_root_directory.                                                    *)
Same ==
  /\ rooted /\ imap \subseteq imap' /\ dmap' = dmap /\ acked' = acked
  /\ PointerIn(blk') = PointerIn(blk) /\ RootIn(blk') = RootIn(blk)
  /\ ModeIn(blk', 0) = ModeIn(blk, 0)
  /\ \A i \in InodesIn(RootIn(blk)) : ModeIn(blk', i) = ModeIn(blk, i)

Added ==
  /\ rooted /\ pc = "create_dir" /\ pc' = "idle" /\ imap' = imap /\ dmap' = dmap
  /\ blk' = EntryWritten
  /\ acked' \in {acked, acked \union {<<call.name, call.inode>>}}
  /\ faults' \in {faults, faults + 1}

Founded ==
  /\ pc = "root_dir" /\ pc' = "idle" /\ imap' = imap /\ imap \subseteq {0} /\ 0 \in imap
  /\ dmap' = dmap /\ ~rooted /\ acked = {} /\ acked' = {} /\ faults' = faults
  /\ call.block \in Blocks /\ blk' = [blk EXCEPT ![call.block] = RootDirBlock]

(* Facts about a complete root, in these terms.                            *)
LEMMA RootedFacts ==
  ASSUME FsInv, rooted
  PROVE  /\ TypeOK /\ RootOK(imap, dmap, blk) /\ EntriesOK(imap, blk) /\ ~fresh
         /\ pc \notin Formatting \union Rooting
         /\ acked \subseteq FilesIn(RootIn(blk))
         /\ pc \in {"create_inode", "create_dir"} =>
              /\ call.inode # 0 /\ call.inode \in imap /\ call.inode \notin InodesIn(RootIn(blk))
         /\ pc \in Creating =>
              /\ call.block = PointerIn(blk) /\ call.buf = RootIn(blk)
              /\ call.slot \in UnusedSlots(RootIn(blk))
              /\ call.name \notin EntryNames(RootIn(blk)) /\ call.name \in Names
         /\ pc = "create_dir" => ModeIn(blk, call.inode) = "File"
<1>1. TypeOK /\ ControlSound /\ AckedSound
  BY DEF FsInv, DiskInv
<1>2. RootOK(imap, dmap, blk) /\ EntriesOK(imap, blk) /\ acked \subseteq FilesIn(RootIn(blk))
  BY Views DEF FsInv, RootSound, AckedFilesSurvive
<1>3. ~fresh /\ pc \notin Formatting \union Rooting
  BY <1>1 DEF ControlSound
<1>4. pc \in Creating =>
        /\ call.block = PointerIn(blk) /\ call.buf = RootIn(blk)
        /\ call.slot \in UnusedSlots(RootIn(blk))
        /\ call.name \notin EntryNames(RootIn(blk)) /\ call.name \in Names
        /\ pc # "create_imap" => \A f \in FilesIn(RootIn(blk)) : f[2] # call.inode
        /\ pc = "create_dir" => ModeIn(blk, call.inode) = "File"
  BY Views DEF FsInv, CreateSound
<1>5. pc \in {"create_inode", "create_dir"} =>
        call.inode # 0 /\ call.inode \in imap /\ call.inode \notin InodesIn(RootIn(blk))
  BY <1>1, <1>4 DEF AckedSound, Creating, InodesIn
<1> QED
  BY <1>1, <1>2, <1>3, <1>4, <1>5 DEF Creating

LEMMA DirectorySteps ==
  ASSUME FsInv, BitmapFits, Next, rooted'
  PROVE  Same \/ Added \/ Founded
<1>0. TypeOK /\ ControlSound /\ AckedSound
  BY DEF FsInv, DiskInv
<1> USE DEF Finish, Return, DeviceFails, Continue
<1>1. CASE Mount \/ Crash \/ \E n \in Names : CreateBegin(n)
  <2>1. UNCHANGED <<imap, dmap, blk, rooted, acked>>
    BY <1>1 DEF Mount, Crash, CreateBegin, disk
  <2> QED
    BY <2>1 DEF Same
<1>2. CASE FormatSuper
  BY <1>2 DEF FormatSuper
<1>3. CASE FormatImap \/ FormatDmap
  BY <1>0, <1>3 DEF FormatImap, FormatDmap, ControlSound, Formatting
<1>4. CASE RootImap \/ RootDmap \/ RootInode
  BY <1>0, <1>4 DEF RootImap, RootDmap, RootInode, ControlSound, Rooting
<1>5. CASE RootDir
  <2>1. fresh /\ ~rooted /\ imap \subseteq {0} /\ 0 \in imap /\ acked = {}
    BY <1>0, <1>5 DEF RootDir, ControlSound, Rooting
  <2>2. /\ pc = "root_dir" /\ pc' = "idle" /\ call.block \in Blocks /\ faults' = faults
        /\ blk' = [blk EXCEPT ![call.block] = RootDirBlock]
        /\ UNCHANGED <<imap, dmap, acked>>
    BY <1>5, <2>1 DEF RootDir
  <2> QED
    BY <2>1, <2>2 DEF Founded
<1>6. CASE CreateImap
  <2>1. imap \subseteq imap' /\ UNCHANGED <<dmap, blk, rooted, acked>>
    BY <1>6 DEF CreateImap
  <2> QED
    BY <2>1 DEF Same
<1>7. CASE CreateInode
  <2>1. /\ pc = "create_inode" /\ blk' \in {blk, FileInodeWritten}
        /\ UNCHANGED <<imap, dmap, rooted, acked>>
    BY <1>7 DEF CreateInode, FileInodeWritten
  <2>2. CASE blk' = blk
    BY <2>1, <2>2 DEF Same
  <2>3. CASE blk' = FileInodeWritten
    <3> DEFINE B == FileInodeWritten
    <3>1. /\ RootOK(imap, dmap, blk) /\ call.inode # 0 /\ rooted
          /\ call.inode \notin InodesIn(RootIn(blk))
      BY <2>1, RootedFacts
    <3>2. /\ PointerIn(B) = PointerIn(blk) /\ RootIn(B) = RootIn(blk)
          /\ \A i \in 0 .. MapBits - 1 : i # call.inode => ModeIn(B, i) = ModeIn(blk, i)
      BY <1>0, <3>1, NewInode
    <3>3. 0 \in 0 .. MapBits - 1 /\ InodesIn(RootIn(blk)) \subseteq 0 .. MapBits - 1
      BY <1>0, <3>1, LayoutFacts, RootBehindTable, InodesOfBlock
    <3> HIDE DEF B
    <3>4. blk' = B
      BY <2>3 DEF B
    <3>5. /\ ModeIn(B, 0) = ModeIn(blk, 0)
          /\ \A i \in InodesIn(RootIn(blk)) : ModeIn(B, i) = ModeIn(blk, i)
      BY <3>1, <3>2, <3>3
    <3> QED
      BY <2>1, <3>1, <3>2, <3>4, <3>5 DEF Same
  <2> QED
    BY <2>1, <2>2, <2>3
<1>8. CASE CreateDir
  <2>1. /\ pc = "create_dir" /\ pc' = "idle" /\ UNCHANGED <<imap, dmap, rooted>>
        /\ \/ blk' = EntryWritten
           \/ blk' = blk /\ acked' = acked
        /\ acked' \in {acked, acked \union {<<call.name, call.inode>>}}
        /\ faults' \in {faults, faults + 1}
    BY <1>8 DEF CreateDir, EntryWritten
  <2> QED
    BY <2>1 DEF Same, Added
<1> QED
  BY <1>1, <1>2, <1>3, <1>4, <1>5, <1>6, <1>7, <1>8 DEF Next

(* The directory after the write of a new entry.                           *)
LEMMA AddedFacts ==
  ASSUME FsInv, BitmapFits, Added
  PROVE  /\ RootOK(imap', dmap', blk') /\ EntriesOK(imap', blk')
         /\ FilesIn(RootIn(blk')) = FilesIn(RootIn(blk)) \union {<<call.name, call.inode>>}
         /\ InodesIn(RootIn(blk')) = InodesIn(RootIn(blk)) \union {call.inode}
         /\ call.slot \in Cells \ {0, 1} /\ call.slot \notin FileCellsIn(RootIn(blk))
<1> DEFINE B == EntryWritten
           d == RootIn(blk)
           e == RootIn(B)
           s == call.slot
           n == call.name
           k == call.inode
<1>1. /\ TypeOK /\ RootOK(imap, dmap, blk) /\ EntriesOK(imap, blk)
      /\ k \in imap /\ k \notin InodesIn(d) /\ n \notin EntryNames(d) /\ ModeIn(blk, k) = "File"
      /\ call.block = PointerIn(blk) /\ call.buf = d /\ s \in UnusedSlots(d)
  BY RootedFacts DEF Added, Creating
<1>2. k \in 0 .. MapBits - 1 /\ InodesIn(d) \subseteq 0 .. MapBits - 1 /\ 0 \in 0 .. MapBits - 1
      /\ d \in BlockValues
  BY <1>1, CallFacts, RootBehindTable, InodesOfBlock, LayoutFacts
<1>3. /\ PointerIn(B) = PointerIn(blk)
      /\ \A i \in 0 .. MapBits - 1 : ModeIn(B, i) = ModeIn(blk, i)
      /\ e[s] = Entry(n, k) /\ \A c \in Cells : c # s => e[c] = d[c]
      /\ s \in Cells \ {0, 1} /\ ~Used(d[s])
  BY <1>1, NewEntry
<1>4. blk' = B /\ imap' = imap /\ dmap' = dmap
  BY DEF Added
<1> HIDE DEF B, d, e, s, n, k
<1>5. /\ FileCellsIn(e) = FileCellsIn(d) \union {s} /\ FilesIn(e) = FilesIn(d) \union {<<n, k>>}
      /\ InodesIn(e) = InodesIn(d) \union {k} /\ s \notin FileCellsIn(d)
      /\ e[s].name = n /\ e[s].inode = k
  BY <1>3, EntryAdded
<1>6. RootOK(imap, dmap, B)
  <2>1. e[0] = d[0] /\ e[1] = d[1]
    BY <1>3, LayoutFacts
  <2> QED
    BY <1>1, <1>2, <1>3, <2>1 DEF RootOK, d, e
<1>7. \A i \in InodesIn(e) : i \in imap /\ ModeIn(B, i) = "File"
  BY <1>1, <1>2, <1>3, <1>5 DEF EntriesOK, d
<1>8. \A c \in FileCellsIn(d) : e[c] = d[c] /\ d[c].name # n /\ d[c].inode # k
  <2> TAKE c \in FileCellsIn(d)
  <2>1. c \in Cells /\ Used(d[c]) /\ c # s
    BY <1>5 DEF FileCellsIn
  <2>2. d[c].name \in EntryNames(d)
    BY <2>1 DEF EntryNames
  <2>3. d[c].inode \in InodesIn(d)
    BY <1>2, InodesOfBlock
  <2> QED
    BY <1>1, <1>3, <2>1, <2>2, <2>3
<1>9. \A b, c \in FileCellsIn(e) : b # c => e[b].name # e[c].name /\ e[b].inode # e[c].inode
  <2>1. \A b, c \in FileCellsIn(d) : b # c => d[b].name # d[c].name /\ d[b].inode # d[c].inode
    BY <1>1 DEF EntriesOK, d
  <2> QED
    BY <1>5, <1>8, <2>1
<1>10. EntriesOK(imap, B)
  BY <1>7, <1>9 DEF EntriesOK, e
<1> QED
  BY <1>3, <1>4, <1>5, <1>6, <1>10 DEF d, e, s, n, k

(* The directory after init_root_directory.                                *)
LEMMA FoundedFacts ==
  ASSUME FsInv, BitmapFits, Founded
  PROVE  /\ RootOK(imap', dmap', blk') /\ EntriesOK(imap', blk')
         /\ FilesIn(RootIn(blk')) = {}
<1> DEFINE B == [blk EXCEPT ![call.block] = RootDirBlock]
           s == SuperBlock.data_block_start
<1>1. /\ call.block >= s /\ call.block - s \in dmap
      /\ ModeIn(blk, 0) = "Directory" /\ PointerIn(blk) = call.block
  BY Views DEF FsInv, RootSound, Founded
<1>2. call.block # 3 /\ 3 \in Blocks
  <2>1. InodeBlock(0) < s
    <3>1. 0 \in 0 .. MapBits - 1
      BY LayoutFacts
    <3> QED
      BY <3>1, InodeInTable
  <2>2. InodeBlock(0) = 3 /\ 3 \in Blocks /\ call.block \in Nat /\ s \in Nat
    BY LayoutFacts DEF Founded
  <2> HIDE DEF s
  <2> QED
    BY <1>1, <2>1, <2>2
<1>3. B[3] = blk[3] /\ B[call.block] = RootDirBlock
  BY <1>2, WriteBlock, Types, BlockTypes DEF Founded, FsInv, DiskInv, StateOK
<1> HIDE DEF B
<1>4. PointerIn(B) = call.block /\ RootIn(B) = RootDirBlock /\ ModeIn(B, 0) = "Directory"
  BY <1>1, <1>3, LayoutFacts DEF PointerIn, RootIn, ModeIn
<1>5. RootOK(imap, dmap, B)
  BY <1>1, <1>4, BlockTypes DEF RootOK, Founded
<1>6. FileCellsIn(RootDirBlock) = {}
  BY BlockTypes, CellFacts DEF FileCellsIn
<1>7. FilesIn(RootDirBlock) = {} /\ InodesIn(RootDirBlock) = {}
  BY <1>6 DEF FilesIn, InodesIn
<1>8. EntriesOK(imap, B)
  BY <1>4, <1>6, <1>7 DEF EntriesOK
<1> QED
  BY <1>4, <1>5, <1>7, <1>8 DEF Founded, B

(* Every step keeps the root, the entries and the acknowledged files.      *)
LEMMA DirectoryNext ==
  ASSUME FsInv, BitmapFits, Next
  PROVE  RootIntact' /\ EntriesSound' /\ AckedFilesSurvive'
<1> SUFFICES ASSUME rooted'
             PROVE  /\ RootOK(imap', dmap', blk') /\ EntriesOK(imap', blk')
                    /\ acked' \subseteq FilesIn(RootIn(blk'))
  BY ViewsNext DEF AckedFilesSurvive
<1>1. CASE Same
  <2>1. RootOK(imap, dmap, blk) /\ EntriesOK(imap, blk) /\ acked \subseteq FilesIn(RootIn(blk))
    BY <1>1, RootedFacts DEF Same
  <2>2. RootOK(imap', dmap, blk') /\ EntriesOK(imap', blk')
    BY <1>1, <2>1, SameDirectory DEF Same
  <2> QED
    BY <1>1, <2>1, <2>2 DEF Same
<1>2. CASE Added
  <2>1. acked \subseteq FilesIn(RootIn(blk))
    BY <1>2, RootedFacts DEF Added
  <2> QED
    BY <1>2, <2>1, AddedFacts DEF Added
<1>3. CASE Founded
  BY <1>3, FoundedFacts DEF Founded
<1> QED
  BY <1>1, <1>2, <1>3, DirectorySteps

(* Every step keeps init_root_directory on its way.                        *)
LEMMA RootNext ==
  ASSUME FsInv, BitmapFits, Next
  PROVE  RootSound'
<1>0. TypeOK /\ ControlSound
  BY DEF FsInv, DiskInv
<1> USE DEF Finish, Return, DeviceFails, Continue
<1>1. RootIntact'
  BY DirectoryNext
<1>2. CASE RootDmap
  <2>1. CASE pc' = "idle"
    BY <1>1, <2>1 DEF RootSound
  <2>2. CASE pc' # "idle"
    <3>1. /\ pc' = "root_inode" /\ FreeBits(dmap) # {} /\ dmap' = dmap \union {FirstFree(dmap)}
          /\ call' = [call EXCEPT !.block = fs.data_block_start + FirstFree(dmap)]
      BY <1>2, <2>2 DEF RootDmap
    <3> DEFINE k == FirstFree(dmap)
               s == SuperBlock.data_block_start
    <3>2. fs = SuperBlock
      BY <1>0, <1>2 DEF RootDmap, ControlSound, Rooting
    <3>3. call'.block = s + k
      BY <1>0, <3>1, <3>2, Types DEF StateOK, Calls
    <3>4. k \in Nat /\ k \in dmap' /\ s \in Nat
      BY <3>1, FirstFreeFacts, LayoutFacts
    <3> HIDE DEF k, s
    <3>5. call'.block >= s /\ call'.block - s = k
      BY <3>3, <3>4
    <3> QED
      BY <1>1, <3>1, <3>4, <3>5 DEF RootSound, s
  <2> QED
    BY <2>1, <2>2
<1>3. CASE RootInode
  <2>1. CASE pc' = "idle"
    BY <1>1, <2>1 DEF RootSound
  <2>2. CASE pc' # "idle"
    <3>1. /\ pc = "root_inode" /\ pc' = "root_dir" /\ blk' = RootInodeWritten
          /\ UNCHANGED <<dmap, call>>
      BY <1>3, <2>2 DEF RootInode, RootInodeWritten, ROOT_DIRECTORY_INODE
    <3>2. blk'[3][0] = InodeLow(call.block) /\ blk'[3][1] = InodeHigh("Directory")
      BY <1>0, <3>1, RootInodeWrite
    <3>3. PointerIn(blk') = call.block /\ ModeIn(blk', 0) = "Directory"
      BY <3>2, CellFacts, LayoutFacts DEF PointerIn, ModeIn
    <3> QED
      BY <1>1, <3>1, <3>3, ViewsNext DEF RootSound, FsInv
  <2> QED
    BY <2>1, <2>2
<1>4. CASE ~RootDmap /\ ~RootInode
  <2>1. pc' \notin {"root_inode", "root_dir"}
    BY <1>4 DEF Next, Mount, MountFrom, FormatSuper, FormatImap, FormatDmap, RootImap, RootDir,
         CreateBegin, CreateImap, CreateInode, CreateDir, Crash
  <2> QED
    BY <1>1, <2>1 DEF RootSound
<1> QED
  BY <1>2, <1>3, <1>4

(* Every step keeps create_file's copy of the directory up to date.        *)
LEMMA CreateNext ==
  ASSUME FsInv, BitmapFits, Next
  PROVE  CreateSound'
<1> DEFINE Fresh(cl, p, d, ptr) ==
             /\ cl.block = ptr /\ cl.buf = d /\ cl.slot \in UnusedSlots(d)
             /\ cl.name \notin EntryNames(d) /\ cl.name \in Names
             /\ p # "create_imap" => \A f \in FilesIn(d) : f[2] # cl.inode
<1> SUFFICES ASSUME rooted', pc' \in Creating
             PROVE  /\ Fresh(call', pc', RootIn(blk'), PointerIn(blk'))
                    /\ pc' = "create_dir" => ModeIn(blk', call'.inode) = "File"
  BY ViewsNext DEF CreateSound
<1> USE DEF Finish, Return, DeviceFails, Continue
<1>0. TypeOK
  BY DEF FsInv, DiskInv
<1>1. ASSUME NEW n \in Names, CreateBegin(n)
      PROVE  /\ Fresh(call', pc', RootIn(blk'), PointerIn(blk')) /\ pc' = "create_imap"
  <2>1. blk' = blk /\ pc' = "create_imap" /\ CreateCheck(n) = "Ok"
    BY <1>1 DEF CreateBegin, disk, Creating
  <2>2. call' = [name |-> n, block |-> PointerIn(blk), buf |-> RootIn(blk),
                 slot |-> Min(UnusedSlots(RootIn(blk))), inode |-> 0]
    BY <1>1, <2>1, Views DEF CreateBegin, ROOT_DIRECTORY_INODE, RootBlock, RootIn, Creating
  <2>3. n \notin EntryNames(RootIn(blk)) /\ UnusedSlots(RootIn(blk)) # {}
    BY <1>0, <2>1, CreateCheckFacts, Views DEF RootIn
  <2>4. Min(UnusedSlots(RootIn(blk))) \in UnusedSlots(RootIn(blk))
    <3>1. UnusedSlots(RootIn(blk)) \in SUBSET Nat
      BY LayoutFacts DEF UnusedSlots
    <3> QED
      BY <2>3, <3>1, MinInSet
  <2> DEFINE r == RootIn(blk)
             slot == Min(UnusedSlots(r))
  <2>5. r = RootIn(blk) /\ slot \in UnusedSlots(r) /\ n \notin EntryNames(r)
    BY <2>3, <2>4
  <2>6. /\ call'.name = n /\ call'.block = PointerIn(blk) /\ call'.buf = r /\ call'.slot = slot
    BY <2>2
  <2> HIDE DEF r, slot
  <2> QED
    BY <2>1, <2>5, <2>6
<1>2. CASE CreateImap
  <2>1. /\ pc = "create_imap" /\ blk' = blk /\ rooted /\ pc' = "create_inode"
        /\ FreeBits(imap) # {} /\ call' = [call EXCEPT !.inode = FirstFree(imap)]
    BY <1>2 DEF CreateImap, Creating
  <2>2. call \in Calls
    BY <1>0, Types DEF StateOK
  <2>3. /\ call'.block = call.block /\ call'.buf = call.buf /\ call'.slot = call.slot
        /\ call'.name = call.name /\ call'.inode = FirstFree(imap)
    BY <2>1, <2>2 DEF Calls
  <2>4. FirstFree(imap) \notin imap /\ \A f \in FilesIn(RootIn(blk)) : f[2] \in imap
    BY <2>1, FirstFreeFacts, RootedFacts DEF EntriesOK, InodesIn
  <2>5. /\ call.block = PointerIn(blk) /\ call.buf = RootIn(blk)
        /\ call.slot \in UnusedSlots(RootIn(blk))
        /\ call.name \notin EntryNames(RootIn(blk)) /\ call.name \in Names
    BY <2>1, RootedFacts DEF Creating
  <2> QED
    BY <2>1, <2>3, <2>4, <2>5
<1>3. CASE CreateInode
  <2>1. /\ pc = "create_inode" /\ blk' = FileInodeWritten /\ rooted /\ pc' = "create_dir"
        /\ call' = call
    BY <1>3 DEF CreateInode, FileInodeWritten, Creating
  <2>2. /\ call.block = PointerIn(blk) /\ call.buf = RootIn(blk)
        /\ call.slot \in UnusedSlots(RootIn(blk)) /\ RootOK(imap, dmap, blk)
        /\ call.name \notin EntryNames(RootIn(blk)) /\ call.name \in Names
        /\ call.inode # 0 /\ call.inode \notin InodesIn(RootIn(blk))
    BY <2>1, RootedFacts DEF Creating
  <2>3. /\ PointerIn(blk') = PointerIn(blk) /\ RootIn(blk') = RootIn(blk)
        /\ ModeIn(blk', call.inode) = "File"
    <3>1. /\ PointerIn(FileInodeWritten) = PointerIn(blk)
          /\ RootIn(FileInodeWritten) = RootIn(blk)
          /\ ModeIn(FileInodeWritten, call.inode) = "File"
      BY <1>0, <2>2, NewInode
    <3> QED
      BY <2>1, <3>1
  <2>4. \A f \in FilesIn(RootIn(blk)) : f[2] # call.inode
    BY <2>2 DEF InodesIn
  <2> QED
    BY <2>1, <2>2, <2>3, <2>4
<1>4. CASE ~CreateImap /\ ~CreateInode /\ ~(\E n \in Names : CreateBegin(n))
  <2>1. pc' \notin Creating
    BY <1>4 DEF Next, Mount, MountFrom, FormatSuper, FormatImap, FormatDmap, RootImap, RootDmap,
         RootInode, RootDir, CreateDir, Crash, Creating
  <2> QED
    BY <2>1
<1> HIDE DEF Fresh
<1> QED
  BY <1>1, <1>2, <1>3, <1>4

(* A step loses at most one inode, and counts a fault when it does.        *)
LEMMA LeakSteps ==
  ASSUME FsInv, BitmapFits, Next, rooted'
  PROVE  \/ Leaked' = {} /\ faults' \in Nat
         \/ rooted /\ Leaked' \subseteq Leaked /\ faults' \in {faults, faults + 1}
         \/ rooted /\ \E x : Leaked' \subseteq Leaked \union {x} /\ faults' = faults + 1
<1> DEFINE I == InodesIn(RootIn(blk))
           J == InodesIn(RootIn(blk'))
<1>0. Leaked = imap \ (I \union {0} \union Reserved) /\ Leaked' = imap' \ (J \union {0} \union Reserved')
  BY Views, ViewsNext
<1>a. faults \in Nat
  BY LayoutFacts DEF FsInv, DiskInv, TypeOK
<1> USE DEF Finish, Return, DeviceFails, Continue
<1>1. CASE Founded
  BY <1>0, <1>1, <1>a DEF Founded
<1>2. CASE Added
  <2>1. J = I \union {call.inode}
    BY <1>2, AddedFacts
  <2>2. Reserved = {call.inode} /\ Reserved' = {}
    BY <1>2 DEF Added, Reserved
  <2> HIDE DEF I, J
  <2> QED
    BY <1>0, <1>2, <2>1, <2>2 DEF Added
<1>3. CASE Same
  <2>0. J = I /\ rooted
    BY <1>3 DEF Same
  <2> HIDE DEF I, J
  <2>1. CASE Mount \/ \E n \in Names : CreateBegin(n)
    <3>1. /\ pc = "idle" /\ pc' \in {"idle", "create_imap"} /\ imap' = imap
          /\ faults' \in {faults, faults + 1}
      BY <2>1 DEF Mount, MountFrom, CreateBegin, disk
    <3>2. Reserved = {} /\ Reserved' = {}
      BY <3>1 DEF Reserved
    <3> QED
      BY <1>0, <2>0, <3>1, <3>2
  <2>2. CASE Crash
    <3>1. pc' = "idle" /\ imap' = imap /\ faults' = faults + 1
      BY <2>2 DEF Crash, disk
    <3>2. Reserved \subseteq {call.inode} /\ Reserved' = {}
      BY <3>1 DEF Reserved
    <3>3. Leaked' \subseteq Leaked \union {call.inode}
      BY <1>0, <2>0, <3>1, <3>2
    <3> QED
      BY <2>0, <3>1, <3>3
  <2>3. CASE CreateImap
    <3> DEFINE k == FirstFree(imap)
    <3>1. /\ pc = "create_imap"
          /\ \/ /\ pc' = "create_inode" /\ imap' = imap \union {k} /\ faults' = faults
                /\ call' = [call EXCEPT !.inode = k]
             \/ pc' = "idle" /\ imap' \subseteq imap \union {k} /\ faults' = faults + 1
             \/ pc' = "idle" /\ imap' = imap /\ faults' = faults
      BY <2>3 DEF CreateImap
    <3>2. call' = [call EXCEPT !.inode = k] => call'.inode = k
      BY Types DEF FsInv, DiskInv, StateOK, Calls
    <3> HIDE DEF k
    <3>3. Reserved = {} /\ (pc' = "idle" => Reserved' = {})
          /\ (pc' = "create_inode" => Reserved' = {call'.inode})
      BY <3>1 DEF Reserved
    <3>4. CASE pc' = "create_inode"
      <4>1. Leaked' \subseteq Leaked
        BY <1>0, <2>0, <3>1, <3>2, <3>3, <3>4
      <4> QED
        BY <2>0, <3>1, <3>4, <4>1
    <3>5. CASE pc' = "idle" /\ imap' \subseteq imap \union {k} /\ faults' = faults + 1
      <4>1. Leaked' \subseteq Leaked \union {k}
        BY <1>0, <2>0, <3>3, <3>5
      <4> QED
        BY <2>0, <3>5, <4>1
    <3>6. CASE pc' = "idle" /\ imap' = imap /\ faults' = faults
      BY <1>0, <2>0, <3>3, <3>6
    <3> QED
      BY <3>1, <3>4, <3>5, <3>6
  <2>4. CASE CreateInode
    <3>1. InodeBlock(call.inode) \in Blocks
      BY CallFacts, InodeInTable DEF FsInv, DiskInv
    <3>2. /\ pc = "create_inode" /\ imap' = imap
          /\ \/ pc' = "create_dir" /\ call' = call /\ faults' = faults
             \/ pc' = "idle" /\ faults' = faults + 1
      BY <2>4, <3>1 DEF CreateInode
    <3>3. Reserved = {call.inode} /\ (pc' = "idle" => Reserved' = {})
          /\ (pc' = "create_dir" => Reserved' = {call'.inode})
      BY <3>2 DEF Reserved
    <3>4. Leaked' \subseteq Leaked \union {call.inode}
      BY <1>0, <2>0, <3>2, <3>3
    <3>5. pc' = "create_dir" => Leaked' \subseteq Leaked
      BY <1>0, <2>0, <3>2, <3>3
    <3> QED
      BY <2>0, <3>2, <3>4, <3>5
  <2>5. CASE CreateDir
    <3>1. /\ pc = "create_dir" /\ pc' = "idle" /\ imap' = imap
          /\ \/ faults' = faults + 1
             \/ faults' = faults /\ acked' = acked \union {<<call.name, call.inode>>}
                /\ blk' = EntryWritten /\ UNCHANGED dmap
      BY <2>5 DEF CreateDir, EntryWritten
    <3>2. CASE faults' = faults + 1
      <4>1. Reserved = {call.inode} /\ Reserved' = {}
        BY <3>1 DEF Reserved
      <4>2. Leaked' \subseteq Leaked \union {call.inode}
        BY <1>0, <2>0, <3>1, <4>1
      <4> QED
        BY <2>0, <3>2, <4>2
    <3>3. CASE faults' = faults
      <4>1. Added
        BY <1>a, <2>0, <3>1, <3>3 DEF Added
      <4> QED
        BY <4>1, <1>2
    <3> QED
      BY <3>1, <3>2, <3>3
  <2>6. ~FormatSuper /\ ~FormatImap /\ ~FormatDmap /\ ~RootImap /\ ~RootDmap /\ ~RootInode /\ ~RootDir
    <3>1. pc \notin Formatting \union Rooting /\ ~fresh
      BY <2>0, RootedFacts
    <3> QED
      BY <3>1 DEF FormatSuper, FormatImap, FormatDmap, RootImap, RootDmap, RootInode, RootDir,
           Formatting, Rooting
  <2> QED
    BY <2>1, <2>2, <2>3, <2>4, <2>5, <2>6 DEF Next
<1> QED
  BY <1>1, <1>2, <1>3, DirectorySteps

LEMMA LeakNext ==
  ASSUME FsInv, BitmapFits, Next
  PROVE  LeakBound'
<1> SUFFICES ASSUME rooted' PROVE Cardinality(Leaked') <= faults'
  BY DEF LeakBound
<1>1. faults \in Nat /\ IsFiniteSet(Leaked) /\ Cardinality(Leaked) \in Nat
  <2>1. Leaked \subseteq 0 .. MapBits - 1
    BY DEF Leaked, FsInv, DiskInv, TypeOK
  <2>2. IsFiniteSet(0 .. MapBits - 1)
    BY LayoutFacts, FS_Interval
  <2>3. IsFiniteSet(Leaked) /\ Cardinality(Leaked) \in Nat
    BY <2>1, <2>2, FS_Subset, FS_CardinalityType
  <2>4. faults \in Nat
    BY LayoutFacts DEF FsInv, DiskInv, TypeOK
  <2> QED
    BY <2>3, <2>4
<1>2. CASE Leaked' = {} /\ faults' \in Nat
  BY <1>2, FS_EmptySet
<1>3. CASE rooted /\ Leaked' \subseteq Leaked /\ faults' \in {faults, faults + 1}
  <2>1. Cardinality(Leaked') <= Cardinality(Leaked) /\ Cardinality(Leaked') \in Nat
    BY <1>1, <1>3, FS_Subset, FS_CardinalityType
  <2>2. Cardinality(Leaked) <= faults
    BY <1>3 DEF FsInv, LeakBound
  <2> QED
    BY <1>1, <1>3, <2>1, <2>2
<1>4. ASSUME NEW x, rooted, Leaked' \subseteq Leaked \union {x}, faults' = faults + 1
      PROVE  Cardinality(Leaked') <= faults'
  <2>1. IsFiniteSet(Leaked \union {x}) /\ Cardinality(Leaked \union {x}) <= Cardinality(Leaked) + 1
        /\ Cardinality(Leaked \union {x}) \in Nat
    BY <1>1, FS_AddElement, FS_CardinalityType
  <2>2. Cardinality(Leaked') <= Cardinality(Leaked \union {x}) /\ Cardinality(Leaked') \in Nat
    BY <1>4, <2>1, FS_Subset, FS_CardinalityType
  <2>3. Cardinality(Leaked) <= faults
    BY <1>4 DEF FsInv, LeakBound
  <2> QED
    BY <1>1, <1>4, <2>1, <2>2, <2>3
<1> QED
  BY <1>2, <1>3, <1>4, LeakSteps

LEMMA FsInvInit == Init => FsInv
<1> SUFFICES ASSUME Init PROVE FsInv
  OBVIOUS
<1>1. DiskInv
  BY DiskInvInit
<1>2. pc = "idle" /\ ~rooted
  BY DEF Init
<1> QED
  BY <1>1, <1>2 DEF FsInv, RootSound, RootIntact, CreateSound, EntriesSound,
     AckedFilesSurvive, LeakBound, Creating

LEMMA FsInvNext ==
  ASSUME BitmapFits
  PROVE  FsInv /\ [Next]_fsVars => FsInv'
<1> SUFFICES ASSUME FsInv, [Next]_fsVars PROVE FsInv'
  OBVIOUS
<1>1. DiskInv'
  BY DiskInvNext DEF FsInv
<1>2. CASE Next
  <2>1. RootIntact' /\ EntriesSound' /\ AckedFilesSurvive'
    BY <1>2, DirectoryNext
  <2>2. RootSound' /\ CreateSound' /\ LeakBound'
    BY <1>2, RootNext, CreateNext, LeakNext
  <2> QED
    BY <1>1, <2>1, <2>2 DEF FsInv
<1>3. CASE UNCHANGED fsVars
  <2>1. UNCHANGED <<imap, dmap, blk, pc, call, rooted, acked, faults>>
    BY <1>3 DEF fsVars, disk
  <2>2. RootBlock' = RootBlock /\ InodePointer(0)' = InodePointer(0)
        /\ \A i : InodeMode(i)' = InodeMode(i)
    BY <2>1 DEF RootBlock, InodePointer, InodeMode
  <2>3. Files' = Files /\ FileCells' = FileCells /\ Leaked' = Leaked
    BY <2>1, <2>2 DEF Files, FileCells, Leaked, Reserved
  <2>4. RootIntact' /\ EntriesSound'
    <3>1. RootIntact /\ EntriesSound
      BY DEF FsInv, RootSound
    <3> QED
      BY <2>1, <3>1, Views, ViewsNext
  <2>5. RootSound'
    BY <2>1, <2>2, <2>4 DEF FsInv, RootSound
  <2>6. CreateSound'
    BY <2>1, <2>2, <2>3 DEF FsInv, CreateSound
  <2>7. AckedFilesSurvive' /\ LeakBound'
    BY <2>1, <2>3 DEF FsInv, AckedFilesSurvive, LeakBound
  <2> QED
    BY <1>1, <2>4, <2>5, <2>6, <2>7 DEF FsInv
<1> QED
  BY <1>2, <1>3

LEMMA FsInvAlways ==
  ASSUME BitmapFits
  PROVE  Spec => []FsInv
  BY FsInvInit, FsInvNext, PTL DEF Spec

(***************************************************************************)
(* On a device whose inode bitmap fits its table, nothing that create_file *)
(* does, interrupted or not, damages the root directory.                   *)
(***************************************************************************)
THEOREM RootStaysIntact ==
  ASSUME BitmapFits
  PROVE  Spec => []RootIntact
<1>1. FsInv => RootIntact
  BY DEF FsInv, RootSound
<1> QED
  BY <1>1, FsInvAlways, PTL

(***************************************************************************)
(* The entries of the root directory refer to allocated inodes of files,   *)
(* and no two of them share a name or an inode.                            *)
(***************************************************************************)
THEOREM EntriesStaySound ==
  ASSUME BitmapFits
  PROVE  Spec => []EntriesSound
<1>1. FsInv => EntriesSound
  BY DEF FsInv
<1> QED
  BY <1>1, FsInvAlways, PTL

(***************************************************************************)
(* What create_file returned Ok for is found in the directory after any    *)
(* number of failures, crashes and mounts.                                 *)
(***************************************************************************)
THEOREM CreatedFilesSurvive ==
  ASSUME BitmapFits
  PROVE  Spec => []AckedFilesSurvive
<1>1. FsInv => AckedFilesSurvive
  BY DEF FsInv
<1> QED
  BY <1>1, FsInvAlways, PTL

(***************************************************************************)
(* Every inode that is allocated for nothing is paid for by a failed       *)
(* device call or a crash of its own.                                      *)
(***************************************************************************)
THEOREM LeaksArePaidFor ==
  ASSUME BitmapFits
  PROVE  Spec => []LeakBound
<1>1. FsInv => LeakBound
  BY DEF FsInv
<1> QED
  BY <1>1, FsInvAlways, PTL

(***************************************************************************)
(* The other side of the overrun of the inode table: when the bitmap fits, *)
(* what create_file returned Ok for can be read back as a file, for good.  *)
(***************************************************************************)
THEOREM CreatedFilesAreFiles ==
  ASSUME BitmapFits
  PROVE  Spec => []AckedInodeIsFile
<1>1. FsInv => AckedInodeIsFile
  BY DEF FsInv, EntriesSound, AckedFilesSurvive, AckedInodeIsFile
<1> QED
  BY <1>1, FsInvAlways, PTL

-----------------------------------------------------------------------------
(* The refinement of FileNamespace.                                        *)

(* While a slot is free there is room for a file.                          *)
LEMMA RoomForOne ==
  ASSUME NEW d, NEW s \in Cells \ {0, 1}, s \notin FileCellsIn(d)
  PROVE  Cardinality(FilesIn(d)) < DIR_ENTRIES_PER_BLOCK - 2
<1> DEFINE C == FileCellsIn(d)
           F == FilesIn(d)
           g == [c \in C |-> <<d[c].name, d[c].inode>>]
           n == DIR_ENTRIES_PER_BLOCK
<1>1. n \in Nat /\ n >= 2 /\ Cells = 0 .. n - 1 /\ 0 \in Cells /\ 1 \in Cells
  BY LayoutFacts DEF DIR_ENTRIES_PER_BLOCK, Cells
<1> HIDE DEF n
<1>2. IsFiniteSet(Cells) /\ Cardinality(Cells) = n
  BY <1>1, FS_Interval
<1>3. IsFiniteSet(Cells \ {0}) /\ Cardinality(Cells \ {0}) = n - 1
  <2>1. IsFiniteSet(Cells \ {0}) /\ Cardinality(Cells \ {0}) = Cardinality(Cells) - 1
    BY <1>1, <1>2, FS_RemoveElement, Zenon
  <2> QED
    BY <1>2, <2>1
<1>4. IsFiniteSet((Cells \ {0}) \ {1}) /\ Cardinality((Cells \ {0}) \ {1}) = n - 2
  <2>0. 1 \in Cells \ {0}
    BY <1>1
  <2>1. /\ IsFiniteSet((Cells \ {0}) \ {1})
        /\ Cardinality((Cells \ {0}) \ {1}) = Cardinality(Cells \ {0}) - 1
    BY <1>3, <2>0, FS_RemoveElement, Zenon
  <2> QED
    BY <1>1, <1>3, <2>1
<1>5. /\ IsFiniteSet(((Cells \ {0}) \ {1}) \ {s})
      /\ Cardinality(((Cells \ {0}) \ {1}) \ {s}) = n - 3
  <2>1. /\ IsFiniteSet(((Cells \ {0}) \ {1}) \ {s})
        /\ Cardinality(((Cells \ {0}) \ {1}) \ {s}) = Cardinality((Cells \ {0}) \ {1}) - 1
    BY <1>4, FS_RemoveElement
  <2> QED
    BY <1>1, <1>4, <2>1
<1>6. IsFiniteSet(C) /\ Cardinality(C) <= n - 3
  <2>1. C \subseteq ((Cells \ {0}) \ {1}) \ {s}
    BY DEF FileCellsIn
  <2> QED
    BY <1>5, <2>1, FS_Subset
<1>7. g \in Surjection(C, F)
  BY DEF Surjection, FilesIn
<1> HIDE DEF C, F, g
<1>8. IsFiniteSet(F) /\ Cardinality(F) <= Cardinality(C)
  BY <1>6, <1>7, FS_Surjection
<1>9. Cardinality(F) \in Nat /\ Cardinality(C) \in Nat
  BY <1>6, <1>8, FS_CardinalityType
<1> QED
  BY <1>1, <1>6, <1>8, <1>9 DEF F, n

(* The steps of the name space that a step of SFS can be.                  *)
LEMMA NamespaceStep ==
  ASSUME FsInv, BitmapFits, Next
  PROVE  [Namespace!Next]_(Namespace!nsVars)
<1> DEFINE F == FilesIn(RootIn(blk))
           G == FilesIn(RootIn(blk'))
<1>0. Files = F /\ Files' = G
  BY Views, ViewsNext
<1> HIDE DEF F, G
<1>a. rooted \in BOOLEAN /\ rooted' \in BOOLEAN
  <2>1. TypeOK /\ TypeOK'
    BY DiskInvNext DEF FsInv, DiskInv
  <2> QED
    BY <2>1 DEF TypeOK
<1>1. CASE ~rooted'
  <2>1. Namespace!Reset
    BY <1>a, <1>1 DEF Namespace!Reset
  <2> QED
    BY <2>1 DEF Namespace!Next
<1>2. CASE rooted' /\ Same
  <2>1. rooted /\ G = F /\ acked' = acked
    BY <1>2 DEF Same, F, G
  <2>2. UNCHANGED Namespace!nsVars
    BY <1>0, <1>a, <1>2, <2>1 DEF Namespace!nsVars
  <2> QED
    BY <2>2
<1>3. CASE rooted' /\ Added
  <2>1. /\ rooted /\ G = F \union {<<call.name, call.inode>>}
        /\ acked' \in {acked, acked \union {<<call.name, call.inode>>}}
    BY <1>3, AddedFacts DEF Added, F, G
  <2>2. call.name \in Names /\ call.inode \in 1 .. MapBits - 1
    <3>1. call.name \in Names /\ call.inode # 0 /\ call.inode \in 0 .. MapBits - 1
      BY <1>3, RootedFacts, CallFacts DEF Added, Creating
    <3> QED
      BY <3>1, LayoutFacts
  <2>3. \A f \in F : f[1] # call.name /\ f[2] # call.inode
    <3>1. /\ call.name \notin EntryNames(RootIn(blk)) /\ call.inode \notin InodesIn(RootIn(blk))
      BY <1>3, RootedFacts DEF Added, Creating
    <3>2. ASSUME NEW f \in F PROVE f[1] \in EntryNames(RootIn(blk)) /\ f[2] \in InodesIn(RootIn(blk))
      <4>1. PICK c \in FileCellsIn(RootIn(blk)) :
                f = <<RootIn(blk)[c].name, RootIn(blk)[c].inode>>
        BY DEF F, FilesIn
      <4>2. c \in Cells /\ Used(RootIn(blk)[c]) /\ f[1] = RootIn(blk)[c].name
        BY <4>1 DEF FileCellsIn
      <4> QED
        BY <4>2 DEF EntryNames, InodesIn, F
    <3> QED
      BY <3>1, <3>2
  <2>4. Cardinality(F) < DIR_ENTRIES_PER_BLOCK - 2
    BY <1>3, AddedFacts, RoomForOne DEF F
  <2>5. Namespace!Create(call.name, call.inode)
    <3>1. /\ (IF rooted THEN Files ELSE {}) = F /\ (IF rooted' THEN Files' ELSE {}) = G
          /\ (IF rooted THEN acked ELSE {}) = acked /\ (IF rooted' THEN acked' ELSE {}) = acked'
          /\ rooted' = rooted
      BY <1>0, <1>a, <1>3, <2>1
    <3>2. /\ rooted
          /\ Cardinality(IF rooted THEN Files ELSE {}) < DIR_ENTRIES_PER_BLOCK - 2
          /\ \A f \in (IF rooted THEN Files ELSE {}) : f[1] # call.name /\ f[2] # call.inode
      BY <2>1, <2>3, <2>4, <3>1
    <3>3. /\ (IF rooted' THEN Files' ELSE {})
               = (IF rooted THEN Files ELSE {}) \union {<<call.name, call.inode>>}
          /\ (IF rooted' THEN acked' ELSE {})
               \in {IF rooted THEN acked ELSE {},
                    (IF rooted THEN acked ELSE {}) \union {<<call.name, call.inode>>}}
      BY <2>1, <3>1, Zenon
    <3>4. \A S : Namespace!Cardinality(S) = Cardinality(S)
      BY Zenon DEF Cardinality, Namespace!Cardinality
    <3> QED
      BY <3>1, <3>2, <3>3, <3>4, Zenon DEF Namespace!Create
  <2> QED
    BY <2>2, <2>5 DEF Namespace!Next
<1>4. CASE rooted' /\ Founded
  <2>1. ~rooted /\ G = {} /\ acked' = {}
    BY <1>4, FoundedFacts DEF Founded, G
  <2>2. Namespace!Ready
    BY <1>0, <1>a, <1>4, <2>1 DEF Namespace!Ready
  <2> QED
    BY <2>2 DEF Namespace!Next
<1> QED
  BY <1>1, <1>2, <1>3, <1>4, DirectorySteps

(***************************************************************************)
(* create_file is atomic: on a device whose inode bitmap fits its table,   *)
(* SFS with its crashes and failing device calls implements the name space *)
(* of FileNamespace, in which a file appears at once and stays.            *)
(***************************************************************************)
THEOREM FsImplementsNamespace ==
  ASSUME BitmapFits
  PROVE  Spec => ImplementsNamespace
<1>1. Init => Namespace!Init
  BY DEF Init, Namespace!Init
<1>2. FsInv /\ [Next]_fsVars => [Namespace!Next]_(Namespace!nsVars)
  <2> SUFFICES ASSUME FsInv, [Next]_fsVars PROVE [Namespace!Next]_(Namespace!nsVars)
    OBVIOUS
  <2>1. CASE Next
    BY <2>1, NamespaceStep
  <2>2. CASE UNCHANGED fsVars
    <3>1. UNCHANGED <<blk, rooted, acked>>
      BY <2>2 DEF fsVars, disk
    <3>2. Files' = Files
      BY <3>1, Views, ViewsNext
    <3>3. UNCHANGED Namespace!nsVars
      BY <3>1, <3>2 DEF Namespace!nsVars
    <3> QED
      BY <3>3
  <2> QED
    BY <2>1, <2>2
<1> QED
  BY <1>1, <1>2, FsInvAlways, PTL DEF Spec, ImplementsNamespace, Namespace!Spec

-----------------------------------------------------------------------------
(* RootDirEntries: further names beside create_file, on a disk of any      *)
(* size, also one whose inodes overrun the table.                          *)

(***************************************************************************)
(* Why add_root_dir_entry finds the directory where the last operation     *)
(* left it: the directory block is not the one with inode 0, so that no    *)
(* write of entries moves the root, and a running create_file writes to    *)
(* the directory block and nowhere else.                                   *)
(***************************************************************************)
RootFixed ==
  /\ pc = "root_dir" => InodePointer(0) = call.block
  /\ rooted => InodePointer(0) # 3
  /\ rooted /\ pc \in Creating => call.block = InodePointer(0)

AddInv == DiskInv /\ RootFixed

(* When add_root_dir_entry gets as far as its write.                       *)
LEMMA AddCheckFacts ==
  ASSUME TypeOK, NEW n \in Names
  PROVE  /\ AddCheck(n) \in ErrorNames
         /\ AddCheck(n) = "Ok" =>
              InodePointer(0) \in Blocks /\ FreeDirSlots(blk[InodePointer(0)]) # {}
<1> DEFINE root == InodePointer(0)
           mode == InodeMode(0)
<1>1. 0 \notin Blocks
  BY LayoutFacts
<1> HIDE DEF root, mode
<1>2. CASE n \in LongNames
  BY <1>2 DEF AddCheck, ErrorNames
<1>3. CASE n \notin LongNames /\ mode = "invalid"
  BY <1>3 DEF AddCheck, ErrorNames, ROOT_DIRECTORY_INODE, mode
<1>4. CASE n \notin LongNames /\ mode # "invalid" /\ root \notin Blocks
  BY <1>4 DEF AddCheck, ErrorNames, ROOT_DIRECTORY_INODE, mode, root
<1>5. CASE n \notin LongNames /\ mode # "invalid" /\ root \in Blocks
  BY <1>1, <1>5 DEF AddCheck, ErrorNames, ROOT_DIRECTORY_INODE, mode, root
<1> QED
  BY <1>2, <1>3, <1>4, <1>5

(* The directory with a further name in its first slot for one.            *)
NameAdded(i, n) ==
  [blk EXCEPT ![InodePointer(0)] =
     [@ EXCEPT ![Min(FreeDirSlots(blk[InodePointer(0)]))] = Entry(n, i)]]

(* What add_root_dir_entry does: one entry at most, in a free slot.        *)
LEMMA AddFacts ==
  ASSUME TypeOK, NEW i \in 0 .. MapBits - 1, NEW n \in Names, AddRootDirEntry(i, n)
  PROVE  /\ pc = "idle" /\ pc' = "idle" /\ UNCHANGED <<super, imap, dmap, fs, fresh, call, rooted, acked>>
         /\ Outcome
         /\ blk' # blk =>
              /\ InodePointer(0) \in Blocks
              /\ \E s \in FreeDirSlots(blk[InodePointer(0)]) :
                   \A c \in Cells : c # s => blk'[InodePointer(0)][c] = blk[InodePointer(0)][c]
              /\ \A b \in Blocks : b # InodePointer(0) => blk'[b] = blk[b]
         /\ blk' \in [Blocks -> BlockValues]
<1> DEFINE root == InodePointer(0)
           s == Min(FreeDirSlots(blk[root]))
           v == [blk[root] EXCEPT ![s] = Entry(n, i)]
<1>1. pc = "idle" /\ pc' = "idle" /\ UNCHANGED <<super, imap, dmap, fs, fresh, call, rooted, acked>>
  BY DEF AddRootDirEntry, Finish, DeviceFails, Return
<1>2. Outcome
  <2>1. AddCheck(n) \in ErrorNames /\ "Ok" \in ErrorNames /\ "BlockError" \in ErrorNames
    BY AddCheckFacts DEF ErrorNames
  <2> QED
    BY <2>1, Outcomes DEF AddRootDirEntry
<1>3. blk' = blk \/ (AddCheck(n) = "Ok" /\ blk' = NameAdded(i, n))
  BY DEF AddRootDirEntry, NameAdded, ROOT_DIRECTORY_INODE
<1>4. blk \in [Blocks -> BlockValues]
  BY Types DEF StateOK
<1>5. CASE blk' = blk
  BY <1>1, <1>2, <1>4, <1>5
<1>6. CASE AddCheck(n) = "Ok" /\ blk' = NameAdded(i, n)
  <2>1. root \in Blocks /\ FreeDirSlots(blk[root]) # {}
    BY <1>6, AddCheckFacts
  <2>2. FreeDirSlots(blk[root]) \in SUBSET Nat /\ FreeDirSlots(blk[root]) \subseteq Cells
    BY LayoutFacts DEF FreeDirSlots
  <2>3. s \in FreeDirSlots(blk[root]) /\ s \in Cells
    BY <2>1, <2>2, MinInSet
  <2>4. blk' = [blk EXCEPT ![root] = v]
    BY <1>6 DEF NameAdded
  <2>5. Entry(n, i) \in CellValues /\ blk[root] \in [Cells -> CellValues]
    BY <1>4, <2>1, CellTypes DEF BlockValues
  <2> HIDE DEF s
  <2>6. v \in BlockValues /\ \A c \in Cells : c # s => v[c] = blk[root][c]
    BY <2>3, <2>5 DEF BlockValues
  <2> HIDE DEF v, root
  <2>7. /\ blk' \in [Blocks -> BlockValues] /\ blk'[root] = v
        /\ \A b \in Blocks : b # root => blk'[b] = blk[b]
    BY <1>4, <2>1, <2>4, <2>6, WriteBlock
  <2>8. \E t \in FreeDirSlots(blk[root]) : \A c \in Cells : c # t => blk'[root][c] = blk[root][c]
    BY <2>3, <2>6, <2>7
  <2> QED
    BY <1>1, <1>2, <2>1, <2>7, <2>8 DEF root
<1> QED
  BY <1>3, <1>5, <1>6

(* It disturbs nothing that the other operations rely on.                  *)
LEMMA AddKeepsInv ==
  ASSUME AddInv, NEW i \in 0 .. MapBits - 1, NEW n \in Names, AddRootDirEntry(i, n)
  PROVE  /\ AddInv'
         /\ rooted => \A c \in Cells : Used(RootBlock[c]) /\ RootBlock[c].inode # 0
                                         => RootBlock'[c] = RootBlock[c]
<1> DEFINE root == InodePointer(0)
<1>0. TypeOK /\ ControlSound /\ AckedSound /\ RootFixed
  BY DEF AddInv, DiskInv
<1>1. /\ pc = "idle" /\ pc' = "idle" /\ Outcome /\ blk' \in [Blocks -> BlockValues]
      /\ UNCHANGED <<super, imap, dmap, fs, fresh, call, rooted, acked>>
  BY <1>0, AddFacts
<1>2. TypeOK'
  BY <1>0, <1>1, Types DEF StateOK, Outcome
<1>3. ControlSound' /\ AckedSound'
  BY <1>0, <1>1 DEF ControlSound, AckedSound, Formatting, Rooting, Creating
<1>4. blk' # blk =>
        /\ root \in Blocks
        /\ \E s \in FreeDirSlots(blk[root]) :
             \A c \in Cells : c # s => blk'[root][c] = blk[root][c]
        /\ \A b \in Blocks : b # root => blk'[b] = blk[b]
  BY <1>0, AddFacts
<1>5. root = PointerIn(blk) /\ RootBlock = blk[root]
      /\ InodePointer(0)' = PointerIn(blk') /\ RootBlock' = blk'[PointerIn(blk')]
  BY Views, ViewsNext DEF RootIn
<1>6. ASSUME rooted
      PROVE  PointerIn(blk') = root
  <2>1. root # 3
    BY <1>0, <1>6 DEF RootFixed
  <2>2. blk'[3] = blk[3]
    BY <1>4, <2>1, LayoutFacts
  <2> QED
    BY <1>5, <2>2 DEF PointerIn
<1> HIDE DEF root
<1>7. RootFixed'
  BY <1>0, <1>1, <1>5, <1>6 DEF RootFixed, Creating, root
<1>8. ASSUME rooted, NEW c \in Cells, Used(RootBlock[c]), RootBlock[c].inode # 0
      PROVE  RootBlock'[c] = RootBlock[c]
  <2>1. CASE blk' = blk
    BY <1>5, <1>6, <1>8, <2>1
  <2>2. CASE blk' # blk
    <3>1. PICK s \in FreeDirSlots(blk[root]) :
            \A d \in Cells : d # s => blk'[root][d] = blk[root][d]
      BY <1>4, <2>2
    <3>2. c # s
      BY <1>5, <1>8, <3>1 DEF FreeDirSlots
    <3> QED
      BY <1>5, <1>6, <1>8, <3>1, <3>2
  <2> QED
    BY <2>1, <2>2
<1> QED
  BY <1>2, <1>3, <1>7, <1>8 DEF AddInv, DiskInv

(* A block keeps the root where it is if it keeps the first half of inode  *)
(* 0, and no write of create_file changes that half.                       *)
LEMMA RootFixedCreate ==
  ASSUME AddInv, rooted, CreateInode \/ CreateDir
  PROVE  InodePointer(0)' = InodePointer(0)
<1>0. TypeOK /\ ControlSound /\ AckedSound /\ RootFixed
  BY DEF AddInv, DiskInv
<1> DEFINE k == call.inode
<1>1. k \in Nat
  BY <1>0, CallFacts
<1>2. CASE CreateInode
  <2>1. /\ pc = "create_inode"
        /\ blk' = blk \/ (InodeBlock(k) \in Blocks /\ blk' = FileInodeWritten)
    BY <1>2 DEF CreateInode, FileInodeWritten
  <2>2. k # 0
    BY <1>0, <2>1 DEF AckedSound
  <2>3. CASE InodeBlock(k) \in Blocks /\ blk' = FileInodeWritten
    <3>1. /\ \A c \in Cells \ {LowCell(k), HighCell(k)} :
               blk'[InodeBlock(k)][c] = blk[InodeBlock(k)][c]
          /\ \A b \in Blocks : b # InodeBlock(k) => blk'[b] = blk[b]
      BY <1>0, <2>3, FileInodeWrite
    <3>2. InodeBlock(k) = 3 => 0 \notin {LowCell(k), HighCell(k)}
      BY <1>1, <2>2, InodesApart, LayoutFacts
    <3>3. blk'[3][0] = blk[3][0]
      BY <3>1, <3>2, LayoutFacts
    <3> QED
      BY <3>3, Views, ViewsNext DEF PointerIn
  <2> QED
    BY <2>1, <2>3, Views, ViewsNext
<1>3. CASE CreateDir
  <2>1. pc = "create_dir" /\ (blk' = blk \/ blk' = EntryWritten)
    BY <1>3 DEF CreateDir, EntryWritten
  <2>2. call.block # 3
    BY <1>0, <2>1 DEF RootFixed, Creating
  <2>3. blk'[3] = blk[3]
    BY <1>0, <2>1, <2>2, EntryWrite, LayoutFacts
  <2> QED
    BY <2>3, Views, ViewsNext DEF PointerIn
<1> QED
  BY <1>2, <1>3

(* Every operation of SimpleFs keeps the root where it is.                 *)
LEMMA RootFixedNext ==
  ASSUME AddInv, Next
  PROVE  RootFixed'
<1>0. TypeOK /\ ControlSound /\ AckedSound /\ RootFixed
  BY DEF AddInv, DiskInv
<1> USE DEF Finish, Return, DeviceFails, Continue
<1>1. CASE Mount \/ Crash
  <2>1. pc' = "idle" /\ rooted' = rooted /\ blk' = blk
    BY <1>1 DEF Mount, MountFrom, Crash, disk
  <2> QED
    BY <1>0, <2>1, Views, ViewsNext DEF RootFixed, Creating
<1>2. CASE FormatSuper \/ FormatImap \/ FormatDmap \/ RootImap \/ RootDmap
  <2>1. ~rooted' /\ pc' # "root_dir"
    BY <1>0, <1>2 DEF FormatSuper, FormatImap, FormatDmap, RootImap, RootDmap, ControlSound,
         Formatting, Rooting
  <2> QED
    BY <2>1 DEF RootFixed
<1>3. CASE RootInode
  <2>1. ~rooted' /\ call' = call /\ (pc' = "root_dir" => blk' = RootInodeWritten)
    BY <1>0, <1>3 DEF RootInode, RootInodeWritten, ControlSound, Rooting, ROOT_DIRECTORY_INODE
  <2>2. pc' = "root_dir" => PointerIn(blk') = call.block
    BY <1>0, <2>1, RootInodeWrite, CellFacts DEF PointerIn
  <2> QED
    BY <2>1, <2>2, ViewsNext DEF RootFixed
<1>4. CASE RootDir
  <2>1. /\ pc = "root_dir" /\ pc' = "idle" /\ ~rooted
        /\ rooted' => call.block \in Blocks /\ blk' = [blk EXCEPT ![call.block] = RootDirBlock]
    <3>1. pc = "root_dir" /\ pc' = "idle"
      BY <1>4 DEF RootDir
    <3>2. ~rooted
      BY <1>0, <3>1 DEF ControlSound, Rooting
    <3>3. rooted' => call.block \in Blocks /\ blk' = [blk EXCEPT ![call.block] = RootDirBlock]
      BY <1>4, <3>2 DEF RootDir
    <3> QED
      BY <3>1, <3>2, <3>3
  <2>2. ASSUME rooted' PROVE PointerIn(blk') # 3
    <3>1. blk \in [Blocks -> BlockValues] /\ RootDirBlock \in BlockValues
      BY <1>0, Types, BlockTypes DEF StateOK
    <3>2. CASE call.block # 3
      <4>1. blk'[3] = blk[3]
        BY <2>1, <2>2, <3>1, <3>2, WriteBlock, LayoutFacts
      <4>2. PointerIn(blk) = call.block
        BY <1>0, <2>1, Views DEF RootFixed
      <4> QED
        BY <3>2, <4>1, <4>2 DEF PointerIn
    <3>3. CASE call.block = 3
      <4>1. blk'[3] = RootDirBlock
        BY <2>1, <2>2, <3>1, <3>3, WriteBlock
      <4>2. blk'[3][0] = Entry(".", 0)
        BY <4>1, BlockTypes
      <4>3. PointerIn(blk') = Capacity
        BY <4>2 DEF PointerIn, DirectPointer0, Entry
      <4> QED
        BY <4>3, LayoutFacts
    <3> QED
      BY <3>2, <3>3
  <2> QED
    BY <2>1, <2>2, ViewsNext DEF RootFixed, Creating
<1>5. ASSUME NEW n \in Names, CreateBegin(n) PROVE RootFixed'
  <2>1. /\ rooted' = rooted /\ blk' = blk /\ pc' # "root_dir"
        /\ pc' \in Creating => call'.block = InodePointer(0)
    BY <1>5 DEF CreateBegin, disk, Creating, ROOT_DIRECTORY_INODE
  <2> QED
    BY <1>0, <2>1, Views, ViewsNext DEF RootFixed
<1>6. CASE CreateImap
  <2>1. /\ pc = "create_imap" /\ rooted' = rooted /\ blk' = blk /\ pc' # "root_dir"
        /\ pc' \in Creating => call' = [call EXCEPT !.inode = FirstFree(imap)]
    BY <1>6 DEF CreateImap, Creating
  <2>2. pc' \in Creating => call'.block = call.block
    BY <1>0, <2>1, Types DEF StateOK, Calls
  <2> QED
    BY <1>0, <2>1, <2>2, Views, ViewsNext DEF RootFixed, Creating
<1>7. CASE CreateInode \/ CreateDir
  <2>1. /\ pc \in Creating /\ rooted' = rooted /\ pc' # "root_dir"
        /\ pc' \in Creating => call' = call
    BY <1>7 DEF CreateInode, CreateDir, Creating
  <2>2. rooted => InodePointer(0)' = InodePointer(0)
    BY <1>7, RootFixedCreate
  <2> QED
    BY <1>0, <2>1, <2>2 DEF RootFixed
<1> QED
  BY <1>1, <1>2, <1>3, <1>4, <1>5, <1>6, <1>7 DEF Next

(* While no operation is running, those of SimpleFs write no entries.      *)
LEMMA IdleKeepsEntries ==
  ASSUME AddInv, Next, rooted, pc = "idle", pc' = "idle"
  PROVE  RootBlock' = RootBlock
<1>1. ~fresh
  BY DEF AddInv, DiskInv, ControlSound
<1>2. blk' = blk
  BY <1>1 DEF Next, Mount, FormatSuper, FormatImap, FormatDmap, RootImap, RootDmap, RootInode,
       RootDir, CreateBegin, CreateImap, CreateInode, CreateDir, Crash, disk
<1> QED
  BY <1>2, Views, ViewsNext

LEMMA AddInvNext ==
  ASSUME AddInv, [RootDirNext]_fsVars
  PROVE  /\ AddInv'
         /\ rooted /\ pc = "idle" /\ pc' = "idle" =>
              \A c \in Cells : Used(RootBlock[c]) /\ RootBlock[c].inode # 0
                                 => RootBlock'[c] = RootBlock[c]
<1>1. CASE Next
  BY <1>1, DiskInvNext, RootFixedNext, IdleKeepsEntries DEF AddInv
<1>2. ASSUME NEW f \in acked, NEW n \in Names, AddRootDirEntry(f[2], n)
      PROVE  /\ AddInv'
             /\ rooted => \A c \in Cells : Used(RootBlock[c]) /\ RootBlock[c].inode # 0
                                             => RootBlock'[c] = RootBlock[c]
  <2>1. f[2] \in 0 .. MapBits - 1
    BY Types DEF AddInv, DiskInv, StateOK
  <2> QED
    BY <1>2, <2>1, AddKeepsInv
<1>3. CASE UNCHANGED fsVars
  <2>1. UNCHANGED <<blk, pc, call, rooted>>
    BY <1>3 DEF fsVars, disk
  <2>2. DiskInv' /\ RootFixed'
    BY <1>3, <2>1, DiskInvNext, Views, ViewsNext DEF AddInv, RootFixed
  <2> QED
    BY <2>1, <2>2, Views, ViewsNext DEF AddInv
<1> QED
  BY <1>1, <1>2, <1>3 DEF RootDirNext

LEMMA AddInvAlways == RootDirSpec => []AddInv
<1>1. Init => AddInv
  <2>1. Init => RootFixed
    BY DEF Init, RootFixed
  <2> QED
    BY <2>1, DiskInvInit DEF AddInv
<1>2. AddInv /\ [RootDirNext]_fsVars => AddInv'
  BY AddInvNext
<1> QED
  BY <1>1, <1>2, PTL DEF RootDirSpec

(***************************************************************************)
(* add_root_dir_entry costs no file its entry: whatever find_free_dir_slot *)
(* takes for free, it is never a used entry of an inode other than 0.      *)
(* This needs no assumption on the length of the inode bitmap.             *)
(***************************************************************************)
THEOREM FurtherNamesCostNoFile == RootDirSpec => AddKeepsFiles
<1>1. AddInv /\ [RootDirNext]_fsVars =>
        [rooted /\ pc = "idle" /\ pc' = "idle" =>
           \A c \in Cells : Used(RootBlock[c]) /\ RootBlock[c].inode # 0
                              => RootBlock'[c] = RootBlock[c]]_fsVars
  BY AddInvNext
<1> QED
  BY <1>1, AddInvAlways, PTL DEF RootDirSpec, AddKeepsFiles

(***************************************************************************)
(* allocate_inode never hands out an inode twice: acknowledged files have  *)
(* different inodes, none is the root's, and all are on the device, also   *)
(* when add_root_dir_entry overwrote "." and "..".  This needs no          *)
(* assumption on the length of the inode bitmap.                           *)
(***************************************************************************)
THEOREM InodesHandedOutOnce == RootDirSpec => []AckedInodesDistinct
<1>1. AddInv => AckedInodesDistinct
  BY DEF AddInv, DiskInv, AckedSound, AckedInodesDistinct, ROOT_DIRECTORY_INODE
<1> QED
  BY <1>1, AddInvAlways, PTL
=============================================================================
