------------------------------ MODULE SimpleFs ------------------------------
(***************************************************************************)
(* The file system SFS of src/fs/simple_fs.rs on the disk layout of        *)
(* src/fs/layout.rs, above a BlockDevice (src/fs/block_dev.rs).            *)
(*                                                                         *)
(* An operation is a sequence of device writes.  One step of this module   *)
(* is the code up to and including one write; the reads before it change   *)
(* nothing and are part of the step.  Between two writes the machine may   *)
(* crash.  Any device call may fail; after a failed write the block holds  *)
(* its old or its new contents.                                            *)
(*                                                                         *)
(* A block behind the two bitmaps is a row of 64-byte cells, because the   *)
(* same bytes can be read as directory entries (one cell) or as inodes     *)
(* (two cells).  Of a cell we keep what the code looks at: name and inode  *)
(* of a used entry, direct_pointers[0] in the first half of an inode, mode *)
(* in the second half.                                                     *)
(*                                                                         *)
(* The caller follows src/main.rs: it mounts or formats, initializes the   *)
(* root directory after a format, and then creates files.                  *)
(***************************************************************************)
EXTENDS Naturals, FiniteSets, FiniteSetsExt

CONSTANTS
  Capacity,        \* BlockDevice::capacity
  TablePart,       \* the inode table gets Capacity \div TablePart blocks (10)
  InodesPerBlock,  \* INODES_PER_BLOCK (4)
  MapBits,         \* bits of a bitmap block, BLOCK_SIZE * 8 (4096)
  Names,           \* names the caller uses
  BadNames,        \* of these, the empty one and those above DIR_NAME_MAX
  MaxFaults        \* bound: crashes and failed device calls

INODE_TABLE_START_BLOCK == 3
DIR_ENTRIES_PER_BLOCK   == 2 * InodesPerBlock
ROOT_DIRECTORY_INODE    == 0

ASSUME SimpleFsAssumption ==
  /\ Capacity \in Nat /\ TablePart \in Nat \ {0}
  /\ InodesPerBlock \in Nat \ {0} /\ MapBits \in Nat \ {0}
  /\ MaxFaults \in Nat
  /\ Capacity > INODE_TABLE_START_BLOCK + Capacity \div TablePart
  /\ BadNames \subseteq Names

VARIABLES
  super,    \* block 0: a superblock, or NoSuper if the magic number is wrong
  imap,     \* block 1: the bits set in the inode bitmap
  dmap,     \* block 2: the bits set in the data bitmap
  blk,      \* the blocks of the inode table and of the data region
  fs,       \* the SFS handle of the caller: its superblock, or NoFs
  fresh,    \* the handle is from format and the root is not initialized yet
  pc,       \* the write the running operation does next, "idle" if none
  call,     \* locals of the running create_file or init_root_directory
  result,   \* what the last operation returned
  rooted,   \* history: a format and its init_root_directory are complete
  acked,    \* history: <<name, inode>> of the files created since then
  faults    \* history: crashes and failed device calls so far

disk   == <<super, imap, dmap, blk>>
fsVars == <<disk, fs, fresh, pc, call, result, rooted, acked, faults>>

-----------------------------------------------------------------------------
(* The layout.                                                             *)

MAGIC_NUMBER == "0xDEADBEEF"

(* The superblock that format computes from the capacity.                  *)
inode_table_blocks == Capacity \div TablePart

SuperBlock ==
  [magic_number     |-> MAGIC_NUMBER,
   total_blocks     |-> Capacity,
   inode_count      |-> inode_table_blocks * InodesPerBlock,
   data_block_start |-> INODE_TABLE_START_BLOCK + inode_table_blocks,
   data_block_count |-> Capacity - (INODE_TABLE_START_BLOCK + inode_table_blocks)]

(* A block 0 that holds something else: a new disk, or any other bytes.    *)
NoSuper ==
  [magic_number |-> "other", total_blocks |-> 0, inode_count |-> 0,
   data_block_start |-> 0, data_block_count |-> 0]

(* The caller has no SFS.                                                  *)
NoFs == NoSuper

Blocks == INODE_TABLE_START_BLOCK .. Capacity - 1
Cells  == 0 .. DIR_ENTRIES_PER_BLOCK - 1

Zero           == [kind |-> "zero"]
Entry(n, i)    == [kind |-> "entry", name |-> n, inode |-> i]
InodeLow(dp0)  == [kind |-> "low", dp0 |-> dp0]
InodeHigh(m)   == [kind |-> "high", mode |-> m]

ZeroBlock == [c \in Cells |-> Zero]

(* DiskDirEntry: the bytes of both halves of an inode have the USED flag   *)
(* clear, as they lie in fields that are always 0.                         *)
Used(cell) == cell.kind = "entry"

(* FileType::try_from of the mode field: 0 is Unknown; in an entry the     *)
(* field lies in the padding of the name, whose bytes 8 are no valid mode. *)
Mode(cell) ==
  CASE cell.kind = "high"  -> cell.mode
    [] cell.kind = "entry" -> "invalid"
    [] OTHER               -> "Unknown"

(* direct_pointers[0]: in an entry it lies in the name as well.            *)
DirectPointer0(cell) ==
  CASE cell.kind = "low"   -> cell.dp0
    [] cell.kind = "entry" -> Capacity
    [] OTHER               -> 0

(* Where read_inode and write_inode look for an inode.                     *)
InodeBlock(i) == INODE_TABLE_START_BLOCK + i \div InodesPerBlock
LowCell(i)    == 2 * (i % InodesPerBlock)
HighCell(i)   == LowCell(i) + 1

InodeMode(i)    == Mode(blk[InodeBlock(i)][HighCell(i)])
InodePointer(i) == DirectPointer0(blk[InodeBlock(i)][LowCell(i)])

PutInode(b, i, mode, dp0) ==
  [b EXCEPT ![LowCell(i)] = InodeLow(dp0), ![HighCell(i)] = InodeHigh(mode)]

(* Mutant of FreeBits: the scan goes one bit too far.                      *)
FreeBitsInclusive(map) == (0 .. MapBits) \ map

(* Bitmap::find_and_set_first_free over the whole bitmap block.            *)
FreeBits(map)  == (0 .. MapBits - 1) \ map
FirstFree(map) == Min(FreeBits(map))

(* Mutant of UnusedSlots: like find_free_dir_slot, it takes inode 0 for    *)
(* the mark of a free entry.                                               *)
UnusedSlotsByInode(b) == {c \in Cells : ~Used(b[c]) \/ b[c].inode = 0}

(* The slots create_file_in_root considers empty.                          *)
UnusedSlots(b) == {c \in Cells : ~Used(b[c])}

-----------------------------------------------------------------------------
(* Device calls and returns.                                               *)

(* An operation returns r to the caller.                                   *)
Return(r) ==
  /\ pc' = "idle"
  /\ result' = r

(* A read or the write of this step fails and the operation returns r.     *)
DeviceFails(r) ==
  /\ faults < MaxFaults
  /\ faults' = faults + 1
  /\ Return(r)

(* The operation goes on with the next write.                              *)
Continue(next) ==
  /\ pc' = next
  /\ UNCHANGED <<result, faults>>

(* The operation returns r without a failure of the device.                *)
Finish(r) ==
  /\ Return(r)
  /\ UNCHANGED faults

NoCall == [name |-> ".", block |-> 0, buf |-> ZeroBlock, slot |-> 0, inode |-> 0]

(* A disk that was never formatted.                                        *)
Init ==
  /\ super = NoSuper
  /\ imap = {} /\ dmap = {}
  /\ blk = [b \in Blocks |-> ZeroBlock]
  /\ fs = NoFs /\ fresh = FALSE
  /\ pc = "idle" /\ call = NoCall /\ result = "none"
  /\ rooted = FALSE /\ acked = {}
  /\ faults = 0

(* Power loss or reset: the disk is all that remains.                      *)
Crash ==
  /\ faults < MaxFaults
  /\ faults' = faults + 1
  /\ pc' = "idle" /\ call' = NoCall /\ result' = "none"
  /\ fs' = NoFs /\ fresh' = FALSE
  /\ UNCHANGED <<disk, rooted, acked>>

-----------------------------------------------------------------------------
(* mount: a magic number is all it looks at.  The Result of read_blocks is *)
(* not propagated, so after a failed read it examines whatever is in the   *)
(* buffer: the zeros it was created with, or the block.                    *)
MountFrom(buffer) ==
  IF buffer.magic_number # MAGIC_NUMBER
    THEN fs' = NoFs /\ Return("InvalidSuperBlock")
    ELSE fs' = buffer /\ Return("Ok")

Mount ==
  /\ pc = "idle" /\ fs = NoFs
  /\ \/ MountFrom(super) /\ UNCHANGED faults
     \/ \E buffer \in {NoSuper, super} :
          MountFrom(buffer) /\ faults < MaxFaults /\ faults' = faults + 1
  /\ fresh' = FALSE
  /\ UNCHANGED <<disk, call, rooted, acked>>

(* format: superblock, inode bitmap, data bitmap.                          *)
FormatSuper ==
  /\ pc = "idle" /\ fs = NoFs
  /\ \/ super' = SuperBlock /\ Continue("format_imap")
     \/ super' \in {super, SuperBlock} /\ DeviceFails("BlockError")
  /\ rooted' = FALSE /\ acked' = {}
  /\ UNCHANGED <<imap, dmap, blk, fs, fresh, call>>

(* Mutant of FormatImap: the old inode bitmap stays.                       *)
FormatImapKept ==
  /\ pc = "format_imap"
  /\ Continue("format_dmap")
  /\ UNCHANGED <<super, imap, dmap, blk, fs, fresh, call, rooted, acked>>

FormatImap ==
  /\ pc = "format_imap"
  /\ \/ imap' = {} /\ Continue("format_dmap")
     \/ imap' \in {imap, {}} /\ DeviceFails("BlockError")
  /\ UNCHANGED <<super, dmap, blk, fs, fresh, call, rooted, acked>>

FormatDmap ==
  /\ pc = "format_dmap"
  /\ \/ /\ dmap' = {}
        /\ fs' = SuperBlock /\ fresh' = TRUE
        /\ Finish("Ok")
     \/ /\ dmap' \in {dmap, {}}
        /\ UNCHANGED <<fs, fresh>>
        /\ DeviceFails("BlockError")
  /\ UNCHANGED <<super, imap, blk, call, rooted, acked>>

-----------------------------------------------------------------------------
(* init_root_directory: bit 0 of the inode bitmap, a data block, inode 0,  *)
(* and the directory block with its two entries.                           *)

RootImap ==
  /\ pc = "idle" /\ fs # NoFs /\ fresh
  /\ \/ imap' = imap \union {0} /\ Continue("root_dmap")
     \/ imap' \in {imap, imap \union {0}} /\ DeviceFails("BlockError")
  /\ UNCHANGED <<super, dmap, blk, fs, fresh, call, rooted, acked>>

(* allocate_data_block.                                                    *)
RootDmap ==
  /\ pc = "root_dmap"
  /\ \/ /\ FreeBits(dmap) # {}
        /\ dmap' = dmap \union {FirstFree(dmap)}
        /\ call' = [call EXCEPT !.block = fs.data_block_start + FirstFree(dmap)]
        /\ Continue("root_inode")
     \/ /\ FreeBits(dmap) # {}
        /\ dmap' \in {dmap, dmap \union {FirstFree(dmap)}}
        /\ UNCHANGED call
        /\ DeviceFails("BlockError")
     \/ /\ FreeBits(dmap) = {}
        /\ UNCHANGED <<dmap, call>>
        /\ Finish("NoSpace")
  /\ UNCHANGED <<super, imap, blk, fs, fresh, rooted, acked>>

RootInode ==
  /\ pc = "root_inode"
  /\ LET b   == InodeBlock(ROOT_DIRECTORY_INODE)
         new == [blk EXCEPT ![b] =
                   PutInode(@, ROOT_DIRECTORY_INODE, "Directory", call.block)]
     IN \/ blk' = new /\ Continue("root_dir")
        \/ blk' \in {blk, new} /\ DeviceFails("BlockError")
  /\ UNCHANGED <<super, imap, dmap, fs, fresh, call, rooted, acked>>

RootDirBlock ==
  [ZeroBlock EXCEPT ![0] = Entry(".", 0), ![1] = Entry("..", 0)]

(* A block number behind the end of the device is an error.                *)
RootDir ==
  /\ pc = "root_dir"
  /\ \/ /\ call.block \in Blocks
        /\ blk' = [blk EXCEPT ![call.block] = RootDirBlock]
        /\ rooted' = TRUE /\ fresh' = FALSE
        /\ Finish("Ok")
     \/ /\ call.block \in Blocks
        /\ blk' \in {blk, [blk EXCEPT ![call.block] = RootDirBlock]}
        /\ UNCHANGED <<rooted, fresh>>
        /\ DeviceFails("BlockError")
     \/ /\ call.block \notin Blocks
        /\ UNCHANGED <<blk, rooted, fresh>>
        /\ Finish("BlockError")
  /\ call' = NoCall
  /\ UNCHANGED <<super, imap, dmap, fs, acked>>

-----------------------------------------------------------------------------
(* create_file, with the FileErrors it turns the errors of                 *)
(* create_file_in_root into.                                               *)

EntryNames(b) == {b[c].name : c \in {x \in Cells : Used(b[x])}}

(* Mutant of CreateCheck: no collision check.                              *)
CreateCheckNoCollision(n) ==
  LET root == InodePointer(ROOT_DIRECTORY_INODE)
  IN IF n \in BadNames THEN "InvalidName"
     ELSE IF InodeMode(ROOT_DIRECTORY_INODE) # "Directory" \/ root \notin Blocks
       THEN "Corrupt"
     ELSE IF UnusedSlots(blk[root]) = {} THEN "NoSpace" ELSE "Ok"

(* What the part of create_file_in_root before the first write returns, or *)
(* "Ok" if it goes on.                                                     *)
CreateCheck(n) ==
  LET root == InodePointer(ROOT_DIRECTORY_INODE)
      mode == InodeMode(ROOT_DIRECTORY_INODE)
  IN CASE n \in BadNames -> "InvalidName"
       [] n \notin BadNames /\ mode = "invalid" -> "CreationFailed"
       [] n \notin BadNames /\ mode \in {"Unknown", "File"} -> "Corrupt"
       [] n \notin BadNames /\ mode = "Directory" ->
            CASE root = 0 -> "Corrupt"
              [] root # 0 /\ root \notin Blocks -> "CreationFailed"
              [] root \in Blocks /\ n \in EntryNames(blk[root]) -> "Corrupt"
              [] root \in Blocks /\ n \notin EntryNames(blk[root]) ->
                   IF UnusedSlots(blk[root]) = {} THEN "NoSpace" ELSE "Ok"

(* The collision check and the choice of a slot work on a copy of the      *)
(* directory block, which is kept until it is written back.                *)
CreateBegin(n) ==
  /\ pc = "idle" /\ fs # NoFs /\ ~fresh
  /\ \/ /\ CreateCheck(n) = "Ok"
        /\ LET root == InodePointer(ROOT_DIRECTORY_INODE)
           IN call' = [name |-> n, block |-> root, buf |-> blk[root],
                       slot |-> Min(UnusedSlots(blk[root])), inode |-> 0]
        /\ Continue("create_imap")
     \/ /\ CreateCheck(n) # "Ok"
        /\ UNCHANGED call
        /\ Finish(CreateCheck(n))
     \/ /\ n \notin BadNames
        /\ UNCHANGED call
        /\ DeviceFails("CreationFailed")
  /\ UNCHANGED <<disk, fs, fresh, rooted, acked>>

(* Mutant of CreateImap: the bitmap is changed in memory only.             *)
CreateImapUnsaved ==
  /\ pc = "create_imap"
  /\ FreeBits(imap) # {}
  /\ call' = [call EXCEPT !.inode = FirstFree(imap)]
  /\ Continue("create_inode")
  /\ UNCHANGED <<disk, fs, fresh, rooted, acked>>

(* allocate_inode.                                                         *)
CreateImap ==
  /\ pc = "create_imap"
  /\ \/ /\ FreeBits(imap) # {}
        /\ imap' = imap \union {FirstFree(imap)}
        /\ call' = [call EXCEPT !.inode = FirstFree(imap)]
        /\ Continue("create_inode")
     \/ /\ FreeBits(imap) # {}
        /\ imap' \in {imap, imap \union {FirstFree(imap)}}
        /\ call' = NoCall
        /\ DeviceFails("CreationFailed")
     \/ /\ FreeBits(imap) = {}
        /\ UNCHANGED imap
        /\ call' = NoCall
        /\ Finish("NoSpace")
  /\ UNCHANGED <<super, dmap, blk, fs, fresh, rooted, acked>>

(* Mutant of CreateInode: a bounds check, off by one, after the allocation.*)
CreateInodeBounded ==
  /\ pc = "create_inode"
  /\ IF call.inode + 1 >= SuperBlock.inode_count
       THEN /\ call' = NoCall
            /\ Finish("NoSpace")
            /\ UNCHANGED blk
       ELSE /\ blk' = [blk EXCEPT ![InodeBlock(call.inode)] =
                        PutInode(@, call.inode, "File", 0)]
            /\ Continue("create_dir")
            /\ UNCHANGED call
  /\ UNCHANGED <<super, imap, dmap, fs, fresh, rooted, acked>>

(* write_inode, which like allocate_inode has no idea of inode_count.      *)
CreateInode ==
  /\ pc = "create_inode"
  /\ LET b   == InodeBlock(call.inode)
         new == [blk EXCEPT ![b] = PutInode(@, call.inode, "File", 0)]
     IN \/ /\ b \in Blocks
           /\ blk' = new
           /\ UNCHANGED call
           /\ Continue("create_dir")
        \/ /\ b \in Blocks
           /\ blk' \in {blk, new}
           /\ call' = NoCall
           /\ DeviceFails("CreationFailed")
        \/ /\ b \notin Blocks
           /\ UNCHANGED blk
           /\ call' = NoCall
           /\ Finish("CreationFailed")
  /\ UNCHANGED <<super, imap, dmap, fs, fresh, rooted, acked>>

(* Mutant of CreateDir: the directory block is not written back.           *)
CreateDirUnsaved ==
  /\ pc = "create_dir"
  /\ acked' = acked \union {<<call.name, call.inode>>}
  /\ Finish("Ok")
  /\ call' = NoCall
  /\ UNCHANGED <<disk, fs, fresh, rooted>>

(* write_dirent_into_block and the write of the directory block.           *)
CreateDir ==
  /\ pc = "create_dir"
  /\ LET new == [blk EXCEPT ![call.block] =
                   [call.buf EXCEPT ![call.slot] = Entry(call.name, call.inode)]]
     IN \/ /\ blk' = new
           /\ acked' = acked \union {<<call.name, call.inode>>}
           /\ Finish("Ok")
        \/ /\ blk' \in {blk, new}
           /\ UNCHANGED acked
           /\ DeviceFails("CreationFailed")
  /\ call' = NoCall
  /\ UNCHANGED <<super, imap, dmap, fs, fresh, rooted>>

Next ==
  \/ Mount
  \/ FormatSuper \/ FormatImap \/ FormatDmap
  \/ RootImap \/ RootDmap \/ RootInode \/ RootDir
  \/ \E n \in Names : CreateBegin(n)
  \/ CreateImap \/ CreateInode \/ CreateDir
  \/ Crash

Spec == Init /\ [][Next]_fsVars

-----------------------------------------------------------------------------
(* Types.                                                                  *)
ErrorNames == {"none", "Ok", "BlockError", "InvalidSuperBlock", "NoSpace",
               "InvalidName", "Corrupt", "CreationFailed", "NameTooLong",
               "CorruptLayout"}

CellValues ==
  {Zero} \union {InodeHigh(m) : m \in {"File", "Directory"}}
         \union {InodeLow(b) : b \in 0 .. Capacity + MapBits}
         \union {Entry(n, i) : n \in Names \union {".", ".."}, i \in 0 .. MapBits - 1}

BlockValues == [Cells -> CellValues]

TypeOK ==
  /\ super \in {NoSuper, SuperBlock}
  /\ imap \subseteq 0 .. MapBits - 1
  /\ dmap \subseteq 0 .. MapBits - 1
  /\ blk \in [Blocks -> BlockValues]
  /\ fs \in {NoFs, SuperBlock}
  /\ fresh \in BOOLEAN /\ rooted \in BOOLEAN
  /\ pc \in {"idle", "format_imap", "format_dmap", "root_dmap", "root_inode",
             "root_dir", "create_imap", "create_inode", "create_dir"}
  /\ call \in [name : Names \union {"."}, block : 0 .. Capacity + MapBits,
               buf : BlockValues, slot : Cells, inode : 0 .. MapBits - 1]
  /\ result \in ErrorNames
  /\ acked \subseteq Names \X (0 .. MapBits - 1)
  /\ faults \in 0 .. MaxFaults

(* The root directory as the disk holds it, and the files it lists.        *)
RootBlock == blk[InodePointer(ROOT_DIRECTORY_INODE)]
FileCells == {c \in Cells \ {0, 1} : Used(RootBlock[c])}
Files     == {<<RootBlock[c].name, RootBlock[c].inode>> : c \in FileCells}

(***************************************************************************)
(* Once the disk is formatted, no create_file, failed device call or crash *)
(* damages the root: its inode stays allocated and a directory, its data   *)
(* block stays allocated and inside the device, and "." and ".." stay.     *)
(***************************************************************************)
RootIntact ==
  rooted =>
    /\ ROOT_DIRECTORY_INODE \in imap
    /\ InodeMode(ROOT_DIRECTORY_INODE) = "Directory"
    /\ InodePointer(ROOT_DIRECTORY_INODE) \in Blocks
    /\ InodePointer(ROOT_DIRECTORY_INODE) - SuperBlock.data_block_start \in dmap
    /\ RootBlock[0] = Entry(".", 0) /\ RootBlock[1] = Entry("..", 0)

(***************************************************************************)
(* The directory never points at something that is not there: the inode of *)
(* an entry is allocated and holds a file (create_file writes bitmap,      *)
(* inode and entry in that order), and no two entries share a name or an   *)
(* inode, whatever was leaked by operations that stopped half way.         *)
(***************************************************************************)
EntriesSound ==
  rooted =>
    /\ \A f \in Files : f[2] \in imap /\ InodeMode(f[2]) = "File"
    /\ \A c, d \in FileCells : c # d =>
         /\ RootBlock[c].name # RootBlock[d].name
         /\ RootBlock[c].inode # RootBlock[d].inode

(***************************************************************************)
(* A file whose create_file returned Ok is in the directory, under its     *)
(* inode, after any later failures, crashes and mounts.                    *)
(***************************************************************************)
AckedFilesSurvive == rooted => acked \subseteq Files

(* The inode that a running create_file has reserved.                      *)
Reserved == IF pc \in {"create_inode", "create_dir"} THEN {call.inode} ELSE {}

(* Inodes that are allocated and that nothing will ever refer to.          *)
Leaked == imap \ ({f[2] : f \in Files} \union {ROOT_DIRECTORY_INODE} \union Reserved)

(***************************************************************************)
(* There is no way to free an inode, but only a failing device or a crash  *)
(* loses one, and one at most: creating an existing file, or one in a full *)
(* directory, allocates nothing.                                           *)
(***************************************************************************)
LeakBound == rooted => Cardinality(Leaked) <= faults

(***************************************************************************)
(* What create_file returned Ok for is a file: its inode can be read back. *)
(* Bitmap::find_and_set_first_free asks its callers to see that the bitmap *)
(* is no longer than the resource it stands for.                           *)
(***************************************************************************)
AckedInodeIsFile == rooted => \A f \in acked : InodeMode(f[2]) = "File"

(***************************************************************************)
(* However long the bitmap is, two files that create_file returned Ok for  *)
(* have different inodes, neither is the root, and both are on the device. *)
(***************************************************************************)
AckedInodesDistinct ==
  \A f, g \in acked :
    /\ f # g => f[2] # g[2]
    /\ rooted => f[2] # ROOT_DIRECTORY_INODE
    /\ InodeBlock(f[2]) \in Blocks

(***************************************************************************)
(* The file system implements the name space of FileNamespace: a create    *)
(* takes effect at the write of the directory block or not at all.         *)
(***************************************************************************)
Namespace == INSTANCE FileNamespace WITH
  Inodes   <- 1 .. MapBits - 1,
  MaxFiles <- DIR_ENTRIES_PER_BLOCK - 2,
  ready    <- rooted,
  files    <- IF rooted THEN Files ELSE {},
  acked    <- IF rooted THEN acked ELSE {}

ImplementsNamespace == Namespace!Spec
=============================================================================
