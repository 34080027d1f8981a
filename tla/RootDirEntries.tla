--------------------------- MODULE RootDirEntries ---------------------------
(***************************************************************************)
(* The second way into the root directory of src/fs/simple_fs.rs: the      *)
(* public add_root_dir_entry with find_free_dir_slot, used beside          *)
(* create_file by a caller that gives a file a further name.  The kernel   *)
(* has no such caller yet.  Everything else is SimpleFs.                   *)
(***************************************************************************)
EXTENDS SimpleFs

CONSTANT LongNames  \* of the names, those above DIR_NAME_MAX

ASSUME RootDirAssumption == LongNames \subseteq BadNames

(* Mutant of FreeDirSlots: the test of the inode is the wrong way round.   *)
FreeDirSlotsInverted(b) == {c \in Cells : ~Used(b[c]) \/ b[c].inode # 0}

(* The slots find_free_dir_slot would return; it returns the first.        *)
FreeDirSlots(b) == {c \in Cells : ~Used(b[c]) \/ b[c].inode = 0}

(* What add_root_dir_entry returns before its write, or "Ok" if it gets    *)
(* there.  Unlike create_file_in_root it takes the empty name, and looks   *)
(* neither at the mode of the root inode nor for the name.                 *)
AddCheck(n) ==
  LET root == InodePointer(ROOT_DIRECTORY_INODE)
  IN CASE n \in LongNames -> "NameTooLong"
       [] n \notin LongNames /\ InodeMode(ROOT_DIRECTORY_INODE) = "invalid" ->
            "BlockError"
       [] n \notin LongNames /\ InodeMode(ROOT_DIRECTORY_INODE) # "invalid" ->
            CASE root = 0 -> "CorruptLayout"
              [] root # 0 /\ root \notin Blocks -> "BlockError"
              [] root \in Blocks ->
                   IF FreeDirSlots(blk[root]) = {} THEN "NoSpace" ELSE "Ok"

(* add_root_dir_entry: its only write is that of the directory block.      *)
AddRootDirEntry(i, n) ==
  LET root == InodePointer(ROOT_DIRECTORY_INODE)
      new  == [blk EXCEPT ![root][Min(FreeDirSlots(blk[root]))] = Entry(n, i)]
  IN /\ pc = "idle" /\ fs # NoFs /\ ~fresh
     /\ \/ /\ AddCheck(n) = "Ok"
           /\ blk' = new
           /\ Finish("Ok")
        \/ /\ AddCheck(n) # "Ok"
           /\ UNCHANGED blk
           /\ Finish(AddCheck(n))
        \/ /\ n \notin LongNames
           /\ blk' \in IF AddCheck(n) = "Ok" THEN {blk, new} ELSE {blk}
           /\ DeviceFails("BlockError")
     /\ UNCHANGED <<super, imap, dmap, fs, fresh, call, rooted, acked>>

(* The caller names an inode that create_file gave it.                     *)
RootDirNext ==
  \/ Next
  \/ \E f \in acked, n \in Names : AddRootDirEntry(f[2], n)

RootDirSpec == Init /\ [][RootDirNext]_fsVars

-----------------------------------------------------------------------------
(***************************************************************************)
(* add_root_dir_entry, the only operation that writes when none is running *)
(* already, never costs a file: it may replace "." and "..", whose inode 0 *)
(* find_free_dir_slot takes for the mark of a free entry, but no entry of  *)
(* another inode.                                                          *)
(***************************************************************************)
AddKeepsFiles ==
  [][rooted /\ pc = "idle" /\ pc' = "idle" =>
       \A c \in Cells : Used(RootBlock[c]) /\ RootBlock[c].inode # 0
                          => RootBlock'[c] = RootBlock[c]]_fsVars
=============================================================================
