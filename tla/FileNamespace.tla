---------------------------- MODULE FileNamespace ----------------------------
(***************************************************************************)
(* What src/fs/simple_fs.rs promises of create_file: a name space in which *)
(* a file comes into being at once, under a name and an inode number that  *)
(* no other file has, and stays until the disk is formatted again.  A      *)
(* create_file that is interrupted or fails may or may not have created    *)
(* its file; one that returns Ok has.                                      *)
(***************************************************************************)
EXTENDS Naturals, FiniteSets

CONSTANTS
  Names,     \* file names
  Inodes,    \* inode numbers a file can get
  MaxFiles   \* room in the root directory

VARIABLES
  ready,   \* there is a file system
  files,   \* the <<name, inode>> pairs of the directory
  acked    \* the files create_file has returned Ok for

nsVars == <<ready, files, acked>>

Init == ready = FALSE /\ files = {} /\ acked = {}

(* A format starts, whatever was there before is gone.                     *)
Reset ==
  /\ ready' = FALSE
  /\ files' = {} /\ acked' = {}

(* The format is complete.                                                 *)
Ready ==
  /\ ~ready
  /\ ready' = TRUE
  /\ UNCHANGED <<files, acked>>

Create(n, i) ==
  /\ ready
  /\ Cardinality(files) < MaxFiles
  /\ \A f \in files : f[1] # n /\ f[2] # i
  /\ files' = files \union {<<n, i>>}
  /\ acked' \in {acked, acked \union {<<n, i>>}}
  /\ UNCHANGED ready

Next ==
  \/ Reset \/ Ready
  \/ \E n \in Names, i \in Inodes : Create(n, i)

Spec == Init /\ [][Next]_nsVars
=============================================================================
