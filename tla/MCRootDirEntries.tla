-------------------------- MODULE MCRootDirEntries --------------------------
(* Model of RootDirEntries for TLC.                                        *)
EXTENDS RootDirEntries

CONSTANTS red, green, noName, tooLong
=============================================================================
