----------------------------- MODULE MCSimpleFs -----------------------------
(* Model of SimpleFs for TLC.                                              *)
EXTENDS SimpleFs

CONSTANTS red, green, blue, tooLong
=============================================================================
