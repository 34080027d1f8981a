--------------------------- MODULE MCAsyncKeyboard ---------------------------
(* Model of AsyncKeyboard for TLC.                                         *)
EXTENDS AsyncKeyboard
=============================================================================
