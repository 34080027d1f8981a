---------------------------- MODULE MCVgaWriter ----------------------------
EXTENDS VgaWriter

(* 65 is printable, 9 and 200 are not.                                     *)
MCStrings == {<<65, 66>>, <<9, 65, 200>>, <<67, NewLine>>, << >>}
=============================================================================
