------------------------------ MODULE MCTransfer ------------------------------
(* Small instances of Transfer for TLC: two bytes to a chunk, so that sizes  *)
(* 0 to 6 give no chunk, one short or whole chunk, the sizes between one     *)
(* chunk and MinTotal, and two or three chunks with a short or whole last.   *)
EXTENDS Transfer, TLC
=============================================================================
