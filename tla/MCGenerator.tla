---------------------------- MODULE MCGenerator ----------------------------
(* Tables whose sizes about double, so that entries of different buckets   *)
(* meet in the larger table.                                               *)
EXTENDS Generator

MCSizes == <<4, 7, 16>>
=============================================================================
