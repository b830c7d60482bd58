---------------------------- MODULE MCValueStore ----------------------------
(* Values around the limit of the length in a pointer, some that agree in  *)
(* their beginning and their hash code, one with a 0 in it.  The second    *)
(* size of the table is so small that its overflow array can be overrun    *)
(* when the first grows.                                                   *)
EXTENDS ValueStore

MCSizes == <<4, 5, 16>>

MCVectors == {<<1>>, <<1, 2, 1>>, <<1, 2, 1, 1>>}

MCValues == {<<1>>, <<2>>, <<1, 0>>, <<1, 2, 1>>, <<1, 2, 1, 1>>}
=============================================================================
