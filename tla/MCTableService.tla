--------------------------- MODULE MCTableService ---------------------------
(* Model checking of TableService: two keys, one of them under two ids.     *)
EXTENDS TableService

MCId == {0, 1, 2}
=============================================================================
