-------------------------------- MODULE MCAccess --------------------------------
(* Access for TLC: two operators, each polling one thing, one of whom asks  *)
(* Graph.                                                                   *)
EXTENDS Access, TLC

OneEach == Callers \X {"case"}

ThreadSymmetry == Permutations(Threads)
===============================================================================
