----------------------------- MODULE MCLocalTrail -----------------------------
(* LocalTrail for TLC: processes are interchangeable.                       *)
EXTENDS LocalTrail, TLC

ProcSymmetry == Permutations(Procs)
===============================================================================
