----------------------------- MODULE MCAuditTrail -----------------------------
(* AuditTrail for TLC: symmetry of threads and of replicas.                 *)
EXTENDS AuditTrail, TLC

\* Threads of one replica are interchangeable: only Nobody and lock hold them.
ThreadSymmetry == Permutations(Threads)

\* So are replicas, which differ in no constant.
ReplicaSymmetry == Permutations(Replicas)
===============================================================================
