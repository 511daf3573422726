------------------------ MODULE MCPersistentDatabase ------------------------
(* Instances of PersistentDatabase for TLC. *)
EXTENDS PersistentDatabase, TLC

CONSTANTS t1, t2, empty, v1

ThreadSymmetry == Permutations(Threads)
=============================================================================
