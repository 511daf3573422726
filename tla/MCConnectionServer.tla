------------------------- MODULE MCConnectionServer -------------------------
(* Instances of ConnectionServer for TLC.  No symmetry: liveness is checked. *)
EXTENDS ConnectionServer

CONSTANTS c1, c2, c3
=============================================================================
