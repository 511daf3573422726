--------------------------- MODULE MCServerProgram ---------------------------
(* Instances of ServerProgram for TLC.  No symmetry: liveness is checked. *)
EXTENDS ServerProgram

CONSTANTS w1, w2, w3, r1, r2, i1, i2
=============================================================================
