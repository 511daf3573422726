-------------------------- MODULE MCRequestHandler --------------------------
(* Instances of RequestHandler for TLC.                                    *)
EXTENDS RequestHandler

CONSTANTS t1, t2, empty, v1
=============================================================================
