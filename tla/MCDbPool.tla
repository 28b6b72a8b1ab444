------------------------------ MODULE MCDbPool ------------------------------
(* Instances of DbPool for TLC.                                            *)
EXTENDS DbPool

CONSTANTS a, b, c, license, other
=============================================================================
