--------------------------- MODULE MCProcessPool ---------------------------
(* Small instances of ProcessPool for TLC.                                 *)
EXTENDS ProcessPool

CONSTANTS a1, a2, a3

ThreeConns == {a1, a2, a3}
=============================================================================
