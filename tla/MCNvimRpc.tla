----------------------------- MODULE MCNvimRpc ------------------------------
(* Instances of NvimRpc for TLC.                                           *)
EXTENDS NvimRpc, TLC

CONSTANTS t1, t2

Two == {t1, t2}

(* Callers are interchangeable; sound for the runs without liveness.       *)
CallerSymmetry == Permutations(Two)
=============================================================================
