---------------------------- MODULE MCLineMirror ----------------------------
(* Instances of LineMirror for TLC.                                        *)
EXTENDS LineMirror, TLC

CONSTANTS a, b

TwoTexts == {a, b}
TextSymmetry == Permutations(TwoTexts)
=============================================================================
