---------------------------- MODULE MCBufferSync ----------------------------
(* Instances of BufferSync for TLC.                                        *)
EXTENDS BufferSync

CONSTANTS a, b

OneText == {a}
TwoTexts == {a, b}
=============================================================================
