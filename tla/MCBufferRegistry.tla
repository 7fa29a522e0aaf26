-------------------------- MODULE MCBufferRegistry --------------------------
(* Instances of BufferRegistry for TLC.                                    *)
EXTENDS BufferRegistry

CONSTANTS c, x

OneType == {c}
TwoTypes == {c, x}
OtherType == {x, None}

(* ListSound and CommandsSafe hold by definition once there is an excuse,  *)
(* which none ever ceases to be: only the behaviours until then are worth  *)
(* exploring.                                                              *)
NoExcuse == ~ hurried /\ ~ refused
=============================================================================
