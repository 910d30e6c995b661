----------------------------- MODULE MCBlkMover -----------------------------
(* Instances of BlkMover for TLC: one IRP that is issued again and again    *)
(* beside the control program's.                                            *)
EXTENDS BlkMover
=============================================================================
