------------------------------ MODULE MCKdUsb -------------------------------
(* TLC instances of KdUsb. *)
EXTENDS KdUsb
=============================================================================
