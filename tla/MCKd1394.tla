------------------------------ MODULE MCKd1394 ------------------------------
(* TLC instances of Kd1394. *)
EXTENDS Kd1394
=============================================================================
