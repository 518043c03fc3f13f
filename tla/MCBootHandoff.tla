---------------------------- MODULE MCBootHandoff ----------------------------
(* Spare room for twelve 40-byte descriptors: enough for one event.        *)
EXTENDS BootHandoff
=============================================================================
