---------------------------- MODULE MCBreakpoints ----------------------------
(* Two adjacent addresses, two table entries: two breakpoints at one     *)
(* address, a full table, and a stream of two bytes with two breakpoints.  *)
EXTENDS Breakpoints

MCAddresses == 1 .. 2
MCBytes == {0, 3}
=============================================================================
