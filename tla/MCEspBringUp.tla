---------------------------- MODULE MCEspBringUp ----------------------------
(***************************************************************************)
(* EspBringUp for TLC: one thread for each of the two waits, and a second  *)
(* file that may still be open, or be opened, when the first is released.  *)
(***************************************************************************)
EXTENDS EspBringUp
=============================================================================
