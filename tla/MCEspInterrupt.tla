--------------------------- MODULE MCEspInterrupt ---------------------------
(***************************************************************************)
(* EspInterrupt for TLC.  Two threads on a queue are needed for one thread *)
(* to disturb the other's wait.                                            *)
(***************************************************************************)
EXTENDS EspInterrupt
=============================================================================
