----------------------------- MODULE MCEspDriver ----------------------------
(***************************************************************************)
(* EspDriver for TLC: the threads the service has (one listener and one    *)
(* binder thread) and frames of two bytes.                                 *)
(***************************************************************************)
EXTENDS EspDriver
=============================================================================
