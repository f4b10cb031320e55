---------------------------- MODULE MCEspSpiSend ----------------------------
(***************************************************************************)
(* EspSpiSend for TLC.  Frames of two bytes and messages of up to four     *)
(* give small messages (0 and 1 bytes), a large one with a full last       *)
(* fragment to spare (2 and 4) and one with a partial last fragment (3).   *)
(***************************************************************************)
EXTENDS EspSpiSend, TLC

Symmetry == Permutations(Senders)
=============================================================================
