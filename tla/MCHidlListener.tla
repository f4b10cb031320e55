--------------------------- MODULE MCHidlListener ---------------------------
(***************************************************************************)
(* HidlListener for TLC: enough threads for one that outlives a stop.      *)
(***************************************************************************)
EXTENDS HidlListener
=============================================================================
