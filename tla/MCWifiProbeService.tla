------------------------- MODULE MCWifiProbeService -------------------------
(***************************************************************************)
(* WifiProbeService for TLC.  With three descriptors an orderly re-open    *)
(* can get another number than the one a listener has loaded, while that   *)
(* one is free or another thread's.                                        *)
(*                                                                         *)
(* What clients do once they have not been orderly is left out: nothing    *)
(* makes them orderly again, and both properties speak only of behaviours  *)
(* in which they are, so none of these is lost.                            *)
(***************************************************************************)
EXTENDS WifiProbeService

OrderlyClients == orderly
=============================================================================
