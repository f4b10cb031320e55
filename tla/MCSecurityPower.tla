--------------------------- MODULE MCSecurityPower --------------------------
(***************************************************************************)
(* SecurityPower for TLC: the probes and two callers, which is enough for  *)
(* sequences to interleave.                                                *)
(***************************************************************************)
EXTENDS SecurityPower
=============================================================================
