----------------------------- MODULE MCHalDevice ----------------------------
(***************************************************************************)
(* HalDevice for TLC: room for the standard descriptor, the device opened  *)
(* twice and two files of other threads.                                   *)
(***************************************************************************)
EXTENDS HalDevice
=============================================================================
