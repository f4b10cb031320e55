---------------------------- MODULE EspFragment ----------------------------
(***************************************************************************)
(* How esp_spi_send cuts a message into frames (esp_common.c).  A frame    *)
(* (spi_data_t) holds a header and FIFO_LEN bytes; a message (message_t)   *)
(* holds a header and up to DATA_LEN bytes.                                *)
(*                                                                         *)
(* FIFO_LEN is 28 and DATA_LEN 2048 in esp_common.h.  Messages whose       *)
(* header.len exceeds DATA_LEN are outside the model: nothing in the       *)
(* driver refuses them, and what it then copies is not part of the message.*)
(***************************************************************************)
EXTENDS Naturals

CONSTANTS
  FIFO_LEN,   \* bytes of data in a frame
  DATA_LEN    \* bytes of data in a message, at most

ASSUME LengthAssumption ==
  /\ FIFO_LEN \in Nat \ {0}
  /\ DATA_LEN \in Nat

Lengths == 0 .. DATA_LEN

-----------------------------------------------------------------------------
(* The message travels in one frame, with retries.                         *)
IsSmall(len) == len = 0 \/ len < FIFO_LEN

(* Altered, for the checks: without the frame that ends the message.       *)
FullFramesOnly(len) == len \div FIFO_LEN

(* One frame more than the data fills: the last may be empty.              *)
FragmentCount(len) == len \div FIFO_LEN + 1

(* Frame i carries FragmentLen bytes from offset FragmentAt of the data.   *)
FragmentAt(i) == i * FIFO_LEN

FragmentLen(len, i) ==
  IF i = FragmentCount(len) - 1 THEN len - i * FIFO_LEN ELSE FIFO_LEN
=============================================================================
