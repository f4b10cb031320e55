----------------------------- MODULE EspCommand -----------------------------
(***************************************************************************)
(* What esp_spi_send promises the callers of the message ioctls, without   *)
(* frames, locks and interrupts: a command is a number of rounds, each of  *)
(* which succeeds or not.                                                  *)
(*                                                                         *)
(* The command has a budget of rounds.  A command that stops at a success  *)
(* (DATA_READ and the small messages) has no round after it; the others    *)
(* (large messages) have them all.  Commands of different threads do not   *)
(* affect each other's rounds.  What the caller gets is the result of the  *)
(* last round.                                                             *)
(***************************************************************************)
EXTENDS Naturals

CONSTANTS
  Callers,   \* threads
  Kinds      \* kinds of commands: [budget : Nat \ {0}, stops : BOOLEAN]

VARIABLES
  phase,     \* "idle", "busy" while rounds are left, "over" when none is
  kind,      \* of the command, while it is not idle
  rounds,    \* done so far
  result     \* of the last round

vars == <<phase, kind, rounds, result>>

Init ==
  /\ phase = [s \in Callers |-> "idle"]
  /\ kind \in [Callers -> Kinds]
  /\ rounds = [s \in Callers |-> 0]
  /\ result = [s \in Callers |-> FALSE]

Call(s, k) ==
  /\ phase[s] = "idle"
  /\ phase' = [phase EXCEPT ![s] = "busy"]
  /\ kind' = [kind EXCEPT ![s] = k]
  /\ UNCHANGED <<rounds, result>>

Round(s, ok) ==
  /\ phase[s] = "busy"
  /\ rounds' = [rounds EXCEPT ![s] = @ + 1]
  /\ result' = [result EXCEPT ![s] = ok]
  /\ phase' = [phase EXCEPT ![s] =
                 IF rounds'[s] = kind[s].budget \/ (kind[s].stops /\ ok)
                 THEN "over" ELSE "busy"]
  /\ UNCHANGED kind

(* The thread returns; which kind it was does not matter any more.         *)
Return(s) ==
  /\ phase[s] = "over"
  /\ phase' = [phase EXCEPT ![s] = "idle"]
  /\ rounds' = [rounds EXCEPT ![s] = 0]
  /\ result' = [result EXCEPT ![s] = FALSE]
  /\ \E k \in Kinds : kind' = [kind EXCEPT ![s] = k]

Next ==
  \E s \in Callers :
    \/ \E k \in Kinds : Call(s, k)
    \/ \E ok \in BOOLEAN : Round(s, ok)
    \/ Return(s)

Spec == Init /\ [][Next]_vars
=============================================================================
