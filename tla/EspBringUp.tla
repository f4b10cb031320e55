----------------------------- MODULE EspBringUp -----------------------------
(***************************************************************************)
(* The interrupt line of the ESP8266 driver while the driver comes and     *)
(* goes: EspInterrupt over EspProbe.                                       *)
(*                                                                         *)
(* A probe that fails after esp_init_interrupt leaves the interrupt        *)
(* requested: the chip can raise the line while nothing of the driver is   *)
(* left, or while the next probe runs.  That probe's request_irq fails and *)
(* its enable_irq comes on top of those of the tasklets.                   *)
(*                                                                         *)
(* A thread is in a wait only while a file is open, and the kernel keeps   *)
(* that file open.                                                         *)
(***************************************************************************)
EXTENDS Naturals

CONSTANTS
  Listeners,
  Senders,
  Files

VARIABLES
  at, held, isok, bound, removed, file,                   \* EspProbe
  is_eint_timeout, edge, depth, scheduled, stage, flag,   \* EspInterrupt
  wait, fired

P == INSTANCE EspProbe

I == INSTANCE EspInterrupt

probeVars == <<at, held, isok, bound, removed, file>>

irqVars == <<is_eint_timeout, edge, depth, scheduled, stage, flag, wait, fired>>

vars == <<probeVars, irqVars>>

(* The line is not requested yet, hence not yet served.                    *)
Init == P!Init /\ I!Init

IrqHeld == "irq" \in held

InUse == \E f \in Files : file[f] \in {"open", "dangling"}

-----------------------------------------------------------------------------
(* The driver                                                              *)

\* Altered, for the checks: disable_irq, to be enabled at the first open.
InitInterruptDisabled ==
  /\ at = "irq"
  /\ (~IrqHeld /\ P!Acquire) \/ P!Fail
  /\ depth' = depth + 1
  /\ UNCHANGED <<is_eint_timeout, edge, scheduled, stage, flag, wait, fired>>

(* esp_init_interrupt: request_irq, which fails if the interrupt is still  *)
(* held and may fail anyhow; in any case enable_irq.                       *)
InitInterrupt ==
  /\ at = "irq"
  /\ (~IrqHeld /\ P!Acquire) \/ P!Fail
  /\ I!EnableLine
  /\ UNCHANGED <<is_eint_timeout, edge, scheduled, stage, flag, wait, fired>>

ProbeStep ==
  /\ \/ P!Probe
     \/ at # "irq" /\ (P!Acquire \/ P!Fail)
     \/ P!Undo
     \/ P!Remove
  /\ UNCHANGED irqVars

FileStep(f) ==
  /\ \/ P!Open(f)
     \/ P!Opened(f)
     \/ /\ P!Release(f)
        /\ \/ \A t \in I!Threads : wait[t] = "out"
           \/ \E g \in Files \ {f} : file[g] \in {"open", "dangling"}
  /\ UNCHANGED irqVars

-----------------------------------------------------------------------------
(* The interrupt.  Nobody notices an edge of a line not requested.         *)

Chip == IrqHeld /\ I!Edge /\ UNCHANGED probeVars

Irq ==
  /\ \/ I!request_interrupt
     \/ \E q \in I!Queues : I!TaskletFlag(q) \/ I!TaskletWake(q) \/ I!TaskletEnable(q)
  /\ UNCHANGED probeVars

(* The ioctls of applications, which a driver with open files serves.      *)
Enter ==
  /\ InUse
  /\ \/ \E m \in {0, 1} : I!SetMode(m)
     \/ \E t \in I!Threads : I!WaitBegin(t)
  /\ UNCHANGED probeVars

WaitStep(t) ==
  /\ I!WaitReturn(t) \/ I!WaitSleep(t) \/ I!WaitTimeout(t)
  /\ UNCHANGED probeVars

Signal(t) == I!WaitSignal(t) /\ UNCHANGED probeVars

-----------------------------------------------------------------------------
Next ==
  \/ InitInterrupt
  \/ ProbeStep
  \/ \E f \in Files : FileStep(f)
  \/ Chip
  \/ Irq
  \/ Enter
  \/ \E t \in I!Threads : WaitStep(t) \/ Signal(t)

(* As in EspInterrupt; nothing is assumed of the probe.                    *)
Fairness ==
  /\ WF_vars(I!request_interrupt /\ UNCHANGED probeVars)
  /\ \A q \in I!Queues : WF_vars(/\ \/ I!TaskletFlag(q)
                                    \/ I!TaskletWake(q)
                                    \/ I!TaskletEnable(q)
                                 /\ UNCHANGED probeVars)
  /\ \A t \in I!Threads : WF_vars(WaitStep(t))

Spec == Init /\ [][Next]_vars /\ Fairness

-----------------------------------------------------------------------------
(* Properties                                                              *)

(* The error path of the probe gives back only what it holds.              *)
UndoesHeld == P!UndoesHeld

(* A probe acquires everything but perhaps the interrupt, or gives         *)
(* everything but the interrupt back.                                      *)
AllOrNothing == P!AllOrNothing

(* No probe acquires what an earlier one, or a removal, has left behind.   *)
AcquiresAnew == P!AcquiresAnew

(* Only esp_remove leaves a file with a freed device.                      *)
FilesLive == P!FilesLive

(* The enable_irq of a repeated probe may come while a tasklet still owes  *)
(* one.  The line is then enabled too early, and IrqBalance no longer      *)
(* holds; but it is never disabled with nobody left to enable it, nor      *)
(* twice.                                                                  *)
LineOwed ==
  depth # 0 => depth = 1 /\ \E q \in I!Queues : I!Active(q)

(* Between the probes, during them and after them: an edge of a requested  *)
(* line is taken, hence the line always enabled again.                     *)
EdgeServed == edge ~> ~edge
=============================================================================
