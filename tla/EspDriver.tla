----------------------------- MODULE EspDriver ------------------------------
(***************************************************************************)
(* The ESP8266 driver: the command protocol (EspSpiSend) over the          *)
(* interrupt path (EspInterrupt).  They share is_eint_timeout, and a       *)
(* thread of esp_spi_send that waits for its answer is a thread of         *)
(* esp_wait_spi_eint_timeout.                                              *)
(*                                                                         *)
(* A thread at "wait" of the protocol has yet to enter its wait while      *)
(* wait[s] is "out"; what ends the wait takes it to "read" in the same     *)
(* step.  The chip raises the line when it answers (with the answer) and   *)
(* when it has data for a listener (at any time).                          *)
(***************************************************************************)
EXTENDS Naturals, Sequences

CONSTANTS
  Listeners,
  Senders,
  NoOne,
  FIFO_LEN,
  DATA_LEN

\* Those of the components.
ASSUME DriverAssumption ==
  /\ Listeners \cap Senders = {}
  /\ NoOne \notin Senders
  /\ FIFO_LEN \in Nat \ {0}
  /\ DATA_LEN \in Nat

VARIABLES
  is_eint_timeout,                                      \* shared
  edge, depth, scheduled, stage, flag, wait, fired,     \* EspInterrupt
  pc, cmd, retry, frag, rx, dev_lock, work, reply,      \* EspSpiSend
  sent, lost, overlap, upgraded,
  disturbed   \* history: an interrupt could have been taken for the answer
              \* to the thread's frame without being it

I == INSTANCE EspInterrupt

S == INSTANCE EspSpiSend

\* Of each component, what the other does not share.
irqVars == <<edge, depth, scheduled, stage, flag, wait, fired>>

sendVars ==
  <<pc, cmd, retry, frag, rx, dev_lock, work, reply, sent, lost, overlap, upgraded>>

vars == <<is_eint_timeout, irqVars, sendVars, disturbed>>

Init ==
  /\ I!Init
  /\ S!Init
  /\ disturbed = [s \in Senders |-> FALSE]

-----------------------------------------------------------------------------
(* An interrupt is on its way that no frame of the command that now begins *)
(* has caused, or the chip has yet to answer an earlier one.               *)
Unsettled == edge \/ I!Active("reply") \/ work.busy

Disturb(who) == disturbed' = [s \in Senders |-> disturbed[s] \/ s \in who]

Begin(s, c) ==
  /\ S!Begin(s, c)
  /\ disturbed' = [disturbed EXCEPT ![s] = Unsettled]
  /\ UNCHANGED irqVars

(* The transfers and what else the protocol does outside its wait.         *)
SendStep(s) ==
  /\ \/ S!Lock(s)
     \/ S!Write(s)
     \/ S!Read(s)
     \/ S!Ack(s)
     \/ S!SyncNoMemory(s)
     \/ S!ResetMode(s)
     \/ S!Return(s)
  /\ UNCHANGED irqVars
  /\ UNCHANGED disturbed

(* esp_wait_spi_eint_timeout is entered ...                                *)
WaitBegin(s) ==
  /\ pc[s] = "wait"
  /\ I!WaitBegin(s)
  /\ UNCHANGED sendVars
  /\ UNCHANGED disturbed

WaitSleep(s) ==
  /\ I!WaitSleep(s)
  /\ UNCHANGED sendVars
  /\ UNCHANGED disturbed

(* ... and returns, by the interrupt or without it.  Giving up disturbs    *)
(* the command if its answer, or the interrupt of its answer, is yet to    *)
(* come.                                                                   *)
WaitReturn(s) ==
  /\ I!WaitReturn(s)
  /\ S!WaitOver(s)
  /\ UNCHANGED disturbed

GiveUp(s) ==
  /\ S!WaitOver(s)
  /\ disturbed' = [disturbed EXCEPT ![s] = @ \/ Unsettled]

WaitTimeout(s) == I!WaitTimeout(s) /\ GiveUp(s)

WaitSignal(s) == I!WaitSignal(s) /\ GiveUp(s)

-----------------------------------------------------------------------------
(* ioctl ESP_IOC_SPI_EINT is entered, or a signal ends its wait.           *)
ListenOrSignal(l) ==
  /\ I!WaitBegin(l) \/ I!WaitSignal(l)
  /\ UNCHANGED sendVars
  /\ UNCHANGED disturbed

(* The wait of a listener goes to sleep, or returns with the interrupt.    *)
ListenOn(l) ==
  /\ I!WaitReturn(l) \/ I!WaitSleep(l)
  /\ UNCHANGED sendVars
  /\ UNCHANGED disturbed

Irq ==
  /\ \/ I!request_interrupt
     \/ \E q \in I!Queues : \/ I!TaskletFlag(q)
                            \/ I!TaskletWake(q)
                            \/ I!TaskletEnable(q)
  /\ UNCHANGED sendVars
  /\ UNCHANGED disturbed

-----------------------------------------------------------------------------
(* The chip has the answer to a frame.                                     *)
Answer(ok) ==
  /\ S!Answer(ok)
  /\ I!Edge
  /\ Disturb(Senders \ {work.from})

(* The chip has data for a listener.                                       *)
Notify ==
  /\ I!Edge
  /\ Disturb(Senders)
  /\ UNCHANGED sendVars

-----------------------------------------------------------------------------
Next ==
  \/ \E s \in Senders :
       \/ \E c \in S!Commands : Begin(s, c)
       \/ SendStep(s)
       \/ WaitBegin(s)
       \/ WaitSleep(s)
       \/ WaitReturn(s)
       \/ WaitTimeout(s)
       \/ WaitSignal(s)
  \/ \E l \in Listeners : ListenOrSignal(l) \/ ListenOn(l)
  \/ Irq
  \/ \E ok \in BOOLEAN : Answer(ok)
  \/ Notify

(* As in the components: threads run, waits for an answer end in time, the *)
(* kernel serves interrupts and tasklets.  Nothing is assumed of the chip. *)
Fairness ==
  /\ \A s \in Senders :
       /\ WF_vars(SendStep(s) \/ WaitBegin(s) \/ WaitSleep(s)
                    \/ WaitReturn(s) \/ WaitTimeout(s))
       /\ SF_vars(S!Lock(s) /\ SendStep(s))
  /\ WF_vars(Irq)
  /\ \A l \in Listeners : WF_vars(ListenOn(l))

Spec == Init /\ [][Next]_vars /\ Fairness

-----------------------------------------------------------------------------
(* Properties                                                              *)

TypeOK ==
  /\ I!TypeOK
  /\ S!TypeOK
  /\ disturbed \in [Senders -> BOOLEAN]

(* A SUCCESS that a command reads is the chip's answer to the frame the    *)
(* command has just sent, provided that nothing unusual came between: no   *)
(* other command, no data interrupt, no answer too late for its wait, no   *)
(* failed allocation.  Nothing but these timings ensures it: the driver    *)
(* never compares the identity of an answer with that of its command.      *)
SuccessIsFresh ==
  \A s \in Senders :
    /\ rx[s].ok
    /\ ~S!IsRead(s)
    /\ ~disturbed[s]
    /\ ~overlap[s]
    /\ ~lost[s]
    => rx[s].fresh

(* Every command returns, though the chip may stay silent and its data     *)
(* interrupts may keep coming.                                             *)
CommandReturns ==
  \A s \in Senders : S!InFlight(s) ~> ~S!InFlight(s)

(* A listener that is asleep when the chip raises the line gets its data   *)
(* interrupt, unless a command claims the interrupt before the handler has *)
(* dispatched it: once the listeners' tasklet is scheduled, no command can *)
(* keep it from the listener.                                              *)
ListenerServed ==
  /\ \A l \in Listeners :
       wait[l] = "asleep" /\ edge /\ is_eint_timeout = 0
         ~> wait[l] = "out" \/ is_eint_timeout = 1 \/ "event" \in scheduled
  /\ I!SleeperReleased
=============================================================================
