---------------------------- MODULE EspInterrupt ----------------------------
(***************************************************************************)
(* The interrupt side of the ESP8266 driver (security_ic/ESP8266/          *)
(* esp_common.c): the interrupt handler request_interrupt, the two         *)
(* tasklets it schedules and the two wait queues they wake.                *)
(*                                                                         *)
(* The chip has one interrupt line for two purposes.  A rising edge means  *)
(* either "the answer to the command you sent is ready" or "I have data    *)
(* for you".  The driver tells them apart by the global is_eint_timeout,   *)
(* which esp_spi_send sets while it waits for an answer: when it is 1 the  *)
(* edge wakes g_Waitq_timeout, otherwise it wakes g_Waitq.                 *)
(*                                                                         *)
(*   queue "event"   g_Waitq, flag_irq, esp_spi_tasklet: the Listeners,    *)
(*                   threads inside ioctl ESP_IOC_SPI_EINT;                *)
(*   queue "reply"   g_Waitq_timeout, flag_irq_timeout,                    *)
(*                   esp_spi_tasklet_timeout: the Senders, threads inside  *)
(*                   esp_spi_send.                                         *)
(*                                                                         *)
(* Everything the kernel does on the driver's behalf (the edge latched     *)
(* while the line is disabled, the tasklet and wait queue primitives) is   *)
(* modelled from how the driver uses it.                                   *)
(***************************************************************************)
EXTENDS Naturals

CONSTANTS
  Listeners,   \* threads that wait for data   (esp_wait_spi_eint)
  Senders      \* threads that send commands   (esp_wait_spi_eint_timeout)

ASSUME ThreadsAssumption == Listeners \cap Senders = {}

Threads == Listeners \cup Senders

Queues == {"event", "reply"}

QueueOf(t) == IF t \in Senders THEN "reply" ELSE "event"

VARIABLES
  is_eint_timeout,  \* 0 or 1: which queue the next edge is meant for
  edge,             \* a rising edge is latched and not yet handled
  depth,            \* disable depth of the line: 0 means enabled
  scheduled,        \* queues whose tasklet is scheduled
  stage,            \* how far the running tasklet of a queue has come
  flag,             \* flag_irq and flag_irq_timeout
  wait,             \* where a thread is in its wait_event_interruptible
  fired             \* history: the thread's tasklet has run since its wait began

vars == <<is_eint_timeout, edge, depth, scheduled, stage, flag, wait, fired>>

Stages == {"idle", "flagged", "woken"}

WaitStates == {"out", "check", "asleep"}

TypeOK ==
  /\ is_eint_timeout \in {0, 1}
  /\ edge \in BOOLEAN
  /\ depth \in Nat
  /\ scheduled \subseteq Queues
  /\ stage \in [Queues -> Stages]
  /\ flag \in [Queues -> {0, 1}]
  /\ wait \in [Threads -> WaitStates]
  /\ fired \in [Threads -> BOOLEAN]

(* esp_init_interrupt has run: request_irq left the line enabled, and the  *)
(* additional enable_irq of an enabled line changes nothing.  (An edge     *)
(* between the two is in EspBringUp.)                                      *)
Init ==
  /\ is_eint_timeout = 0
  /\ edge = FALSE
  /\ depth = 0
  /\ scheduled = {}
  /\ stage = [q \in Queues |-> "idle"]
  /\ flag = [q \in Queues |-> 0]
  /\ wait = [t \in Threads |-> "out"]
  /\ fired = [t \in Threads |-> FALSE]

-----------------------------------------------------------------------------
(* Where the handler sends an edge.                                        *)
Target == IF is_eint_timeout = 1 THEN "reply" ELSE "event"

(* enable_irq; of an enabled line it changes nothing.                      *)
EnableLine == depth' = IF depth = 0 THEN 0 ELSE depth - 1

(* Threads asleep on q look at the flag again.                             *)
Woken(q) ==
  [t \in Threads |-> IF QueueOf(t) = q /\ wait[t] = "asleep" THEN "check"
                                                            ELSE wait[t]]

-----------------------------------------------------------------------------
(* Altered actions, each with one plausible slip of the driver in it.  No  *)
(* specification uses them: a property that cannot tell the driver from    *)
(* them would not be worth checking.                                       *)

(* is_eint_timeout given the length of the wait instead of 1.              *)
SetModeToJiffies(m) ==
  /\ is_eint_timeout' = 200 * m
  /\ UNCHANGED <<edge, depth, scheduled, stage, flag, wait, fired>>

(* A handler without its disable_irq_nosync.                               *)
HandlerKeepsLineEnabled ==
  /\ edge
  /\ depth = 0
  /\ edge' = FALSE
  /\ scheduled' = scheduled \cup {Target}
  /\ UNCHANGED <<is_eint_timeout, depth, stage, flag, wait, fired>>

(* A tasklet without its wake_up_interruptible.                            *)
TaskletForgetsWakeUp(q) ==
  /\ q \in scheduled
  /\ stage[q] = "idle"
  /\ scheduled' = scheduled \ {q}
  /\ flag' = [flag EXCEPT ![q] = 1]
  /\ fired' = [t \in Threads |-> fired[t] \/ QueueOf(t) = q]
  /\ stage' = [stage EXCEPT ![q] = "woken"]
  /\ UNCHANGED <<is_eint_timeout, edge, depth, wait>>

(* A timeout tasklet without its enable_irq.                               *)
TaskletEnableEventOnly(q) ==
  /\ stage[q] = "woken"
  /\ IF q = "event" THEN EnableLine ELSE UNCHANGED depth
  /\ stage' = [stage EXCEPT ![q] = "idle"]
  /\ UNCHANGED <<is_eint_timeout, edge, scheduled, flag, wait, fired>>

(* A wait that takes the interrupt it returns with, as if it were the only *)
(* one.                                                                    *)
WaitReturnTakes(t) ==
  /\ wait[t] = "check"
  /\ flag[QueueOf(t)] # 0
  /\ wait' = [wait EXCEPT ![t] = "out"]
  /\ flag' = [flag EXCEPT ![QueueOf(t)] = 0]
  /\ UNCHANGED <<is_eint_timeout, edge, depth, scheduled, stage, fired>>

(* A wait without its `flag_irq = 0'.                                      *)
WaitKeepsFlag(t) ==
  /\ wait[t] = "out"
  /\ wait' = [wait EXCEPT ![t] = "check"]
  /\ fired' = [fired EXCEPT ![t] = FALSE]
  /\ UNCHANGED <<is_eint_timeout, edge, depth, scheduled, stage, flag>>

-----------------------------------------------------------------------------
(* The chip and the handler                                                *)

(* The chip raises the line.  Edges that come before the latch is taken    *)
(* merge into one.                                                         *)
Edge ==
  /\ edge' = TRUE
  /\ UNCHANGED <<is_eint_timeout, depth, scheduled, stage, flag, wait, fired>>

(* esp_spi_send selects the queue of the next edge.                        *)
SetMode(m) ==
  /\ is_eint_timeout' = m
  /\ UNCHANGED <<edge, depth, scheduled, stage, flag, wait, fired>>

(* disable_irq_nosync, then tasklet_schedule of the selected tasklet.      *)
request_interrupt ==
  /\ edge
  /\ depth = 0
  /\ edge' = FALSE
  /\ depth' = depth + 1
  /\ scheduled' = scheduled \cup {Target}
  /\ UNCHANGED <<is_eint_timeout, stage, flag, wait, fired>>

-----------------------------------------------------------------------------
(* The tasklets: esp_spi_eint_handler and esp_spi_eint_handler_timeout set *)
(* the flag, wake the queue and enable the line, in this order.            *)

TaskletFlag(q) ==
  /\ q \in scheduled
  /\ stage[q] = "idle"
  /\ scheduled' = scheduled \ {q}
  /\ flag' = [flag EXCEPT ![q] = 1]
  /\ fired' = [t \in Threads |-> fired[t] \/ QueueOf(t) = q]
  /\ stage' = [stage EXCEPT ![q] = "flagged"]
  /\ UNCHANGED <<is_eint_timeout, edge, depth, wait>>

TaskletWake(q) ==
  /\ stage[q] = "flagged"
  /\ wait' = Woken(q)
  /\ stage' = [stage EXCEPT ![q] = "woken"]
  /\ UNCHANGED <<is_eint_timeout, edge, depth, scheduled, flag, fired>>

TaskletEnable(q) ==
  /\ stage[q] = "woken"
  /\ EnableLine
  /\ stage' = [stage EXCEPT ![q] = "idle"]
  /\ UNCHANGED <<is_eint_timeout, edge, scheduled, flag, wait, fired>>

-----------------------------------------------------------------------------
(* The waits: esp_wait_spi_eint and esp_wait_spi_eint_timeout.             *)

(* Entry: the flag of an earlier interrupt is discarded.                   *)
WaitBegin(t) ==
  /\ wait[t] = "out"
  /\ flag' = [flag EXCEPT ![QueueOf(t)] = 0]
  /\ wait' = [wait EXCEPT ![t] = "check"]
  /\ fired' = [fired EXCEPT ![t] = FALSE]
  /\ UNCHANGED <<is_eint_timeout, edge, depth, scheduled, stage>>

(* The wait macro queues the thread before it tests the flag, so testing   *)
(* and falling asleep are one step with respect to wake_up.                *)
WaitReturn(t) ==
  /\ wait[t] = "check"
  /\ flag[QueueOf(t)] # 0
  /\ wait' = [wait EXCEPT ![t] = "out"]
  /\ UNCHANGED <<is_eint_timeout, edge, depth, scheduled, stage, flag, fired>>

WaitSleep(t) ==
  /\ wait[t] = "check"
  /\ flag[QueueOf(t)] = 0
  /\ wait' = [wait EXCEPT ![t] = "asleep"]
  /\ UNCHANGED <<is_eint_timeout, edge, depth, scheduled, stage, flag, fired>>

(* The wait ends with no interrupt, and its caller is not told: the driver *)
(* ignores what the macro returns and both functions return spi_eint,      *)
(* which nothing ever assigns.                                             *)
LeaveAsleep(t) ==
  /\ wait[t] = "asleep"
  /\ wait' = [wait EXCEPT ![t] = "out"]
  /\ UNCHANGED <<is_eint_timeout, edge, depth, scheduled, stage, flag, fired>>

(* Altered, for the checks: the listeners' wait is the timed one.          *)
ListenerTimed(t) == t \in Listeners /\ LeaveAsleep(t)

(* Only the wait for a reply is timed.                                     *)
WaitTimeout(t) == t \in Senders /\ LeaveAsleep(t)

(* Both waits are interruptible.                                           *)
WaitSignal(t) == LeaveAsleep(t)

-----------------------------------------------------------------------------
Next ==
  \/ Edge
  \/ \E m \in {0, 1} : SetMode(m)
  \/ request_interrupt
  \/ \E q \in Queues : TaskletFlag(q) \/ TaskletWake(q) \/ TaskletEnable(q)
  \/ \E t \in Threads :
       \/ WaitBegin(t)
       \/ WaitReturn(t)
       \/ WaitSleep(t)
       \/ WaitTimeout(t)
       \/ WaitSignal(t)

(* The kernel runs what is pending: an enabled line delivers its latched   *)
(* edge, a tasklet runs to its end, a woken thread is scheduled, a timer   *)
(* expires.  Nothing is assumed of the chip, of signals, of is_eint_timeout*)
(* or of when a thread begins to wait.                                     *)
Fairness ==
  /\ WF_vars(request_interrupt)
  /\ \A q \in Queues : /\ WF_vars(TaskletFlag(q))
                       /\ WF_vars(TaskletWake(q))
                       /\ WF_vars(TaskletEnable(q))
  /\ \A t \in Threads : /\ WF_vars(WaitReturn(t))
                        /\ WF_vars(WaitSleep(t))
                        /\ WF_vars(WaitTimeout(t))

Spec == Init /\ [][Next]_vars /\ Fairness

-----------------------------------------------------------------------------
(* Properties                                                              *)

(* The tasklet of q is scheduled or running.                               *)
Active(q) == q \in scheduled \/ stage[q] # "idle"

(* The line is disabled exactly while one tasklet owes it an enable_irq,   *)
(* and never twice: disable_irq_nosync in the handler and enable_irq in    *)
(* the tasklet pair up, so no interrupt finds its tasklet already          *)
(* scheduled (the kernel would merge the two and leave one disable         *)
(* without its enable).                                                    *)
IrqBalance ==
  /\ depth = 0 => \A q \in Queues : ~Active(q)
  /\ depth # 0 => /\ depth = 1
                  /\ \E q \in Queues : Active(q)
  /\ \A p, q \in Queues : Active(p) /\ Active(q) => p = q
  /\ \A q \in Queues : ~(q \in scheduled /\ stage[q] # "idle")

(* A thread sleeps on although its flag is set only for the moment between *)
(* the tasklet's assignment and its wake_up: no wake-up is lost while a    *)
(* thread is asleep, whatever other threads of its queue do.               *)
NoLostWakeup ==
  \A t \in Threads :
    wait[t] = "asleep" /\ flag[QueueOf(t)] = 1 => stage[QueueOf(t)] = "flagged"

(* A wait that returns by its condition has seen an interrupt that its own *)
(* tasklet handled after the wait began: never one left over from before,  *)
(* although every thread of the queue shares one flag.                     *)
NoStaleReturn ==
  \A t \in Threads :
    wait[t] = "check" /\ flag[QueueOf(t)] = 1 => fired[t]

(* A latched edge is always taken, and the line is always enabled again:   *)
(* no interleaving of tasklets and waits leaves the driver deaf.           *)
EdgeServed == edge ~> ~edge

(* A listener that is asleep when its tasklet is scheduled comes out of    *)
(* its untimed wait: the flag is set while it waits, and then it returns,  *)
(* unless another listener begins to wait before it has looked.  That one  *)
(* (its own wait not fired yet) resets the flag they share, and the sleeper*)
(* sleeps on.  Listeners that are woken with it, and return, take nothing  *)
(* from it.                                                                *)
SleeperReleased ==
  \A l \in Listeners :
    /\ wait[l] = "asleep" /\ "event" \in scheduled
         ~> wait[l] = "out" \/ flag["event"] = 1
    /\ wait[l] # "out" /\ flag["event"] = 1
         ~> \/ wait[l] = "out"
            \/ \E k \in Listeners \ {l} : wait[k] = "check" /\ ~fired[k]
=============================================================================
