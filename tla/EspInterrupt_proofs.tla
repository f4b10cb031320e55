------------------------ MODULE EspInterrupt_proofs ------------------------
(***************************************************************************)
(* Proofs that the four safety properties of EspInterrupt hold for any     *)
(* sets of listeners and senders.                                          *)
(***************************************************************************)
EXTENDS EspInterrupt, TLAPS

(* What may happen, whether or not anything must: all that safety depends  *)
(* on, and all that a driver made of this component has to implement.      *)
Steps == Init /\ [][Next]_vars

(* A flag that is set while a thread is inside its wait was set after the  *)
(* wait began: what makes NoStaleReturn inductive.                         *)
FlagIsFresh ==
  \A t \in Threads : wait[t] # "out" /\ flag[QueueOf(t)] = 1 => fired[t]

-----------------------------------------------------------------------------
LEMMA TypeSteps == Steps => []TypeOK
<1>1. Init => TypeOK
  <2> SUFFICES ASSUME Init PROVE TypeOK
    OBVIOUS
  <2>1. edge \in BOOLEAN /\ fired \in [Threads -> BOOLEAN]
    BY Zenon DEF Init
  <2>2. /\ is_eint_timeout \in {0, 1} /\ depth \in Nat /\ scheduled \subseteq Queues
        /\ stage \in [Queues -> Stages] /\ flag \in [Queues -> {0, 1}]
        /\ wait \in [Threads -> WaitStates]
    BY DEF Init, Queues, Stages, WaitStates
  <2> QED
    BY <2>1, <2>2, Zenon DEF TypeOK
<1>2. TypeOK /\ [Next]_vars => TypeOK'
  <2> SUFFICES ASSUME TypeOK, [Next]_vars PROVE TypeOK'
    OBVIOUS
  <2> USE DEF TypeOK, Queues, Stages, WaitStates
  <2>1. CASE Edge
    BY <2>1 DEF Edge
  <2>2. ASSUME NEW m \in {0, 1}, SetMode(m) PROVE TypeOK'
    BY <2>2 DEF SetMode
  <2>3. CASE request_interrupt
    <3>1. edge' \in BOOLEAN
      BY <2>3, Zenon DEF request_interrupt
    <3>2. scheduled' \subseteq Queues /\ depth' \in Nat
      BY <2>3 DEF request_interrupt, Target
    <3> QED
      BY <2>3, <3>1, <3>2 DEF request_interrupt
  <2>4. ASSUME NEW q \in Queues, TaskletFlag(q) PROVE TypeOK'
    BY <2>4 DEF TaskletFlag
  <2>5. ASSUME NEW q \in Queues, TaskletWake(q) PROVE TypeOK'
    BY <2>5 DEF TaskletWake, Woken
  <2>6. ASSUME NEW q \in Queues, TaskletEnable(q) PROVE TypeOK'
    BY <2>6 DEF TaskletEnable, EnableLine
  <2>7. ASSUME NEW t \in Threads, WaitBegin(t) PROVE TypeOK'
    BY <2>7 DEF WaitBegin, QueueOf
  <2>8. ASSUME NEW t \in Threads, WaitReturn(t) PROVE TypeOK'
    BY <2>8 DEF WaitReturn
  <2>9. ASSUME NEW t \in Threads, WaitSleep(t) PROVE TypeOK'
    BY <2>9 DEF WaitSleep
  <2>10. ASSUME NEW t \in Threads, LeaveAsleep(t) PROVE TypeOK'
    BY <2>10 DEF LeaveAsleep
  <2>11. CASE UNCHANGED vars
    BY <2>11 DEF vars
  <2> QED
    BY <2>1, <2>2, <2>3, <2>4, <2>5, <2>6, <2>7, <2>8, <2>9, <2>10, <2>11
    DEF Next, WaitTimeout, WaitSignal
<1> QED
  BY <1>1, <1>2, PTL DEF Steps

(* The variables of the driver keep their types: is_eint_timeout stays a   *)
(* bit and every tasklet, flag and wait is in one of its states.           *)
THEOREM TypeCorrect == Spec => []TypeOK
  BY TypeSteps, PTL DEF Spec, Steps

-----------------------------------------------------------------------------
LEMMA IrqSteps == Steps => []IrqBalance
<1>1. Init => IrqBalance
  BY DEF Init, IrqBalance, Active, Queues
<1>2. TypeOK /\ IrqBalance /\ [Next]_vars => IrqBalance'
  <2> SUFFICES ASSUME TypeOK, IrqBalance, [Next]_vars PROVE IrqBalance'
    OBVIOUS
  <2> USE DEF IrqBalance, Active, TypeOK, Queues, Stages
  <2>1. CASE Edge
    BY <2>1 DEF Edge
  <2>2. ASSUME NEW m \in {0, 1}, SetMode(m) PROVE IrqBalance'
    BY <2>2 DEF SetMode
  <2>3. CASE request_interrupt
    BY <2>3 DEF request_interrupt, Target
  <2>4. ASSUME NEW q \in Queues, TaskletFlag(q) PROVE IrqBalance'
    BY <2>4 DEF TaskletFlag
  <2>5. ASSUME NEW q \in Queues, TaskletWake(q) PROVE IrqBalance'
    BY <2>5 DEF TaskletWake
  <2>6. ASSUME NEW q \in Queues, TaskletEnable(q) PROVE IrqBalance'
    BY <2>6 DEF TaskletEnable, EnableLine
  <2>7. ASSUME NEW t \in Threads,
               WaitBegin(t) \/ WaitReturn(t) \/ WaitSleep(t) \/ LeaveAsleep(t)
        PROVE  IrqBalance'
    BY <2>7 DEF WaitBegin, WaitReturn, WaitSleep, LeaveAsleep
  <2>8. CASE UNCHANGED vars
    BY <2>8 DEF vars
  <2> QED
    BY <2>1, <2>2, <2>3, <2>4, <2>5, <2>6, <2>7, <2>8
    DEF Next, WaitTimeout, WaitSignal
<1> QED
  BY <1>1, <1>2, TypeSteps, PTL DEF Steps

(* disable_irq_nosync in request_interrupt and enable_irq in the tasklets  *)
(* pair up in every execution: the line is disabled once at most, and      *)
(* exactly while one tasklet owes it the enable.                           *)
THEOREM IrqBalanced == Spec => []IrqBalance
  BY IrqSteps, PTL DEF Spec, Steps

-----------------------------------------------------------------------------
LEMMA WakeupSteps == Steps => []NoLostWakeup
<1>1. Init => NoLostWakeup
  BY DEF Init, NoLostWakeup
<1>2. TypeOK /\ NoLostWakeup /\ [Next]_vars => NoLostWakeup'
  <2> SUFFICES ASSUME TypeOK, NoLostWakeup, [Next]_vars PROVE NoLostWakeup'
    OBVIOUS
  <2> USE DEF NoLostWakeup, TypeOK, Queues, Stages, WaitStates
  <2>1. CASE Edge \/ request_interrupt
    BY <2>1 DEF Edge, request_interrupt
  <2>2. ASSUME NEW m \in {0, 1}, SetMode(m) PROVE NoLostWakeup'
    BY <2>2 DEF SetMode
  <2>3. ASSUME NEW q \in Queues, TaskletFlag(q) PROVE NoLostWakeup'
    BY <2>3 DEF TaskletFlag, QueueOf
  <2>4. ASSUME NEW q \in Queues, TaskletWake(q) PROVE NoLostWakeup'
    BY <2>4 DEF TaskletWake, Woken, QueueOf
  <2>5. ASSUME NEW q \in Queues, TaskletEnable(q) PROVE NoLostWakeup'
    BY <2>5 DEF TaskletEnable, QueueOf
  <2>6. ASSUME NEW t \in Threads, WaitBegin(t) PROVE NoLostWakeup'
    BY <2>6 DEF WaitBegin, QueueOf
  <2>7. ASSUME NEW t \in Threads, WaitReturn(t) PROVE NoLostWakeup'
    BY <2>7 DEF WaitReturn, QueueOf
  <2>8. ASSUME NEW t \in Threads, WaitSleep(t) PROVE NoLostWakeup'
    BY <2>8 DEF WaitSleep, QueueOf
  <2>9. ASSUME NEW t \in Threads, LeaveAsleep(t) PROVE NoLostWakeup'
    BY <2>9 DEF LeaveAsleep, QueueOf
  <2>10. CASE UNCHANGED vars
    BY <2>10 DEF vars
  <2> QED
    BY <2>1, <2>2, <2>3, <2>4, <2>5, <2>6, <2>7, <2>8, <2>9, <2>10
    DEF Next, WaitTimeout, WaitSignal
<1> QED
  BY <1>1, <1>2, TypeSteps, PTL DEF Steps

(* No thread sleeps through its tasklet's wake_up: a sleeper whose flag is *)
(* set is one the tasklet is about to wake, with any number of threads     *)
(* resetting and testing the shared flag.                                  *)
THEOREM WakeupsKept == Spec => []NoLostWakeup
  BY WakeupSteps, PTL DEF Spec, Steps

-----------------------------------------------------------------------------
LEMMA ReturnSteps == Steps => []NoStaleReturn
<1>1. Init => FlagIsFresh
  BY DEF Init, FlagIsFresh
<1>2. TypeOK /\ FlagIsFresh /\ [Next]_vars => FlagIsFresh'
  <2> SUFFICES ASSUME TypeOK, FlagIsFresh, [Next]_vars PROVE FlagIsFresh'
    OBVIOUS
  <2> USE DEF FlagIsFresh, TypeOK, Queues, WaitStates
  <2>1. CASE Edge \/ request_interrupt
    BY <2>1 DEF Edge, request_interrupt
  <2>2. ASSUME NEW m \in {0, 1}, SetMode(m) PROVE FlagIsFresh'
    BY <2>2 DEF SetMode
  <2>3. ASSUME NEW q \in Queues, TaskletFlag(q) PROVE FlagIsFresh'
    BY <2>3 DEF TaskletFlag, QueueOf
  <2>4. ASSUME NEW q \in Queues, TaskletWake(q) PROVE FlagIsFresh'
    BY <2>4 DEF TaskletWake, Woken, QueueOf
  <2>5. ASSUME NEW q \in Queues, TaskletEnable(q) PROVE FlagIsFresh'
    BY <2>5 DEF TaskletEnable
  <2>6. ASSUME NEW t \in Threads, WaitBegin(t) PROVE FlagIsFresh'
    BY <2>6 DEF WaitBegin, QueueOf
  <2>7. ASSUME NEW t \in Threads, WaitReturn(t) \/ WaitSleep(t) \/ LeaveAsleep(t)
        PROVE  FlagIsFresh'
    BY <2>7 DEF WaitReturn, WaitSleep, LeaveAsleep
  <2>8. CASE UNCHANGED vars
    BY <2>8 DEF vars
  <2> QED
    BY <2>1, <2>2, <2>3, <2>4, <2>5, <2>6, <2>7, <2>8
    DEF Next, WaitTimeout, WaitSignal
<1>3. FlagIsFresh => NoStaleReturn
  BY DEF FlagIsFresh, NoStaleReturn
<1> QED
  BY <1>1, <1>2, <1>3, TypeSteps, PTL DEF Steps

(* A wait that ends by its condition was ended by an interrupt handled     *)
(* since it began, never by one left over in the flag, although the        *)
(* threads of a queue share the flag and each resets it on entry.          *)
THEOREM ReturnsFresh == Spec => []NoStaleReturn
  BY ReturnSteps, PTL DEF Spec, Steps

=============================================================================
