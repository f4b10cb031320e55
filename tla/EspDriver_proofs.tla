-------------------------- MODULE EspDriver_proofs --------------------------
(***************************************************************************)
(* Proofs about EspDriver, for any sets of threads and any lengths: what   *)
(* holds of its two components holds of the driver, and a command reads    *)
(* the answer to its own frame.                                            *)
(***************************************************************************)
EXTENDS EspDriver, TLAPS

(* What the protocol does to is_eint_timeout is a SetMode of the interrupt *)
(* path, and a wait of esp_spi_send is a wait of the interrupt path.       *)
LEMMA InterruptImplemented == Spec => I!Init /\ [][I!Next]_(I!vars)
<1> USE DEF irqVars
<1>1. Init => I!Init
  BY DEF Init
<1>2. [Next]_vars => [I!Next]_(I!vars)
  <2> SUFFICES ASSUME [Next]_vars PROVE I!Next \/ UNCHANGED I!vars
    OBVIOUS
  <2>1. ASSUME NEW s \in Senders, NEW c \in S!Commands, Begin(s, c)
        PROVE  I!Next
    <3>1. is_eint_timeout' \in {0, 1}
      BY <2>1 DEF Begin, S!Begin
    <3> QED
      BY <2>1, <3>1 DEF Begin, I!Next, I!SetMode
  <2>2. ASSUME NEW s \in Senders, SendStep(s)
        PROVE  I!Next \/ UNCHANGED I!vars
    <3>1. CASE S!ResetMode(s)
      BY <2>2, <3>1 DEF SendStep, S!ResetMode, I!Next, I!SetMode
    <3>2. CASE UNCHANGED is_eint_timeout
      BY <2>2, <3>2 DEF SendStep, I!vars
    <3>3. \/ S!ResetMode(s)
          \/ UNCHANGED is_eint_timeout
      BY <2>2 DEF SendStep, S!Lock, S!Write, S!Read, S!Ack, S!SyncNoMemory,
                  S!Return, S!Judge
    <3> QED
      BY <3>1, <3>2, <3>3
  <2>3. ASSUME NEW s \in Senders,
               \/ WaitBegin(s) \/ WaitSleep(s) \/ WaitReturn(s)
               \/ WaitTimeout(s) \/ WaitSignal(s)
        PROVE  I!Next
    <3>1. s \in I!Threads
      BY DEF I!Threads
    <3> QED
      BY <2>3, <3>1 DEF WaitBegin, WaitSleep, WaitReturn, WaitTimeout,
         WaitSignal,
                        I!Next
  <2>4. ASSUME NEW l \in Listeners, ListenOrSignal(l) \/ ListenOn(l)
        PROVE  I!Next
    <3>1. l \in I!Threads
      BY DEF I!Threads
    <3> QED
      BY <2>4, <3>1 DEF ListenOrSignal, ListenOn, I!Next
  <2>5. CASE Irq
    BY <2>5 DEF Irq, I!Next
  <2>6. CASE Notify \/ \E ok \in BOOLEAN : Answer(ok)
    BY <2>6 DEF Notify, Answer, I!Next
  <2>7. CASE UNCHANGED vars
    BY <2>7 DEF vars, I!vars
  <2> QED
    BY <2>1, <2>2, <2>3, <2>4, <2>5, <2>6, <2>7 DEF Next
<1> QED
  BY <1>1, <1>2, PTL DEF Spec

-----------------------------------------------------------------------------
(* Whatever the interrupt path does is a step of the protocol or none of   *)
(* its state: a wait that ends, by the interrupt, the timeout or a signal, *)
(* is the WaitOver that the protocol allows at any time.                   *)
LEMMA ProtocolImplemented == Spec => S!Init /\ [][S!Next]_(S!vars)
<1>1. Init => S!Init
  BY DEF Init
<1>2. [Next]_vars => [S!Next]_(S!vars)
  <2> SUFFICES ASSUME [Next]_vars PROVE S!Next \/ UNCHANGED S!vars
    OBVIOUS
  <2> USE DEF sendVars
  <2>1. ASSUME NEW s \in Senders, NEW c \in S!Commands, Begin(s, c)
        PROVE  S!Next
    BY <2>1 DEF Begin, S!Next
  <2>2. ASSUME NEW s \in Senders, SendStep(s)
        PROVE  S!Next
    BY <2>2 DEF SendStep, S!Next, S!Step
  <2>3. ASSUME NEW s \in Senders, WaitReturn(s) \/ WaitTimeout(s) \/ WaitSignal(s)
        PROVE  S!Next
    BY <2>3 DEF WaitReturn, WaitTimeout, WaitSignal, GiveUp, S!Next, S!Step
  <2>4. ASSUME NEW s \in Senders, WaitBegin(s) \/ WaitSleep(s)
        PROVE  UNCHANGED S!vars
    BY <2>4 DEF WaitBegin, WaitSleep, I!WaitBegin, I!WaitSleep,
                S!vars, S!driverVars, S!chipVars, S!historyVars
  <2>5. ASSUME NEW l \in Listeners, ListenOrSignal(l) \/ ListenOn(l)
        PROVE  UNCHANGED S!vars
    BY <2>5 DEF ListenOrSignal, ListenOn, I!WaitBegin, I!WaitSleep,
                I!WaitReturn, I!WaitSignal, I!LeaveAsleep,
                S!vars, S!driverVars, S!chipVars, S!historyVars
  <2>6. CASE Irq
    BY <2>6 DEF Irq, I!request_interrupt, I!TaskletFlag, I!TaskletWake,
                I!TaskletEnable, S!vars, S!driverVars, S!chipVars,
                S!historyVars
  <2>7. CASE Notify
    BY <2>7 DEF Notify, I!Edge, S!vars, S!driverVars, S!chipVars, S!historyVars
  <2>8. ASSUME NEW ok \in BOOLEAN, Answer(ok)
        PROVE  S!Next
    BY <2>8 DEF Answer, S!Next
  <2>9. CASE UNCHANGED vars
    BY <2>9 DEF vars, S!vars, S!driverVars, S!chipVars, S!historyVars
  <2> QED
    BY <2>1, <2>2, <2>3, <2>4, <2>5, <2>6, <2>7, <2>8, <2>9 DEF Next
<1> QED
  BY <1>1, <1>2, PTL DEF Spec

-----------------------------------------------------------------------------
(* What the proofs of the components show, of the driver.                  *)

IP == INSTANCE EspInterrupt_proofs

SP == INSTANCE EspSpiSend_proofs

LEMMA SameInterrupt ==
  (I!Init => IP!Init) /\ ([I!Next]_(I!vars) => [IP!Next]_(IP!vars))
  BY DEF I!Next, IP!Next, I!Init, IP!Init, I!vars, IP!vars,
         I!Edge, IP!Edge, I!SetMode, IP!SetMode,
         I!request_interrupt, IP!request_interrupt, I!Target, IP!Target,
         I!TaskletFlag, IP!TaskletFlag, I!TaskletWake, IP!TaskletWake,
         I!TaskletEnable, IP!TaskletEnable, I!EnableLine, IP!EnableLine,
         I!Woken, IP!Woken, I!QueueOf, IP!QueueOf, I!Queues, IP!Queues,
         I!WaitBegin, IP!WaitBegin, I!WaitReturn, IP!WaitReturn,
         I!WaitSleep, IP!WaitSleep, I!WaitTimeout, IP!WaitTimeout,
         I!WaitSignal, IP!WaitSignal, I!LeaveAsleep, IP!LeaveAsleep,
         I!Threads, IP!Threads

LEMMA SameProtocol ==
  (S!Init => SP!Init) /\ ([S!Next]_(S!vars) => [SP!Next]_(SP!vars))
<1> USE DEF S!driverVars, SP!driverVars, S!chipVars, SP!chipVars,
            S!historyVars, SP!historyVars
<1>1. UNCHANGED S!vars <=> UNCHANGED SP!vars
  BY DEF S!vars, SP!vars
<1>2. S!Init <=> SP!Init
  BY DEF S!Init, SP!Init, S!NoCommand, SP!NoCommand, S!NothingRead,
     SP!NothingRead, S!NoWork, SP!NoWork, S!NoReply, SP!NoReply, S!MaxRetry,
     SP!MaxRetry
<1>3. S!Commands = SP!Commands
  BY DEF S!Commands, SP!Commands, S!Lengths, SP!Lengths
<1>4. ASSUME NEW s \in Senders
      PROVE  /\ S!IsRead(s) <=> SP!IsRead(s)
             /\ S!IsLarge(s) <=> SP!IsLarge(s)
             /\ S!NextFrame(s) = SP!NextFrame(s)
             /\ S!LoopEnd(s) = SP!LoopEnd(s)
             /\ \A ok : S!LoopDone(s, ok) <=> SP!LoopDone(s, ok)
  BY DEF S!IsRead, SP!IsRead, S!IsLarge, SP!IsLarge, S!IsSmall, SP!IsSmall,
     S!NextFrame, SP!NextFrame, S!FragmentAt, SP!FragmentAt, S!FragmentLen,
     SP!FragmentLen, S!FragmentCount, SP!FragmentCount, S!LoopEnd, SP!LoopEnd,
     S!LoopDone, SP!LoopDone
<1>5. ASSUME NEW s \in Senders, NEW c PROVE S!Begin(s, c) <=> SP!Begin(s, c)
  BY DEF S!Begin, SP!Begin, S!Goto, SP!Goto, S!LoopStart, SP!LoopStart,
     S!InFlight, SP!InFlight, S!IsSmall, SP!IsSmall
<1>6. ASSUME NEW s \in Senders, NEW r PROVE S!Judge(s, r) <=> SP!Judge(s, r)
  BY <1>4 DEF S!Judge, SP!Judge, S!Goto, SP!Goto, S!LoopStart, SP!LoopStart
<1>7. ASSUME NEW s \in Senders
      PROVE  /\ S!Lock(s) <=> SP!Lock(s)
             /\ S!Write(s) <=> SP!Write(s)
             /\ S!WaitOver(s) <=> SP!WaitOver(s)
             /\ S!Read(s) <=> SP!Read(s)
             /\ S!Ack(s) <=> SP!Ack(s)
  BY <1>4, <1>6 DEF S!Lock, SP!Lock, S!Write, SP!Write, S!WaitOver,
     SP!WaitOver, S!Read, SP!Read, S!Ack, SP!Ack, S!Goto, SP!Goto
<1>8. ASSUME NEW s \in Senders
      PROVE  /\ S!SyncNoMemory(s) <=> SP!SyncNoMemory(s)
             /\ S!ResetMode(s) <=> SP!ResetMode(s)
             /\ S!Return(s) <=> SP!Return(s)
  BY <1>4, <1>6 DEF S!SyncNoMemory, SP!SyncNoMemory, S!ResetMode,
     SP!ResetMode, S!Return, SP!Return, S!Goto, SP!Goto, S!NoReply,
     SP!NoReply, S!NoCommand, SP!NoCommand, S!MaxRetry, SP!MaxRetry,
     S!NothingRead, SP!NothingRead, S!Disown, SP!Disown
<1>9. ASSUME NEW ok PROVE S!Answer(ok) <=> SP!Answer(ok)
  BY DEF S!Answer, SP!Answer, S!NoWork, SP!NoWork
<1> QED
  BY <1>1, <1>2, <1>3, <1>5, <1>7, <1>8, <1>9 DEF S!Next, SP!Next, S!Step,
     SP!Step

(* The driver's steps are those that the proofs of EspInterrupt start from *)
(* ...                                                                     *)
LEMMA InterruptSteps == Spec => IP!Steps
  BY SameInterrupt, InterruptImplemented, PTL DEF IP!Steps

(* ... and those of EspSpiSend.                                            *)
LEMMA ProtocolSteps == Spec => SP!Steps
  BY SameProtocol, ProtocolImplemented, PTL DEF SP!Steps

(* In the driver, too, the line is disabled only while a tasklet owes it   *)
(* its enable, no wake-up is lost and no wait returns by an old flag.      *)
THEOREM InterruptSafe ==
  Spec => [](I!TypeOK /\ I!IrqBalance /\ I!NoLostWakeup /\ I!NoStaleReturn)
<1> USE DriverAssumption
<1>1. IP!ThreadsAssumption
  BY DEF IP!ThreadsAssumption
<1>2. IP!TypeOK => I!TypeOK
  BY DEF IP!TypeOK, I!TypeOK, IP!Queues, I!Queues, IP!Stages, I!Stages,
         IP!Threads, I!Threads, IP!WaitStates, I!WaitStates
<1>3. IP!IrqBalance => I!IrqBalance
  BY DEF IP!IrqBalance, I!IrqBalance, IP!Active, I!Active, IP!Queues, I!Queues
<1>4. IP!NoLostWakeup => I!NoLostWakeup
  BY DEF IP!NoLostWakeup, I!NoLostWakeup, IP!Threads, I!Threads, IP!QueueOf,
         I!QueueOf
<1>5. IP!NoStaleReturn => I!NoStaleReturn
  BY DEF IP!NoStaleReturn, I!NoStaleReturn, IP!Threads, I!Threads,
         IP!QueueOf, I!QueueOf
<1> QED
  BY <1>1, <1>2, <1>3, <1>4, <1>5, InterruptSteps,
     IP!TypeSteps, IP!IrqSteps, IP!WakeupSteps, IP!ReturnSteps, PTL

(* In the driver, too, dev_lock is held only for transfers, answers are    *)
(* routed to the command that waits alone, listeners are deaf only after a *)
(* large message, and commands send the frames and make the attempts that  *)
(* they should.                                                            *)
THEOREM ProtocolSafe ==
  Spec => [](/\ S!TypeOK
             /\ S!LockHolderTransfers
             /\ S!ReplyRouted
             /\ S!DeafOnlyAfterUpgrade
             /\ S!AttemptBudget
             /\ S!AcknowledgedOnce
             /\ S!UpgradeComplete
             /\ S!FragmentsInOrder)
<1> USE DriverAssumption
<1>1. SP!SendersAssumption /\ SP!LengthAssumption
  BY DEF SP!SendersAssumption, SP!LengthAssumption
<1>2. SP!TypeOK => S!TypeOK
  BY DEF S!TypeOK, SP!TypeOK, S!PCs, SP!PCs, S!Commands, SP!Commands,
     S!Lengths, SP!Lengths, S!MaxRetry, SP!MaxRetry, S!Frames, SP!Frames
<1>3. SP!LockHolderTransfers => S!LockHolderTransfers
  BY DEF S!LockHolderTransfers, SP!LockHolderTransfers
<1>4. SP!ReplyRouted => S!ReplyRouted
  BY DEF S!ReplyRouted, SP!ReplyRouted
<1>5. SP!DeafOnlyAfterUpgrade => S!DeafOnlyAfterUpgrade
  BY DEF S!DeafOnlyAfterUpgrade, SP!DeafOnlyAfterUpgrade, S!InFlight,
     SP!InFlight
<1>6. ASSUME NEW s \in Senders
      PROVE  /\ S!IsRead(s) <=> SP!IsRead(s)
             /\ S!IsLarge(s) <=> SP!IsLarge(s)
  BY DEF S!IsRead, SP!IsRead, S!IsLarge, SP!IsLarge, S!IsSmall, SP!IsSmall
<1>7. SP!AttemptBudget => S!AttemptBudget
  BY <1>6 DEF S!AttemptBudget, SP!AttemptBudget, S!MaxRetry, SP!MaxRetry
<1>8. SP!AcknowledgedOnce => S!AcknowledgedOnce
  BY <1>6 DEF S!AcknowledgedOnce, SP!AcknowledgedOnce
<1>9. SP!UpgradeComplete => S!UpgradeComplete
  BY <1>6 DEF S!UpgradeComplete, SP!UpgradeComplete, S!Assembles, SP!Assembles
<1>10. SP!FragmentsInOrder => S!FragmentsInOrder
  BY <1>6
  DEF S!FragmentsInOrder, SP!FragmentsInOrder, S!FragmentAt, SP!FragmentAt,
      S!FragmentLen, SP!FragmentLen, S!FragmentCount, SP!FragmentCount
<1> QED
  BY <1>1, <1>2, <1>3, <1>4, <1>5, <1>7, <1>8, <1>9, <1>10, ProtocolSteps,
     SP!TypeSteps, SP!LockSteps, SP!RouteSteps, SP!DeafnessSteps,
     SP!AttemptSteps, SP!ReadSteps, SP!UpgradeSteps, SP!PieceSteps, PTL

(* What a caller of the driver sees of its commands, with the interrupts   *)
(* as they are.                                                            *)
THEOREM CommandImplemented == Spec => S!ImplementsCommand
<1> USE DriverAssumption
<1>1. SP!SendersAssumption /\ SP!LengthAssumption
  BY DEF SP!SendersAssumption, SP!LengthAssumption
<1> USE DEF S!PhaseOf, SP!PhaseOf, S!KindOf, SP!KindOf, S!RoundsOf,
            SP!RoundsOf, S!IsLarge, SP!IsLarge, S!IsRead, SP!IsRead,
            S!IsSmall, SP!IsSmall,
            S!Commands, SP!Commands, S!Lengths, SP!Lengths,
            S!MaxRetry, SP!MaxRetry, S!FragmentCount, SP!FragmentCount
<1>2. SP!C!Init => S!C!Init
  BY Zenon DEF SP!C!Init, S!C!Init
<1>3. SP!C!Next => S!C!Next
  BY Zenon DEF SP!C!Next, S!C!Next, SP!C!Call, S!C!Call, SP!C!Round,
     S!C!Round, SP!C!Return, S!C!Return
<1>4. UNCHANGED SP!C!vars => UNCHANGED S!C!vars
  BY Zenon DEF SP!C!vars, S!C!vars
<1>5. [SP!C!Next]_(SP!C!vars) => [S!C!Next]_(S!C!vars)
  BY <1>3, <1>4, Zenon
<1> QED
  BY <1>1, <1>2, <1>5, ProtocolSteps, SP!CommandSteps, PTL
  DEF SP!ImplementsCommand, S!ImplementsCommand, SP!C!Spec, S!C!Spec

-----------------------------------------------------------------------------
(* The answer a command reads.                                             *)

(* A command that SuccessIsFresh speaks of: nothing unusual has come       *)
(* between.                                                                *)
Clean(s) == ~S!IsRead(s) /\ ~disturbed[s] /\ ~overlap[s] /\ ~lost[s]

(* An interrupt is on its way that has not yet set flag_irq_timeout.       *)
Pending == edge \/ "reply" \in scheduled

(* The chip is busy with the newest frame of s, and the interrupt that will*)
(* say so is yet to come ...                                               *)
Working(s) ==
  /\ work = [busy |-> TRUE, from |-> s, no |-> Len(sent[s])]
  /\ ~Pending
  /\ wait[s] # "out" => flag["reply"] = 0

(* ... or the chip has answered it, with one interrupt that the wait of s  *)
(* may have missed but that nothing else is taken for.                     *)
Answered(s) ==
  /\ ~work.busy
  /\ reply.from = s
  /\ reply.no = Len(sent[s])
  /\ ~(edge /\ "reply" \in scheduled)
  /\ wait[s] # "out" /\ flag["reply"] = 1 => ~Pending

RoundOf(s) ==
  /\ pc[s] \in {"write", "wait", "read"} => is_eint_timeout = 1
  /\ pc[s] \in {"write", "read"} => ~work.busy /\ ~Pending
  /\ pc[s] = "wait" => Working(s) \/ Answered(s)
  /\ pc[s] = "read" => Answered(s)
  /\ rx[s].ok => rx[s].fresh

(* A command without overlap is the only one in flight.                    *)
Solo ==
  \A s, t \in Senders : S!InFlight(s) /\ ~overlap[s] /\ S!InFlight(t) => t = s

(* A sender waits where esp_spi_send waits, and has read nothing without a *)
(* command.                                                                *)
Waits ==
  \A s \in Senders : /\ wait[s] # "out" => pc[s] = "wait"
                     /\ pc[s] = "idle" => ~rx[s].ok

FreshInv == Solo /\ Waits /\ \A s \in Senders : Clean(s) => RoundOf(s)

-----------------------------------------------------------------------------
DisturbedOK == disturbed \in [Senders -> BOOLEAN]

LEMMA DisturbedType == DisturbedOK /\ [Next]_vars => DisturbedOK'
<1> SUFFICES ASSUME DisturbedOK, [Next]_vars PROVE DisturbedOK'
  OBVIOUS
<1> USE DEF DisturbedOK
<1>1. ASSUME NEW s \in Senders, NEW x \in BOOLEAN,
             disturbed' = [disturbed EXCEPT ![s] = x]
      PROVE  DisturbedOK'
  BY <1>1
<1>2. /\ Unsettled \in BOOLEAN
      /\ \A s \in Senders : (disturbed[s] \/ Unsettled) \in BOOLEAN
  BY DEF Unsettled, I!Active
<1>3. ASSUME NEW s \in Senders, NEW c \in S!Commands, Begin(s, c)
      PROVE  DisturbedOK'
  BY <1>1, <1>2, <1>3 DEF Begin
<1>4. ASSUME NEW s \in Senders, GiveUp(s) PROVE DisturbedOK'
  BY <1>1, <1>2, <1>4 DEF GiveUp
<1>5. ASSUME NEW who, Disturb(who) PROVE DisturbedOK'
  BY <1>5, Zenon DEF Disturb
<1>6. CASE UNCHANGED disturbed
  BY <1>6
<1> QED
  BY <1>3, <1>4, <1>5, <1>6
  DEF Next, SendStep, WaitBegin, WaitSleep, WaitReturn, WaitTimeout,
      WaitSignal,
      ListenOrSignal, ListenOn, Irq, Answer, Notify, vars

(* The variables of the driver keep their types, with what the two         *)
(* components do to the one they share.                                    *)
THEOREM TypeCorrect == Spec => []TypeOK
<1>1. Init => DisturbedOK
  BY Zenon DEF Init, DisturbedOK
<1> QED
  BY <1>1, DisturbedType, InterruptSafe, ProtocolSafe, PTL DEF Spec, TypeOK,
     DisturbedOK

LEMMA NextSolo == TypeOK /\ Solo /\ [Next]_vars => Solo'
<1> SUFFICES ASSUME TypeOK, Solo, [Next]_vars PROVE Solo'
  OBVIOUS
<1> USE DEF Solo, TypeOK, S!TypeOK, S!InFlight, S!Goto
<1>1. ASSUME NEW s \in Senders, NEW c \in S!Commands, Begin(s, c) PROVE Solo'
  BY <1>1 DEF Begin, S!Begin
<1>2. ASSUME NEW s \in Senders, pc[s] # "idle",
             \A t \in Senders \ {s} : pc'[t] = pc[t],
             overlap' = overlap
      PROVE  Solo'
  BY <1>2
<1>3. ASSUME NEW s \in Senders, SendStep(s) PROVE Solo'
  <2>1. CASE S!Return(s)
    BY <2>1 DEF S!Return
  <2>2. CASE ~S!Return(s)
    BY <1>2, <1>3, <2>2
    DEF SendStep, S!Lock, S!Write, S!Read, S!Ack, S!SyncNoMemory, S!ResetMode,
        S!Judge, S!historyVars
  <2> QED
    BY <2>1, <2>2
<1>4. ASSUME NEW s \in Senders, S!WaitOver(s) PROVE Solo'
  BY <1>2, <1>4 DEF S!WaitOver, S!historyVars
<1>5. CASE UNCHANGED <<pc, overlap>>
  BY <1>5
<1> QED
  BY <1>1, <1>3, <1>4, <1>5
  DEF Next, WaitBegin, WaitSleep, WaitReturn, WaitTimeout, WaitSignal, GiveUp,
      ListenOrSignal, ListenOn, Irq, Answer, S!Answer, Notify, vars, sendVars,
      S!driverVars, S!historyVars

LEMMA NextWaits == TypeOK /\ Waits /\ [Next]_vars => Waits'
<1> SUFFICES ASSUME TypeOK, Waits, [Next]_vars PROVE Waits'
  OBVIOUS
<1> USE DEF Waits, TypeOK, S!TypeOK, I!TypeOK, S!Goto, irqVars
<1>1. ASSUME NEW s \in Senders, NEW c \in S!Commands, Begin(s, c) PROVE Waits'
  BY <1>1 DEF Begin, S!Begin
<1>2. ASSUME NEW s \in Senders, SendStep(s) PROVE Waits'
  BY <1>2 DEF SendStep, S!Lock, S!Write, S!Read, S!Ack, S!SyncNoMemory,
     S!ResetMode,
        S!Return, S!Judge, S!LoopEnd, S!LoopStart, S!NothingRead
<1>3. ASSUME NEW s \in Senders, WaitBegin(s) \/ WaitSleep(s) PROVE Waits'
  BY <1>3 DEF WaitBegin, WaitSleep, I!WaitBegin, I!WaitSleep, sendVars,
     I!Threads
<1>4. ASSUME NEW s \in Senders, WaitReturn(s) \/ WaitTimeout(s) \/ WaitSignal(s)
      PROVE  Waits'
  BY <1>4 DEF WaitReturn, WaitTimeout, WaitSignal, I!WaitReturn, I!WaitTimeout,
        I!WaitSignal, I!LeaveAsleep, GiveUp, S!WaitOver, I!Threads
<1>5. ASSUME NEW l \in Listeners, ListenOrSignal(l) \/ ListenOn(l) PROVE Waits'
  BY <1>5, DriverAssumption DEF ListenOrSignal, ListenOn, I!WaitBegin,
     I!WaitSleep, I!WaitReturn,
        I!WaitSignal, I!LeaveAsleep, sendVars, I!Threads
<1>6. CASE Irq
  BY <1>6 DEF Irq, I!request_interrupt, I!TaskletFlag, I!TaskletWake, I!Woken,
        I!TaskletEnable, sendVars, I!Threads
<1>7. CASE UNCHANGED <<pc, wait, rx>>
  BY <1>7
<1> QED
  BY <1>1, <1>2, <1>3, <1>4, <1>5, <1>6, <1>7
  DEF Next, Answer, S!Answer, Notify, I!Edge, vars, sendVars, S!driverVars

-----------------------------------------------------------------------------
(* What s does makes no difference to a clean command of another thread:   *)
(* there is none in flight.                                                *)
LEMMA OthersRound ==
  ASSUME TypeOK, FreshInv, Waits',
         NEW s \in Senders, NEW t \in Senders \ {s},
         \/ S!InFlight(s) /\ overlap'[t] = overlap[t]
         \/ S!InFlight(t) => overlap'[t],
         pc'[t] = pc[t], rx'[t] = rx[t], Clean(t)'
  PROVE  RoundOf(t)'
<1>1. CASE pc[t] = "idle"
  BY <1>1 DEF RoundOf, Waits
<1>2. CASE pc[t] # "idle"
  BY <1>2 DEF FreshInv, Solo, S!InFlight, Clean
<1> QED
  BY <1>1, <1>2

LEMMA BeginRound ==
  ASSUME TypeOK, FreshInv, Waits', NEW s \in Senders, NEW c \in S!Commands,
         Begin(s, c), Clean(s)'
  PROVE  RoundOf(s)'
<1> USE DEF TypeOK, S!TypeOK, DisturbedOK
<1>1. c.op # "DATA_READ"
  BY DEF Begin, S!Begin, Clean, S!IsRead
<1>2. pc'[s] = "write" /\ is_eint_timeout' = 1 /\ rx' = rx /\ work' = work
  BY <1>1 DEF Begin, S!Begin, S!Goto, S!LoopStart
<1>3. ~Unsettled
  BY DEF Begin, Clean
<1>4. ~Pending' /\ ~work.busy
  BY <1>3 DEF Unsettled, Pending, I!Active, Begin, irqVars
<1>5. ~rx[s].ok
  BY DEF FreshInv, Waits, Begin, S!Begin
<1> QED
  BY <1>2, <1>4, <1>5 DEF RoundOf

LEMMA JudgeRound ==
  ASSUME TypeOK, NEW s \in Senders, pc[s] = "read", Clean(s), RoundOf(s),
         NEW r \in {reply, S!NoReply}, S!Judge(s, r),
         UNCHANGED <<work, edge, scheduled>>
  PROVE  RoundOf(s)'
<1> USE DEF TypeOK, S!TypeOK
<1>1. pc'[s] \in {"write", "reset", "copy"}
  BY DEF S!Judge, S!Goto, S!LoopEnd, S!LoopStart, Clean, S!IsRead
<1>2. rx'[s].ok = r.ok /\ rx'[s].fresh = (r.from = s /\ r.no = Len(sent[s]))
  BY DEF S!Judge
<1>3. r.ok => r = reply
  BY DEF S!NoReply
<1>4. rx'[s].ok => rx'[s].fresh
  BY <1>2, <1>3 DEF RoundOf, Answered
<1>5. is_eint_timeout' = 1 /\ ~work.busy /\ ~Pending'
  BY DEF RoundOf, S!Judge, Pending
<1> QED
  BY <1>1, <1>4, <1>5 DEF RoundOf

LEMMA SendStepRound ==
  ASSUME TypeOK, FreshInv, Waits', NEW s \in Senders, SendStep(s), Clean(s)'
  PROVE  RoundOf(s)'
<1> USE DEF TypeOK, S!TypeOK, S!Goto, S!chipVars, S!historyVars, irqVars
<1>1. CASE S!Return(s)
  BY <1>1 DEF RoundOf, Waits, S!Return
<1>2. CASE ~S!Return(s)
  <2>1. Clean(s) /\ cmd' = cmd
    BY <1>2 DEF SendStep, Clean, S!Lock, S!Write, S!Read, S!Ack,
       S!SyncNoMemory,
                S!ResetMode, S!Judge, S!IsRead
  <2>2. RoundOf(s)
    BY <2>1 DEF FreshInv
  <2>3. CASE S!Lock(s)
    BY <2>2, <2>3 DEF SendStep, S!Lock, RoundOf, Working, Answered, Pending
  <2>4. CASE S!Write(s)
    <3>1. wait[s] = "out" /\ ~Pending /\ is_eint_timeout = 1
      BY <2>2, <2>4 DEF S!Write, FreshInv, Waits, RoundOf
    <3>2. /\ pc'[s] = "wait" /\ is_eint_timeout' = 1 /\ rx' = rx
          /\ work' = [busy |-> TRUE, from |-> s, no |-> Len(sent'[s])]
          /\ wait'[s] = "out" /\ ~Pending'
      BY <2>4, <3>1 DEF SendStep, S!Write, Pending
    <3> QED
      BY <2>2, <3>2 DEF RoundOf, Working
  <2>5. CASE S!Read(s)
    BY <2>1, <2>2, <2>5, JudgeRound DEF SendStep, S!Read
  <2>6. CASE S!SyncNoMemory(s)
    BY <2>1, <2>2, <2>6, JudgeRound DEF SendStep, S!SyncNoMemory, Clean
  <2>7. CASE S!Ack(s) \/ S!ResetMode(s)
    BY <2>2, <2>7 DEF S!Ack, S!ResetMode, RoundOf
  <2> QED
    BY <1>2, <2>3, <2>4, <2>5, <2>6, <2>7 DEF SendStep
<1> QED
  BY <1>1, <1>2

LEMMA WaitRound ==
  ASSUME TypeOK, FreshInv, NEW s \in Senders, Clean(s)',
         \/ WaitBegin(s) \/ WaitSleep(s) \/ WaitReturn(s)
         \/ WaitTimeout(s) \/ WaitSignal(s)
  PROVE  RoundOf(s)'
<1> USE DEF TypeOK, S!TypeOK, I!TypeOK, I!Threads, I!Queues, S!Goto,
            S!chipVars,
            S!historyVars, sendVars, I!QueueOf
<1>1. Clean(s)
  BY DEF Clean, WaitBegin, WaitSleep, WaitReturn, WaitTimeout, WaitSignal,
         GiveUp, S!WaitOver, S!IsRead, DisturbedOK
<1>2. pc[s] = "wait"
  BY DEF WaitBegin, WaitSleep, WaitReturn, WaitTimeout, WaitSignal, GiveUp,
         S!WaitOver, I!WaitSleep, FreshInv, Waits
<1>3. /\ is_eint_timeout = 1
      /\ Working(s) \/ Answered(s)
      /\ rx[s].ok => rx[s].fresh
  BY <1>1, <1>2 DEF FreshInv, RoundOf
<1>4. CASE WaitBegin(s)
  BY <1>2, <1>3, <1>4 DEF WaitBegin, I!WaitBegin, RoundOf, Working, Answered,
     Pending
<1>5. CASE WaitSleep(s)
  BY <1>2, <1>3, <1>5 DEF WaitSleep, I!WaitSleep, RoundOf, Working, Answered,
     Pending
<1>6. CASE WaitReturn(s)
  <2>1. wait[s] # "out" /\ flag["reply"] = 1
    BY <1>6 DEF WaitReturn, I!WaitReturn
  <2>2. Answered(s) /\ ~Pending
    BY <1>3, <2>1 DEF Working, Answered
  <2> QED
    BY <1>3, <1>6, <2>2
    DEF WaitReturn, I!WaitReturn, S!WaitOver, RoundOf, Answered, Pending
<1>7. CASE WaitTimeout(s) \/ WaitSignal(s)
  <2>1. ~Unsettled
    BY <1>7 DEF WaitTimeout, WaitSignal, GiveUp, Clean, DisturbedOK
  <2>2. Answered(s) /\ ~Pending
    BY <1>3, <2>1 DEF Unsettled, I!Active, Working, Pending
  <2> QED
    BY <1>3, <1>7, <2>2
    DEF WaitTimeout, WaitSignal, GiveUp, I!WaitTimeout, I!WaitSignal,
        I!LeaveAsleep,
        S!WaitOver, RoundOf, Answered, Pending
<1> QED
  BY <1>4, <1>5, <1>6, <1>7

LEMMA IrqRound ==
  ASSUME TypeOK, FreshInv, NEW s \in Senders, Clean(s)', Irq
  PROVE  RoundOf(s)'
<1> USE DEF TypeOK, S!TypeOK, I!TypeOK, I!Threads, I!Queues, sendVars
<1>1. Clean(s) /\ UNCHANGED <<is_eint_timeout, sendVars>>
  BY DEF Irq, Clean, S!IsRead, I!request_interrupt, I!TaskletFlag,
         I!TaskletWake,
         I!TaskletEnable
<1>2. RoundOf(s)
  BY <1>1 DEF FreshInv
<1>3. CASE I!request_interrupt
  <2>1. /\ edge /\ ~edge' /\ scheduled' = scheduled \cup {I!Target}
        /\ UNCHANGED <<flag, wait>>
    BY <1>3 DEF I!request_interrupt
  <2>2. pc[s] \notin {"write", "read"}
    BY <1>2, <2>1 DEF RoundOf, Pending
  <2>3. pc[s] = "wait" => Answered(s)'
    BY <1>1, <1>2, <2>1 DEF RoundOf, Working, Answered, Pending
  <2> QED
    BY <1>1, <1>2, <2>2, <2>3 DEF RoundOf
<1>4. CASE I!TaskletFlag("reply")
  <2>1. /\ "reply" \in scheduled
        /\ scheduled' = scheduled \ {"reply"} /\ UNCHANGED <<edge, wait>>
    BY <1>4 DEF I!TaskletFlag
  <2>2. pc[s] \notin {"write", "read"}
    BY <1>2, <2>1 DEF RoundOf, Pending
  <2>3. pc[s] = "wait" => Answered(s)'
    BY <1>1, <1>2, <2>1 DEF RoundOf, Working, Answered, Pending
  <2> QED
    BY <1>1, <1>2, <2>2, <2>3 DEF RoundOf
<1>5. CASE \/ I!TaskletFlag("event")
           \/ \E q \in I!Queues : I!TaskletWake(q) \/ I!TaskletEnable(q)
  <2>1. /\ edge' = edge
        /\ "reply" \in scheduled' <=> "reply" \in scheduled
        /\ flag'["reply"] = flag["reply"]
        /\ wait'[s] = "out" <=> wait[s] = "out"
    BY <1>5 DEF I!TaskletFlag, I!TaskletWake, I!TaskletEnable, I!Woken
  <2>2. Pending' = Pending
    BY <2>1 DEF Pending
  <2>3. (Working(s) => Working(s)') /\ (Answered(s) => Answered(s)')
    BY <1>1, <2>1, <2>2 DEF Working, Answered
  <2> QED
    BY <1>1, <1>2, <2>2, <2>3 DEF RoundOf
<1> QED
  BY <1>3, <1>4, <1>5 DEF Irq

(* A listener has its own flag, and so has nothing to do with any command. *)
LEMMA ListenerRound ==
  ASSUME TypeOK, FreshInv, NEW s \in Senders, Clean(s)', NEW l \in Listeners,
         ListenOrSignal(l) \/ ListenOn(l)
  PROVE  RoundOf(s)'
<1> USE DEF TypeOK, I!TypeOK, I!Threads, I!Queues, sendVars
<1>1. l # s /\ I!QueueOf(l) = "event"
  BY DriverAssumption DEF I!QueueOf
<1>2. Clean(s) /\ UNCHANGED <<is_eint_timeout, sendVars, edge, scheduled>>
  BY DEF ListenOrSignal, ListenOn, Clean, S!IsRead, I!WaitBegin, I!WaitSignal,
         I!WaitReturn, I!WaitSleep, I!LeaveAsleep
<1>3. flag'["reply"] = flag["reply"] /\ wait'[s] = wait[s]
  BY <1>1 DEF ListenOrSignal, ListenOn, I!WaitBegin, I!WaitSignal,
     I!WaitReturn,
              I!WaitSleep, I!LeaveAsleep
<1> QED
  BY <1>2, <1>3 DEF FreshInv, RoundOf, Working, Answered, Pending

LEMMA AnswerRound ==
  ASSUME TypeOK, FreshInv, NEW s \in Senders, Clean(s)', NEW ok \in BOOLEAN,
         Answer(ok)
  PROVE  RoundOf(s)'
<1> USE DEF TypeOK, S!TypeOK, S!driverVars, S!historyVars
<1>1. /\ UNCHANGED <<is_eint_timeout, pc, cmd, rx, sent, overlap, lost>>
      /\ UNCHANGED <<scheduled, flag, wait>>
      /\ work.busy /\ work' = S!NoWork /\ edge'
      /\ reply' = [ok |-> ok, from |-> work.from, no |-> work.no]
  BY DEF Answer, S!Answer, I!Edge
<1>2. Clean(s) /\ work.from = s
  BY <1>1 DEF Clean, S!IsRead, Answer, Disturb, DisturbedOK
<1>3. RoundOf(s)
  BY <1>2 DEF FreshInv
<1>4. pc[s] \notin {"write", "read"}
  BY <1>1, <1>3 DEF RoundOf
<1>5. pc[s] = "wait" => Working(s)
  BY <1>1, <1>3 DEF RoundOf, Answered
<1>6. pc[s] = "wait" => Answered(s)'
  BY <1>1, <1>5 DEF Working, Answered, Pending, S!NoWork
<1> QED
  BY <1>1, <1>3, <1>4, <1>6 DEF RoundOf

LEMMA InitFresh == Init => FreshInv
  BY DEF Init, S!Init, I!Init, FreshInv, Solo, Waits, RoundOf, S!InFlight,
         S!NothingRead, I!Threads

LEMMA NextFresh == TypeOK /\ FreshInv /\ [Next]_vars => FreshInv'
<1> SUFFICES ASSUME TypeOK, FreshInv, [Next]_vars PROVE FreshInv'
  OBVIOUS
<1>1. Solo' /\ Waits'
  BY NextSolo, NextWaits DEF FreshInv
<1> SUFFICES ASSUME NEW t \in Senders, Clean(t)' PROVE RoundOf(t)'
  BY <1>1 DEF FreshInv
<1>2. ASSUME NEW s \in Senders, NEW c \in S!Commands, Begin(s, c)
      PROVE  RoundOf(t)'
  <2>1. CASE s = t
    BY <1>1, <1>2, <2>1, BeginRound
  <2>2. CASE s # t
    BY <1>1, <1>2, <2>2, OthersRound
    DEF Begin, S!Begin, S!Goto, TypeOK, S!TypeOK
  <2> QED
    BY <2>1, <2>2
<1>3. ASSUME NEW s \in Senders, SendStep(s) PROVE RoundOf(t)'
  <2>1. CASE s = t
    BY <1>1, <1>3, <2>1, SendStepRound
  <2>2. CASE s # t
    <3>1. S!InFlight(s)
      BY <1>3 DEF SendStep, S!InFlight, S!Lock, S!Write, S!Read, S!Ack,
                  S!SyncNoMemory, S!ResetMode, S!Return
    <3>2. overlap'[t] = overlap[t] /\ pc'[t] = pc[t] /\ rx'[t] = rx[t]
      BY <1>3, <2>2 DEF SendStep, S!Lock, S!Write, S!Read, S!Ack,
         S!SyncNoMemory,
                  S!ResetMode, S!Return, S!Judge, S!Goto, S!historyVars,
                  TypeOK, S!TypeOK
    <3> QED
      BY <1>1, <2>2, <3>1, <3>2, OthersRound
  <2> QED
    BY <2>1, <2>2
<1>4. ASSUME NEW s \in Senders,
             \/ WaitBegin(s) \/ WaitSleep(s) \/ WaitReturn(s)
             \/ WaitTimeout(s) \/ WaitSignal(s)
      PROVE  RoundOf(t)'
  <2>1. CASE s = t
    BY <1>4, <2>1, WaitRound
  <2>2. CASE s # t
    <3>1. S!InFlight(s)
      BY <1>4 DEF FreshInv, Waits, S!InFlight, WaitBegin, WaitSleep,
         WaitReturn,
                  WaitTimeout, WaitSignal, GiveUp, S!WaitOver, I!WaitSleep
    <3>2. overlap'[t] = overlap[t] /\ pc'[t] = pc[t] /\ rx'[t] = rx[t]
      BY <1>4, <2>2 DEF WaitBegin, WaitSleep, WaitReturn, WaitTimeout,
         WaitSignal,
                  GiveUp, S!WaitOver, S!Goto, S!historyVars, sendVars,
                  TypeOK, S!TypeOK
    <3> QED
      BY <1>1, <2>2, <3>1, <3>2, OthersRound
  <2> QED
    BY <2>1, <2>2
<1>5. ASSUME NEW l \in Listeners, ListenOrSignal(l) \/ ListenOn(l)
      PROVE  RoundOf(t)'
  BY <1>5, ListenerRound
<1>6. CASE Irq
  BY <1>6, IrqRound
<1>7. ASSUME NEW ok \in BOOLEAN, Answer(ok) PROVE RoundOf(t)'
  BY <1>7, AnswerRound
<1>8. ~Notify
  BY DEF Notify, Disturb, Clean
<1>9. CASE UNCHANGED vars
  BY <1>9 DEF vars, irqVars, sendVars, FreshInv, Clean, S!IsRead, RoundOf,
     Working,
              Answered, Pending
<1> QED
  BY <1>2, <1>3, <1>4, <1>5, <1>6, <1>7, <1>8, <1>9 DEF Next

(* The driver never compares an answer with its command, and still a       *)
(* SUCCESS that a command reads is the answer to the frame it has just     *)
(* sent, if no other command, data interrupt, late answer or failed        *)
(* allocation came between: for any number of threads, and any frames.     *)
THEOREM AnswersFresh == Spec => []SuccessIsFresh
<1>1. FreshInv => SuccessIsFresh
  BY DEF FreshInv, Clean, RoundOf, SuccessIsFresh
<1> QED
  BY <1>1, InitFresh, NextFresh, TypeCorrect, PTL DEF Spec
=============================================================================
