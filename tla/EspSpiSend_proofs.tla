------------------------- MODULE EspSpiSend_proofs -------------------------
(***************************************************************************)
(* Proofs about EspSpiSend, for any number of senders, any frame size and  *)
(* any message.                                                            *)
(***************************************************************************)
EXTENDS EspSpiSend, TLAPS

-----------------------------------------------------------------------------
(* EspFragment: what the frames of a message are, for every length of      *)
(* message and frame.                                                      *)

(* Division by the size of a frame, as the provers need it.                *)
LEMMA Division ==
  ASSUME NEW len \in Nat
  PROVE  /\ len \div FIFO_LEN \in Nat
         /\ (len \div FIFO_LEN) * FIFO_LEN <= len
         /\ len < (len \div FIFO_LEN) * FIFO_LEN + FIFO_LEN
  BY LengthAssumption

(* A frame never takes more than its FIFO_LEN bytes of room in txdata, and *)
(* never reads past the message.                                           *)
THEOREM FragmentFits ==
  ASSUME NEW len \in Nat, NEW i \in 0 .. FragmentCount(len) - 1
  PROVE  /\ FragmentLen(len, i) \in 0 .. FIFO_LEN
         /\ FragmentAt(i) + FragmentLen(len, i) <= len
<1> DEFINE q == len \div FIFO_LEN
<1>1. /\ q \in Nat /\ q * FIFO_LEN <= len /\ len < q * FIFO_LEN + FIFO_LEN
      /\ i \in 0 .. q
  BY Division DEF FragmentCount
<1>2. CASE i = q
  BY <1>1, <1>2, LengthAssumption DEF FragmentLen, FragmentAt, FragmentCount
<1>3. CASE i < q
  <2>1. i + 1 <= q
    BY <1>1, <1>3
  <2>2. (i + 1) * FIFO_LEN <= q * FIFO_LEN
    BY <2>1, <1>1, LengthAssumption
  <2>3. (i + 1) * FIFO_LEN = i * FIFO_LEN + FIFO_LEN
    BY <1>1, LengthAssumption
  <2>4. FragmentLen(len, i) = FIFO_LEN
    BY <1>1, <1>3 DEF FragmentLen, FragmentCount
  <2> QED
    BY <1>1, <2>2, <2>3, <2>4, LengthAssumption DEF FragmentAt
<1> QED
  BY <1>1, <1>2, <1>3

(* Each frame begins where the one before it ended.                        *)
THEOREM FragmentsContiguous ==
  ASSUME NEW len \in Nat, NEW i \in Nat, i + 1 < FragmentCount(len)
  PROVE  FragmentAt(i + 1) = FragmentAt(i) + FragmentLen(len, i)
<1>1. FragmentLen(len, i) = FIFO_LEN
  BY Division DEF FragmentLen, FragmentCount
<1>2. (i + 1) * FIFO_LEN = i * FIFO_LEN + FIFO_LEN
  BY LengthAssumption
<1> QED
  BY <1>1, <1>2 DEF FragmentAt

(* The last frame ends the message and is never full: a message whose      *)
(* length is a multiple of FIFO_LEN is closed by an empty frame.           *)
THEOREM LastFragment ==
  ASSUME NEW len \in Nat
  PROVE  LET last == FragmentCount(len) - 1
         IN  /\ FragmentAt(last) + FragmentLen(len, last) = len
             /\ FragmentLen(len, last) < FIFO_LEN
             /\ FragmentLen(len, last) = 0 <=> len = FragmentAt(last)
<1> DEFINE q == len \div FIFO_LEN
<1>1. q \in Nat /\ q * FIFO_LEN <= len /\ len < q * FIFO_LEN + FIFO_LEN
  BY Division
<1>2. FragmentCount(len) - 1 = q
  BY <1>1 DEF FragmentCount
<1>3. q * FIFO_LEN \in Nat
  BY <1>1, LengthAssumption
<1> QED
  BY <1>1, <1>2, <1>3, LengthAssumption DEF FragmentLen, FragmentAt

-----------------------------------------------------------------------------
(* Typing.                                                                 *)

(* What may happen, whether or not anything must: all that safety depends  *)
(* on, and all that a driver made of this component has to implement.      *)
Steps == Init /\ [][Next]_vars

(* While a thread still has a round of its loop to do it has an attempt    *)
(* left, so retry never goes below 0.                                      *)
AttemptsLeft ==
  \A s \in Senders : pc[s] \in {"idle", "write", "wait", "read"} => retry[s] >= 1

LEMMA NextFrameType ==
  ASSUME TypeOK, NEW s \in Senders
  PROVE  NextFrame(s) \in Frames
<1>1. cmd[s].len \in Nat /\ frag[s] \in Nat
  BY LengthAssumption DEF TypeOK, Commands, Lengths
<1>2. FragmentAt(frag[s]) \in Nat
  BY <1>1, LengthAssumption DEF FragmentAt
<1>3. FragmentLen(cmd[s].len, frag[s]) \in Nat
  BY <1>1, Division, LengthAssumption DEF FragmentLen, FragmentCount
<1> QED
  BY <1>1, <1>2, <1>3 DEF NextFrame, Frames

LEMMA InitType == Init => TypeOK /\ AttemptsLeft
<1> SUFFICES ASSUME Init PROVE TypeOK /\ AttemptsLeft
  OBVIOUS
<1>1. /\ pc \in [Senders -> PCs]
      /\ retry \in [Senders -> 0 .. MaxRetry]
      /\ frag \in [Senders -> Nat]
      /\ dev_lock \in Senders \cup {NoOne}
      /\ is_eint_timeout \in {0, 1}
      /\ sent \in [Senders -> Seq(Frames)]
  BY DEF Init, PCs, MaxRetry
<1>2. cmd \in [Senders -> Commands]
  BY LengthAssumption DEF Init, NoCommand, Commands, Lengths
<1>3. rx \in [Senders -> [ok : BOOLEAN, fresh : BOOLEAN]]
  BY Zenon DEF Init, NothingRead
<1>4. work \in [busy : BOOLEAN, from : Senders \cup {NoOne}, no : Nat]
  BY DEF Init, NoWork
<1>5. reply \in [ok : BOOLEAN, from : Senders \cup {NoOne}, no : Nat]
  BY DEF Init, NoReply
<1>6. /\ lost \in [Senders -> BOOLEAN]
      /\ overlap \in [Senders -> BOOLEAN]
      /\ upgraded \in BOOLEAN
  BY Zenon DEF Init
<1>7. AttemptsLeft
  BY DEF Init, AttemptsLeft, MaxRetry
<1> QED
  BY <1>1, <1>2, <1>3, <1>4, <1>5, <1>6, <1>7, Zenon DEF TypeOK

LEMMA JudgeType ==
  ASSUME TypeOK, AttemptsLeft, NEW s \in Senders, pc[s] = "read",
         NEW r \in [ok : BOOLEAN, from : Senders \cup {NoOne}, no : Nat],
         Judge(s, r)
  PROVE  /\ pc' \in [Senders -> PCs]
         /\ retry' \in [Senders -> 0 .. MaxRetry]
         /\ frag' \in [Senders -> Nat]
         /\ rx' \in [Senders -> [ok : BOOLEAN, fresh : BOOLEAN]]
         /\ AttemptsLeft'
<1>1. r.ok \in BOOLEAN /\ (r.from = s /\ r.no = Len(sent[s])) \in BOOLEAN
  OBVIOUS
<1>2. rx' \in [Senders -> [ok : BOOLEAN, fresh : BOOLEAN]]
  BY <1>1, Zenon DEF Judge, TypeOK
<1>3. retry[s] \in 1 .. MaxRetry
  BY DEF TypeOK, AttemptsLeft, MaxRetry
<1>4. pc' \in [Senders -> PCs]
  BY DEF Judge, Goto, LoopStart, LoopEnd, PCs, TypeOK
<1>5. retry' \in [Senders -> 0 .. MaxRetry] /\ frag' \in [Senders -> Nat]
  <2>1. CASE IsLarge(s)
    <3>1. retry' = retry /\ frag' = [frag EXCEPT ![s] = @ + 1]
      BY <2>1, Zenon DEF Judge
    <3>2. frag \in [Senders -> Nat] /\ retry \in [Senders -> 0 .. MaxRetry]
      BY DEF TypeOK
    <3>3. frag[s] + 1 \in Nat
      BY <3>2
    <3> QED
      BY <3>1, <3>2, <3>3
  <2>2. CASE ~IsLarge(s)
    <3> DEFINE left == IF r.ok THEN retry[s] ELSE retry[s] - 1
    <3>1. left \in 0 .. MaxRetry
      BY <1>3 DEF MaxRetry
    <3>2. retry' = [retry EXCEPT ![s] = left] /\ frag' = frag
      BY <2>2, Zenon DEF Judge
    <3> HIDE DEF left
    <3> QED
      BY <3>1, <3>2 DEF TypeOK
  <2> QED
    BY <2>1, <2>2
<1>6. pc'[s] \in {"idle", "write", "wait", "read"} => retry'[s] >= 1
  <2>1. CASE IsLarge(s)
    BY <1>3, <2>1 DEF Judge, TypeOK, MaxRetry
  <2>2. CASE ~IsLarge(s)
    <3>1. CASE r.ok \/ retry[s] = 1
      BY <2>2, <3>1 DEF Judge, Goto, LoopDone, LoopEnd, TypeOK
    <3>2. CASE ~r.ok /\ retry[s] # 1
      BY <1>3, <2>2, <3>2 DEF Judge, TypeOK, MaxRetry
    <3> QED
      BY <3>1, <3>2
  <2> QED
    BY <2>1, <2>2
<1>7. \A t \in Senders \ {s} : pc'[t] = pc[t] /\ retry'[t] = retry[t]
  BY DEF Judge, Goto, TypeOK
<1> QED
  BY <1>2, <1>4, <1>5, <1>6, <1>7 DEF AttemptsLeft

LEMMA NextType == TypeOK /\ AttemptsLeft /\ [Next]_vars => TypeOK' /\ AttemptsLeft'
<1> SUFFICES ASSUME TypeOK, AttemptsLeft, [Next]_vars
             PROVE  TypeOK' /\ AttemptsLeft'
  OBVIOUS
<1> USE DEF TypeOK, AttemptsLeft, chipVars, historyVars, Goto
<1>1. ASSUME NEW s \in Senders, NEW c \in Commands, Begin(s, c)
      PROVE  TypeOK' /\ AttemptsLeft'
  <2>1. overlap' \in [Senders -> BOOLEAN] /\ upgraded' \in BOOLEAN
    BY <1>1, Zenon DEF Begin
  <2>2. pc' \in [Senders -> PCs]
    BY <1>1 DEF Begin, LoopStart, PCs
  <2>3. cmd' \in [Senders -> Commands] /\ is_eint_timeout' \in {0, 1}
    BY <1>1 DEF Begin
  <2>4. AttemptsLeft'
    BY <1>1 DEF Begin
  <2> QED
    BY <1>1, <2>1, <2>2, <2>3, <2>4 DEF Begin
<1>2. ASSUME NEW s \in Senders, Lock(s) PROVE TypeOK' /\ AttemptsLeft'
  BY <1>2 DEF Lock
<1>3. ASSUME NEW s \in Senders, Write(s) PROVE TypeOK' /\ AttemptsLeft'
  <2>1. sent' \in [Senders -> Seq(Frames)]
    BY <1>3, NextFrameType DEF Write
  <2>2. Len(sent'[s]) \in Nat
    BY <2>1
  <2>3. work' \in [busy : BOOLEAN, from : Senders \cup {NoOne}, no : Nat]
    BY <1>3, <2>2 DEF Write
  <2> QED
    BY <1>3, <2>1, <2>3 DEF Write, PCs
<1>4. ASSUME NEW s \in Senders, WaitOver(s) PROVE TypeOK' /\ AttemptsLeft'
  BY <1>4 DEF WaitOver, PCs
<1>5. ASSUME NEW s \in Senders, Read(s) PROVE TypeOK' /\ AttemptsLeft'
  BY <1>5, JudgeType DEF Read, Judge
<1>6. ASSUME NEW s \in Senders, Ack(s) PROVE TypeOK' /\ AttemptsLeft'
  <2>1. sent' \in [Senders -> Seq(Frames)]
    BY <1>6, NextFrameType DEF Ack
  <2> QED
    BY <1>6, <2>1 DEF Ack, PCs
<1>7. ASSUME NEW s \in Senders, SyncNoMemory(s) PROVE TypeOK' /\ AttemptsLeft'
  <2>1. CASE pc[s] \in {"write", "ack"}
    <3>1. lost' = [lost EXCEPT ![s] = TRUE]
      BY <1>7, <2>1 DEF SyncNoMemory
    <3>2. lost' \in [Senders -> BOOLEAN]
      BY <3>1, Zenon
    <3> QED
      BY <1>7, <2>1, <3>2 DEF SyncNoMemory, PCs
  <2>2. CASE pc[s] = "read"
    <3>1. NoReply \in [ok : BOOLEAN, from : Senders \cup {NoOne}, no : Nat]
      BY DEF NoReply
    <3>2. Judge(s, NoReply) /\ lost' = lost
      BY <1>7, <2>2 DEF SyncNoMemory
    <3>3. /\ UNCHANGED <<cmd, is_eint_timeout>>
          /\ UNCHANGED <<dev_lock, sent, overlap, upgraded, work, reply>>
      BY <1>7, <3>2 DEF SyncNoMemory, Judge
    <3> QED
      BY <2>2, <3>1, <3>2, <3>3, JudgeType
  <2> QED
    BY <1>7, <2>1, <2>2 DEF SyncNoMemory
<1>8. ASSUME NEW s \in Senders, ResetMode(s) PROVE TypeOK' /\ AttemptsLeft'
  BY <1>8 DEF ResetMode, PCs
<1>9. ASSUME NEW s \in Senders, Return(s) PROVE TypeOK' /\ AttemptsLeft'
  <2>1. rx' \in [Senders -> [ok : BOOLEAN, fresh : BOOLEAN]]
    BY <1>9, Zenon DEF Return, NothingRead
  <2>2. lost' \in [Senders -> BOOLEAN] /\ overlap' \in [Senders -> BOOLEAN]
    BY <1>9, Zenon DEF Return
  <2>3. work' \in [busy : BOOLEAN, from : Senders \cup {NoOne}, no : Nat]
    BY <1>9 DEF Return, Disown
  <2>4. reply' \in [ok : BOOLEAN, from : Senders \cup {NoOne}, no : Nat]
    BY <1>9 DEF Return, Disown
  <2>5. NoCommand \in Commands
    BY DEF NoCommand, Commands
  <2>6. /\ pc' \in [Senders -> PCs]
        /\ cmd' \in [Senders -> Commands]
        /\ retry' \in [Senders -> 0 .. MaxRetry]
        /\ frag' \in [Senders -> Nat]
        /\ sent' \in [Senders -> Seq(Frames)]
    BY <1>9, <2>5 DEF Return, PCs, MaxRetry
  <2>7. AttemptsLeft'
    BY <1>9 DEF Return, MaxRetry
  <2> QED
    BY <1>9, <2>1, <2>2, <2>3, <2>4, <2>6, <2>7 DEF Return
<1>10. ASSUME NEW ok \in BOOLEAN, Answer(ok) PROVE TypeOK' /\ AttemptsLeft'
  BY <1>10 DEF Answer, NoWork, driverVars
<1>11. CASE UNCHANGED vars
  BY <1>11 DEF vars, driverVars
<1> QED
  BY <1>1, <1>2, <1>3, <1>4, <1>5, <1>6, <1>7, <1>8, <1>9, <1>10, <1>11
  DEF Next, Step

LEMMA TypeSteps == Steps => [](TypeOK /\ AttemptsLeft)
  BY InitType, NextType, PTL DEF Steps

(* The variables of the protocol keep their types; in particular retry,    *)
(* which the driver counts down from 3 in two loops, never passes 0.       *)
THEOREM TypeCorrect == Spec => []TypeOK
  BY TypeSteps, PTL DEF Spec, Steps

-----------------------------------------------------------------------------
(* The lock and the mode.                                                  *)

LEMMA LockSteps == Steps => []LockHolderTransfers
<1>1. Init => LockHolderTransfers
  BY DEF Init, LockHolderTransfers
<1>2. TypeOK /\ LockHolderTransfers /\ [Next]_vars => LockHolderTransfers'
  <2> SUFFICES ASSUME TypeOK, LockHolderTransfers, [Next]_vars
               PROVE  LockHolderTransfers'
    OBVIOUS
  <2> USE SendersAssumption DEF LockHolderTransfers, TypeOK, Goto
  <2>1. ASSUME NEW s \in Senders, NEW c \in Commands, Begin(s, c)
        PROVE  LockHolderTransfers'
    BY <2>1 DEF Begin
  <2>2. ASSUME NEW s \in Senders, Lock(s) PROVE LockHolderTransfers'
    BY <2>2 DEF Lock
  <2>3. ASSUME NEW s \in Senders, Write(s) \/ Read(s) \/ Ack(s)
        PROVE  LockHolderTransfers'
    BY <2>3 DEF Write, Read, Ack
  <2>4. ASSUME NEW s \in Senders, WaitOver(s) \/ ResetMode(s) \/ Return(s)
        PROVE  LockHolderTransfers'
    BY <2>4 DEF WaitOver, ResetMode, Return
  <2>5. ASSUME NEW s \in Senders, SyncNoMemory(s) PROVE LockHolderTransfers'
    BY <2>5 DEF SyncNoMemory, Judge
  <2>6. CASE UNCHANGED <<pc, dev_lock>>
    BY <2>6
  <2> QED
    BY <2>1, <2>2, <2>3, <2>4, <2>5, <2>6
    DEF Next, Step, vars, Answer, driverVars
<1> QED
  BY <1>1, <1>2, TypeSteps, PTL DEF Steps

(* Only a transfer takes dev_lock, and the step that ends it gives it back:*)
(* no path through esp_spi_send keeps the other threads out for good.      *)
THEOREM LockReleased == Spec => []LockHolderTransfers
  BY LockSteps, PTL DEF Spec, Steps

(* Commands that overlap know it, and one that does not has the mode to    *)
(* itself until it is over.                                                *)
Alone ==
  \A s \in Senders :
    /\ \A t \in Senders \ {s} : InFlight(s) /\ InFlight(t) => overlap[s]
    /\ pc[s] \in {"write", "wait", "reset"} => ~IsRead(s)
    /\ pc[s] \in {"write", "wait", "read"} /\ ~IsRead(s) /\ ~overlap[s]
         => is_eint_timeout = 1

LEMMA AloneCorrect == Steps => []Alone
<1>1. Init => Alone
  BY DEF Init, Alone, InFlight
<1>2. TypeOK /\ Alone /\ [Next]_vars => Alone'
  <2> SUFFICES ASSUME TypeOK, Alone, [Next]_vars PROVE Alone'
    OBVIOUS
  <2> USE DEF Alone, TypeOK, Goto, InFlight, IsRead, chipVars, historyVars
  <2>1. ASSUME NEW s \in Senders, NEW c \in Commands, Begin(s, c) PROVE Alone'
    BY <2>1 DEF Begin, LoopStart
  <2>2. ASSUME NEW s \in Senders, Lock(s) \/ WaitOver(s) PROVE Alone'
    BY <2>2 DEF Lock, WaitOver
  <2>3. ASSUME NEW s \in Senders, Write(s) \/ Ack(s) PROVE Alone'
    BY <2>3 DEF Write, Ack
  <2>4. ASSUME NEW s \in Senders, NEW r, pc[s] = "read", Judge(s, r),
               UNCHANGED overlap
        PROVE  Alone'
    BY <2>4 DEF Judge, LoopStart, LoopEnd
  <2>5. ASSUME NEW s \in Senders, Read(s) PROVE Alone'
    BY <2>4, <2>5 DEF Read
  <2>6. ASSUME NEW s \in Senders, SyncNoMemory(s) PROVE Alone'
    BY <2>4, <2>6 DEF SyncNoMemory
  <2>7. ASSUME NEW s \in Senders, ResetMode(s) PROVE Alone'
    BY <2>7 DEF ResetMode
  <2>8. ASSUME NEW s \in Senders, Return(s) PROVE Alone'
    BY <2>8 DEF Return
  <2>9. CASE UNCHANGED <<pc, cmd, is_eint_timeout, overlap>>
    BY <2>9
  <2> QED
    BY <2>1, <2>2, <2>3, <2>5, <2>6, <2>7, <2>8, <2>9
    DEF Next, Step, vars, Answer, driverVars
<1> QED
  BY <1>1, <1>2, TypeSteps, PTL DEF Steps

LEMMA RouteSteps == Steps => []ReplyRouted
<1>1. Alone => ReplyRouted
  BY DEF Alone, ReplyRouted
<1> QED
  BY <1>1, AloneCorrect, PTL

(* The answer to a command that had the driver to itself is routed to the  *)
(* queue on which the command waits.                                       *)
THEOREM RepliesRouted == Spec => []ReplyRouted
  BY RouteSteps, PTL DEF Spec, Steps

(* Who keeps is_eint_timeout at 1: the command, if not a large message,    *)
(* that is still to reset it.                                              *)
Resets(s) == pc[s] \in {"write", "wait", "read", "reset"} /\ ~IsRead(s) /\ ~IsLarge(s)

ModeOwed == is_eint_timeout = 1 => upgraded \/ \E s \in Senders : Resets(s)

LEMMA DeafnessSteps == Steps => []DeafOnlyAfterUpgrade
<1>1. Init => ModeOwed
  BY DEF Init, ModeOwed
<1>2. TypeOK /\ ModeOwed /\ [Next]_vars => ModeOwed'
  <2> SUFFICES ASSUME TypeOK, ModeOwed, [Next]_vars PROVE ModeOwed'
    OBVIOUS
  <2> USE DEF Goto, chipVars, historyVars
  <2>1. ASSUME NEW s \in Senders, NEW c \in Commands, Begin(s, c) PROVE ModeOwed'
    <3>1. CASE c.op = "DATA_READ" \/ upgraded'
      BY <2>1, <3>1 DEF Begin, ModeOwed
    <3>2. CASE c.op # "DATA_READ" /\ ~upgraded'
      <4>1. cmd'[s] = c /\ pc'[s] = "write"
        BY <2>1, <3>2 DEF Begin, LoopStart, TypeOK
      <4>2. c.op = "SEND" /\ IsSmall(c.len)
        BY <2>1, <3>2, Zenon DEF Begin, Commands
      <4>3. Resets(s)'
        BY <4>1, <4>2 DEF Resets, IsRead, IsLarge
      <4> QED
        BY <4>3 DEF ModeOwed
    <3> QED
      BY <3>1, <3>2
  <2>2. ASSUME NEW s \in Senders, UNCHANGED <<cmd, upgraded, is_eint_timeout>>,
               pc'[s] \in {"write", "wait", "read", "reset"} \/ ~Resets(s),
               \A t \in Senders \ {s} : pc'[t] = pc[t]
        PROVE  ModeOwed'
    BY <2>2 DEF ModeOwed, Resets, IsRead, IsLarge
  <2>3. ASSUME NEW s \in Senders, Lock(s) \/ WaitOver(s) PROVE ModeOwed'
    BY <2>2, <2>3 DEF Lock, WaitOver, TypeOK, Resets
  <2>4. ASSUME NEW s \in Senders, Write(s) \/ Ack(s) PROVE ModeOwed'
    BY <2>2, <2>4 DEF Write, Ack, TypeOK, Resets
  <2>5. ASSUME NEW s \in Senders, NEW r, pc[s] = "read", Judge(s, r),
               UNCHANGED upgraded
        PROVE  ModeOwed'
    BY <2>2, <2>5 DEF Judge, LoopStart, LoopEnd, TypeOK, Resets, IsRead
  <2>6. ASSUME NEW s \in Senders, Read(s) \/ SyncNoMemory(s) PROVE ModeOwed'
    <3>1. CASE pc[s] = "read"
      BY <2>5, <2>6, <3>1 DEF Read, SyncNoMemory
    <3>2. CASE pc[s] # "read"
      BY <2>2, <2>6, <3>2 DEF Read, SyncNoMemory, TypeOK, Resets
    <3> QED
      BY <3>1, <3>2
  <2>7. ASSUME NEW s \in Senders, ResetMode(s) PROVE ModeOwed'
    BY <2>7 DEF ResetMode, ModeOwed
  <2>8. ASSUME NEW s \in Senders, Return(s) PROVE ModeOwed'
    <3>1. \A t \in Senders \ {s} : pc'[t] = pc[t] /\ cmd'[t] = cmd[t]
      BY <2>8 DEF Return, TypeOK
    <3>2. ~Resets(s)
      BY <2>8 DEF Return, Resets
    <3> QED
      BY <2>8, <3>1, <3>2 DEF Return, ModeOwed, Resets, IsRead, IsLarge
  <2>9. CASE UNCHANGED <<pc, cmd, is_eint_timeout, upgraded>>
    BY <2>9 DEF ModeOwed, Resets, IsRead, IsLarge
  <2> QED
    BY <2>1, <2>3, <2>4, <2>6, <2>7, <2>8, <2>9
    DEF Next, Step, vars, Answer, driverVars
<1>3. ModeOwed => DeafOnlyAfterUpgrade
  BY DEF ModeOwed, DeafOnlyAfterUpgrade, Resets, InFlight
<1> QED
  BY <1>1, <1>2, <1>3, TypeSteps, PTL DEF Steps

(* Between commands the listeners are deaf only if a large message was the *)
(* last command to begin, however commands overlapped before.              *)
THEOREM DeafnessExplained == Spec => []DeafOnlyAfterUpgrade
  BY DeafnessSteps, PTL DEF Spec, Steps

-----------------------------------------------------------------------------
(* How far a command has come.  What a thread has sent is tied to the      *)
(* attempts it has used or to the fragments it has done; this is what makes*)
(* the three properties about finished commands inductive.                 *)

IdleProgress(s) ==
  pc[s] = "idle" =>
    /\ retry[s] = MaxRetry
    /\ frag[s] = 0
    /\ sent[s] = <<>>
    /\ ~lost[s]

ReadProgress(s) ==
  IsRead(s) /\ InFlight(s) =>
    /\ pc[s] \in {"read", "ack", "copy"}
    /\ pc[s] # "read" => rx[s].ok \/ retry[s] = 0
    /\ pc[s] # "copy" => sent[s] = <<>> /\ ~lost[s]
    /\ pc[s] = "copy" => Len(sent[s]) = IF lost[s] THEN 0 ELSE 1

(* Attempts whose frame is already with the chip.                          *)
AttemptsSent(s) ==
  IF pc[s] = "write" THEN MaxRetry - retry[s]
  ELSE IF pc[s] \in {"wait", "read"} \/ rx[s].ok THEN MaxRetry + 1 - retry[s]
  ELSE MaxRetry

SmallProgress(s) ==
  ~IsRead(s) /\ ~IsLarge(s) /\ InFlight(s) =>
    /\ pc[s] \in {"write", "wait", "read", "reset", "copy"}
    /\ ~lost[s] => Len(sent[s]) = AttemptsSent(s)

Fragment(len, k) == [at |-> FragmentAt(k - 1), n |-> FragmentLen(len, k - 1)]

LargeProgress(s) ==
  IsLarge(s) /\ InFlight(s) =>
    /\ pc[s] \in {"write", "wait", "read", "copy"}
    /\ IF pc[s] = "copy" THEN frag[s] = FragmentCount(cmd[s].len)
                         ELSE frag[s] < FragmentCount(cmd[s].len)
    /\ ~lost[s] =>
         /\ Len(sent[s]) = IF pc[s] \in {"wait", "read"} THEN frag[s] + 1
                                                       ELSE frag[s]
         /\ \A k \in 1 .. Len(sent[s]) : sent[s][k] = Fragment(cmd[s].len, k)

ProgressOf(s) ==
  IdleProgress(s) /\ ReadProgress(s) /\ SmallProgress(s) /\ LargeProgress(s)

Progress == \A s \in Senders : ProgressOf(s)

LEMMA InitProgress == Init => Progress
  BY DEF Init, Progress, ProgressOf, IdleProgress, ReadProgress, SmallProgress,
         LargeProgress, InFlight

(* A thread's progress is a matter of its own variables.                   *)
LEMMA ProgressFrame ==
  ASSUME NEW s \in Senders, ProgressOf(s),
         pc'[s] = pc[s], cmd'[s] = cmd[s], retry'[s] = retry[s],
         frag'[s] = frag[s], rx'[s] = rx[s], sent'[s] = sent[s],
         lost'[s] = lost[s]
  PROVE  ProgressOf(s)'
  BY DEF ProgressOf, IdleProgress, ReadProgress, SmallProgress, LargeProgress,
         InFlight, IsRead, IsLarge, AttemptsSent

LEMMA BeginProgress ==
  ASSUME TypeOK, NEW s \in Senders, NEW c \in Commands, ProgressOf(s), Begin(s, c)
  PROVE  ProgressOf(s)'
<1>1. /\ pc[s] = "idle" /\ cmd'[s] = c
      /\ pc'[s] = LoopStart(c.op)
      /\ retry' = retry /\ frag' = frag /\ sent' = sent /\ lost' = lost
  BY DEF Begin, Goto, TypeOK
<1>2. retry[s] = MaxRetry /\ frag[s] = 0 /\ sent[s] = <<>> /\ ~lost[s]
  BY <1>1 DEF ProgressOf, IdleProgress
<1>3. c.len \in Nat /\ c.op \in {"DATA_READ", "SEND"}
  BY LengthAssumption DEF Commands, Lengths
<1>4. 0 < FragmentCount(c.len)
  BY <1>3, Division DEF FragmentCount
<1>5. IdleProgress(s)' /\ ReadProgress(s)'
  BY <1>1, <1>2, <1>3 DEF IdleProgress, ReadProgress, IsRead, LoopStart, InFlight
<1>6. SmallProgress(s)'
  BY <1>1, <1>2, <1>3
  DEF SmallProgress, IsRead, LoopStart, InFlight, AttemptsSent, MaxRetry
<1>7. LargeProgress(s)'
  BY <1>1, <1>2, <1>3, <1>4 DEF LargeProgress, IsLarge, IsRead, LoopStart
<1> QED
  BY <1>5, <1>6, <1>7 DEF ProgressOf

LEMMA WriteProgress ==
  ASSUME TypeOK, NEW s \in Senders, ProgressOf(s), Write(s)
  PROVE  ProgressOf(s)'
<1>1. /\ pc[s] = "write" /\ pc'[s] = "wait"
      /\ sent'[s] = Append(sent[s], NextFrame(s))
      /\ cmd' = cmd /\ retry' = retry /\ frag' = frag /\ lost' = lost
  BY DEF Write, Goto, TypeOK
<1>2. /\ sent[s] \in Seq(Frames) /\ NextFrame(s) \in Frames
      /\ retry[s] \in 0 .. MaxRetry /\ frag[s] \in Nat
  BY NextFrameType DEF TypeOK
<1>3. /\ Len(sent'[s]) = Len(sent[s]) + 1
      /\ sent'[s][Len(sent[s]) + 1] = NextFrame(s)
      /\ \A k \in 1 .. Len(sent[s]) : sent'[s][k] = sent[s][k]
      /\ Len(sent[s]) \in Nat
  BY <1>1, <1>2
<1>4. ~IsRead(s)
  BY <1>1 DEF ProgressOf, ReadProgress, InFlight
<1>5. (IsRead(s)' <=> IsRead(s)) /\ (IsLarge(s)' <=> IsLarge(s))
  BY <1>1 DEF IsRead, IsLarge
<1>6. IdleProgress(s)' /\ ReadProgress(s)'
  BY <1>1, <1>4, <1>5 DEF IdleProgress, ReadProgress
<1>7. SmallProgress(s)'
  BY <1>1, <1>2, <1>3, <1>5
  DEF ProgressOf, SmallProgress, InFlight, AttemptsSent, MaxRetry
<1>8. LargeProgress(s)'
  <2> SUFFICES ASSUME IsLarge(s) PROVE LargeProgress(s)'
    BY <1>5 DEF LargeProgress
  <2>1. LargeProgress(s) /\ InFlight(s)
    BY <1>1 DEF ProgressOf, InFlight
  <2>2. CASE lost[s]
    BY <1>1, <2>1, <2>2 DEF LargeProgress
  <2>3. CASE ~lost[s]
    <3>1. /\ Len(sent[s]) = frag[s]
          /\ \A k \in 1 .. Len(sent[s]) : sent[s][k] = Fragment(cmd[s].len, k)
      BY <1>1, <2>1, <2>3 DEF LargeProgress
    <3>2. NextFrame(s) = Fragment(cmd[s].len, frag[s] + 1)
      BY <1>2 DEF NextFrame, Fragment
    <3>3. \A k \in 1 .. Len(sent'[s]) : sent'[s][k] = Fragment(cmd[s].len, k)
      BY <1>2, <1>3, <3>1, <3>2
    <3> QED
      BY <1>1, <1>3, <2>1, <3>1, <3>3 DEF LargeProgress
  <2> QED
    BY <2>2, <2>3
<1> QED
  BY <1>6, <1>7, <1>8 DEF ProgressOf

LEMMA JudgeProgress ==
  ASSUME TypeOK, AttemptsLeft, NEW s \in Senders, ProgressOf(s), pc[s] = "read",
         NEW r, r.ok \in BOOLEAN, Judge(s, r), sent' = sent, lost' = lost
  PROVE  ProgressOf(s)'
<1>1. /\ cmd' = cmd /\ (rx'[s].ok <=> r.ok)
      /\ pc'[s] = IF LoopDone(s, r.ok) THEN LoopEnd(s) ELSE LoopStart(cmd[s].op)
  BY DEF Judge, Goto, TypeOK
<1>2. retry[s] \in 1 .. 3 /\ frag[s] \in Nat /\ Len(sent[s]) \in Nat
  BY DEF TypeOK, AttemptsLeft, MaxRetry
<1>3. (IsRead(s)' <=> IsRead(s)) /\ (IsLarge(s)' <=> IsLarge(s))
  BY <1>1 DEF IsRead, IsLarge
<1>4. IsLarge(s) => retry' = retry /\ frag'[s] = frag[s] + 1
  BY DEF Judge, TypeOK
<1>5. ~IsLarge(s) => /\ frag' = frag
                     /\ retry'[s] = IF r.ok THEN retry[s] ELSE retry[s] - 1
  BY DEF Judge, TypeOK
<1>6. IdleProgress(s)'
  BY <1>1 DEF IdleProgress, LoopEnd, LoopStart
<1>7. ReadProgress(s)'
  BY <1>1, <1>2, <1>3, <1>5
  DEF ProgressOf, ReadProgress, InFlight, IsRead, IsLarge, LoopDone, LoopEnd, LoopStart
<1>8. SmallProgress(s)'
  BY <1>1, <1>2, <1>3, <1>5
  DEF ProgressOf, SmallProgress, InFlight, AttemptsSent, MaxRetry, IsRead,
      LoopDone, LoopEnd, LoopStart
<1>9. LargeProgress(s)'
  <2> SUFFICES ASSUME IsLarge(s) PROVE LargeProgress(s)'
    BY <1>3 DEF LargeProgress
  <2>1. FragmentCount(cmd[s].len) \in Nat
    <3>1. cmd[s].len \in Nat
      BY LengthAssumption DEF TypeOK, Commands, Lengths
    <3> QED
      BY <3>1, Division DEF FragmentCount
  <2>2. pc'[s] = IF frag[s] + 1 = FragmentCount(cmd[s].len) THEN "copy" ELSE "write"
    BY <1>1 DEF LoopDone, LoopEnd, LoopStart, IsLarge, IsRead
  <2> QED
    BY <1>1, <1>2, <1>4, <2>1, <2>2 DEF ProgressOf, LargeProgress, InFlight
<1> QED
  BY <1>6, <1>7, <1>8, <1>9 DEF ProgressOf

LEMMA AckProgress ==
  ASSUME TypeOK, NEW s \in Senders, ProgressOf(s), Ack(s)
  PROVE  ProgressOf(s)'
<1>1. /\ pc[s] = "ack" /\ pc'[s] = "copy"
      /\ sent'[s] = Append(sent[s], NextFrame(s))
      /\ UNCHANGED <<cmd, retry, frag, rx, lost>>
  BY DEF Ack, Goto, TypeOK
<1>2. IsRead(s) /\ IsRead(s)' /\ ~IsLarge(s)'
  BY <1>1
  DEF ProgressOf, SmallProgress, LargeProgress, IsRead, IsLarge, InFlight
<1>3. sent[s] = <<>> /\ ~lost[s] /\ (rx[s].ok \/ retry[s] = 0)
  BY <1>1, <1>2 DEF ProgressOf, ReadProgress, InFlight
<1>4. Len(sent'[s]) = 1
  BY <1>1, <1>3
<1> QED
  BY <1>1, <1>2, <1>3, <1>4
  DEF ProgressOf, IdleProgress, ReadProgress, SmallProgress, LargeProgress

LEMMA NoMemoryProgress ==
  ASSUME TypeOK, AttemptsLeft, NEW s \in Senders, ProgressOf(s), SyncNoMemory(s)
  PROVE  ProgressOf(s)'
<1>1. CASE pc[s] \in {"write", "ack"}
  <2>1. /\ pc'[s] = IF pc[s] = "write" THEN "wait" ELSE "copy"
        /\ lost' = [lost EXCEPT ![s] = TRUE]
        /\ UNCHANGED <<cmd, retry, frag, rx, sent>>
    BY <1>1 DEF SyncNoMemory, Goto, TypeOK
  <2>2. lost'[s] = TRUE
    BY <2>1 DEF TypeOK
  <2>3. (IsRead(s)' <=> IsRead(s)) /\ (IsLarge(s)' <=> IsLarge(s))
    BY <2>1 DEF IsRead, IsLarge
  <2>4. ReadProgress(s)'
    <3>1. IsRead(s) => pc[s] = "ack"
      BY <1>1 DEF ProgressOf, ReadProgress, InFlight
    <3>2. IsRead(s) => sent[s] = <<>> /\ (rx[s].ok \/ retry[s] = 0)
      BY <1>1, <3>1 DEF ProgressOf, ReadProgress, InFlight
    <3> QED
      BY <2>1, <2>2, <2>3, <3>1, <3>2 DEF ReadProgress
  <2>5. ~IsRead(s) => pc[s] = "write"
    BY <1>1 DEF ProgressOf, SmallProgress, LargeProgress, InFlight
  <2> QED
    BY <1>1, <2>1, <2>2, <2>3, <2>4, <2>5
    DEF ProgressOf, IdleProgress, SmallProgress, LargeProgress, InFlight, IsLarge
<1>2. CASE pc[s] = "read"
  <2>1. Judge(s, NoReply) /\ lost' = lost /\ sent' = sent
    BY <1>2 DEF SyncNoMemory
  <2>2. NoReply.ok \in BOOLEAN
    BY Zenon DEF NoReply
  <2> QED
    BY <1>2, <2>1, <2>2, JudgeProgress
<1> QED
  BY <1>1, <1>2 DEF SyncNoMemory

LEMMA OwnProgress ==
  ASSUME TypeOK, AttemptsLeft, NEW s \in Senders, ProgressOf(s),
         Lock(s) \/ SyncNoMemory(s) \/ Step(s)
  PROVE  ProgressOf(s)'
<1>1. CASE Lock(s)
  BY <1>1, ProgressFrame DEF Lock, historyVars
<1>2. CASE WaitOver(s)
  <2>1. /\ pc[s] = "wait" /\ pc'[s] = "read"
        /\ UNCHANGED <<cmd, retry, frag, rx, sent, lost>>
    BY <1>2 DEF WaitOver, Goto, TypeOK, historyVars
  <2>2. ~IsRead(s)
    BY <2>1 DEF ProgressOf, ReadProgress, InFlight
  <2> QED
    BY <2>1, <2>2
    DEF ProgressOf, IdleProgress, ReadProgress, SmallProgress, LargeProgress,
        InFlight, IsRead, IsLarge, AttemptsSent
<1>3. CASE Read(s)
  <2>1. Judge(s, reply) /\ pc[s] = "read" /\ UNCHANGED <<sent, lost>>
    BY <1>3 DEF Read, historyVars
  <2>2. reply.ok \in BOOLEAN
    BY DEF TypeOK
  <2> QED
    BY <2>1, <2>2, JudgeProgress
<1>4. CASE ResetMode(s)
  <2>1. /\ pc[s] = "reset" /\ pc'[s] = "copy"
        /\ UNCHANGED <<cmd, retry, frag, rx, sent, lost>>
    BY <1>4 DEF ResetMode, Goto, TypeOK, historyVars
  <2>2. ~IsRead(s) /\ ~IsLarge(s)
    BY <2>1 DEF ProgressOf, ReadProgress, LargeProgress, InFlight
  <2> QED
    BY <2>1, <2>2
    DEF ProgressOf, IdleProgress, ReadProgress, SmallProgress, LargeProgress,
        InFlight, IsRead, IsLarge, AttemptsSent
<1>5. CASE Return(s)
  <2>1. /\ pc'[s] = "idle" /\ retry'[s] = MaxRetry /\ frag'[s] = 0
        /\ sent'[s] = <<>> /\ ~lost'[s]
    BY <1>5 DEF Return, Goto, TypeOK
  <2> QED
    BY <2>1
    DEF ProgressOf, IdleProgress, ReadProgress, SmallProgress, LargeProgress,
        InFlight
<1> QED
  BY <1>1, <1>2, <1>3, <1>4, <1>5, WriteProgress, AckProgress, NoMemoryProgress
  DEF Step

(* No step of one thread touches the progress of another.                  *)
LEMMA OthersUntouched ==
  ASSUME TypeOK, NEW s \in Senders, NEW t \in Senders \ {s},
         \/ \E c \in Commands : Begin(s, c)
         \/ Lock(s) \/ SyncNoMemory(s) \/ Step(s)
  PROVE  /\ pc'[t] = pc[t] /\ cmd'[t] = cmd[t] /\ retry'[t] = retry[t]
         /\ frag'[t] = frag[t] /\ rx'[t] = rx[t] /\ sent'[t] = sent[t]
         /\ lost'[t] = lost[t]
<1> USE DEF TypeOK, Goto, historyVars
<1>1. CASE \E c \in Commands : Begin(s, c)
  BY <1>1 DEF Begin
<1>2. CASE Lock(s)
  BY <1>2 DEF Lock
<1>3. ASSUME NEW r, Judge(s, r)
      PROVE  /\ pc'[t] = pc[t] /\ cmd'[t] = cmd[t] /\ retry'[t] = retry[t]
             /\ frag'[t] = frag[t] /\ rx'[t] = rx[t]
  BY <1>3 DEF Judge
<1>4. CASE SyncNoMemory(s)
  BY <1>3, <1>4 DEF SyncNoMemory
<1>5. CASE Read(s)
  BY <1>3, <1>5 DEF Read
<1>6. CASE Write(s) \/ WaitOver(s) \/ Ack(s) \/ ResetMode(s) \/ Return(s)
  BY <1>6 DEF Write, WaitOver, Ack, ResetMode, Return
<1> QED
  BY <1>1, <1>2, <1>4, <1>5, <1>6 DEF Step

LEMMA NextProgress ==
  TypeOK /\ AttemptsLeft /\ Progress /\ [Next]_vars => Progress'
<1> SUFFICES ASSUME TypeOK, AttemptsLeft, Progress, [Next]_vars,
                    NEW t \in Senders
             PROVE  ProgressOf(t)'
  BY DEF Progress
<1>1. ProgressOf(t)
  BY DEF Progress
<1>2. ASSUME NEW s \in Senders,
             \/ \E c \in Commands : Begin(s, c)
             \/ Lock(s) \/ SyncNoMemory(s) \/ Step(s)
      PROVE  ProgressOf(t)'
  <2>1. CASE s = t
    BY <1>1, <1>2, <2>1, BeginProgress, OwnProgress
  <2>2. CASE s # t
    BY <1>1, <1>2, <2>2, OthersUntouched, ProgressFrame
  <2> QED
    BY <2>1, <2>2
<1>3. CASE UNCHANGED <<pc, cmd, retry, frag, rx, sent, lost>>
  BY <1>1, <1>3, ProgressFrame
<1> QED
  BY <1>2, <1>3 DEF Next, vars, Answer, driverVars, historyVars

LEMMA ProgressCorrect == Steps => [](TypeOK /\ Progress)
  BY TypeSteps, InitProgress, NextProgress, PTL DEF Steps

LEMMA ReadSteps == Steps => []AcknowledgedOnce
<1>1. TypeOK /\ Progress => AcknowledgedOnce
  BY DEF Progress, ProgressOf, ReadProgress, AcknowledgedOnce, InFlight
<1> QED
  BY <1>1, ProgressCorrect, PTL

(* A DATA_READ that returns has been acknowledged with one frame, however  *)
(* many reads it took, and gave up reading only after its third attempt.   *)
THEOREM ReadsAcknowledged == Spec => []AcknowledgedOnce
  BY ReadSteps, PTL DEF Spec, Steps

LEMMA AttemptSteps == Steps => []AttemptBudget
<1>1. TypeOK /\ Progress => AttemptBudget
  BY DEF Progress, ProgressOf, SmallProgress, AttemptBudget, AttemptsSent,
         InFlight
<1> QED
  BY <1>1, ProgressCorrect, PTL

(* A small command that returns has been sent exactly as often as retry    *)
(* allows: never again after a SUCCESS, three times without one.           *)
THEOREM AttemptsBudgeted == Spec => []AttemptBudget
  BY AttemptSteps, PTL DEF Spec, Steps

LEMMA FragmentsAssemble ==
  ASSUME NEW len \in Nat, NEW pieces,
         Len(pieces) = FragmentCount(len),
         \A k \in 1 .. Len(pieces) : pieces[k] = Fragment(len, k)
  PROVE  /\ pieces # <<>> => Assembles(pieces, len)
         /\ \A k \in 1 .. Len(pieces) :
              pieces[k].n < FIFO_LEN <=> k = Len(pieces)
<1> DEFINE c == FragmentCount(len)
<1>1. c \in Nat /\ c >= 1
  BY Division DEF FragmentCount
<1>2. \A k \in 1 .. c : /\ pieces[k].at = FragmentAt(k - 1)
                        /\ pieces[k].n = FragmentLen(len, k - 1)
  BY DEF Fragment
<1>3. pieces[1].at = 0
  BY <1>1, <1>2, LengthAssumption DEF FragmentAt
<1>4. ASSUME NEW k \in 1 .. c - 1
      PROVE  pieces[k + 1].at = pieces[k].at + pieces[k].n
  <2>1. k - 1 \in Nat /\ (k - 1) + 1 < FragmentCount(len)
    BY <1>1
  <2>2. FragmentAt((k - 1) + 1) = FragmentAt(k - 1) + FragmentLen(len, k - 1)
    BY <2>1, FragmentsContiguous
  <2>3. (k - 1) + 1 = k /\ (k + 1) - 1 = k /\ k \in 1 .. c /\ k + 1 \in 1 .. c
    BY <1>1
  <2> QED
    BY <1>2, <2>2, <2>3
<1>5. /\ FragmentAt(c - 1) + FragmentLen(len, c - 1) = len
      /\ FragmentLen(len, c - 1) < FIFO_LEN
  BY LastFragment
<1>6. ASSUME NEW k \in 1 .. c
      PROVE  pieces[k].n < FIFO_LEN <=> k = c
  <2>1. CASE k = c
    BY <1>2, <1>5, <2>1
  <2>2. CASE k # c
    BY <1>1, <1>2, <2>2, LengthAssumption DEF FragmentLen
  <2> QED
    BY <2>1, <2>2
<1> QED
  BY <1>1, <1>2, <1>3, <1>4, <1>5, <1>6 DEF Assembles

LEMMA UpgradeSteps == Steps => []UpgradeComplete
<1>1. TypeOK /\ Progress => UpgradeComplete
  <2> SUFFICES ASSUME TypeOK, Progress, NEW s \in Senders,
                      pc[s] = "copy", IsLarge(s), ~lost[s]
               PROVE  /\ Assembles(sent[s], cmd[s].len)
                      /\ \A k \in 1 .. Len(sent[s]) :
                           sent[s][k].n < FIFO_LEN <=> k = Len(sent[s])
    BY DEF UpgradeComplete
  <2>1. cmd[s].len \in Nat /\ sent[s] \in Seq(Frames)
    BY LengthAssumption DEF TypeOK, Commands, Lengths
  <2>2. /\ Len(sent[s]) = FragmentCount(cmd[s].len)
        /\ \A k \in 1 .. Len(sent[s]) : sent[s][k] = Fragment(cmd[s].len, k)
    BY DEF Progress, ProgressOf, LargeProgress, InFlight
  <2>3. sent[s] # <<>>
    <3>1. FragmentCount(cmd[s].len) >= 1
      BY <2>1, Division DEF FragmentCount
    <3> QED
      BY <2>1, <2>2, <3>1
  <2> QED
    BY <2>1, <2>2, <2>3, FragmentsAssemble
<1> QED
  BY <1>1, ProgressCorrect, PTL

(* A large message reaches the chip whole: the frames of a command that    *)
(* returns hold each byte of its data once and in order, and only the last *)
(* has room left, for every length of frame and message.                   *)
THEOREM UpgradesComplete == Spec => []UpgradeComplete
  BY UpgradeSteps, PTL DEF Spec, Steps

-----------------------------------------------------------------------------
(* What the chip is given of a large message when writes are skipped.      *)

(* Fragments sent come before the one the thread is at, or are that one    *)
(* between its write and the end of its round.                             *)
Passed(s, i) == IF pc[s] \in {"wait", "read"} THEN i <= frag[s] ELSE i < frag[s]

PiecesOf(s) ==
  IsLarge(s) =>
    /\ \A k \in 1 .. Len(sent[s]) :
         \E i \in 0 .. FragmentCount(cmd[s].len) - 1 :
           Passed(s, i) /\ sent[s][k] = Fragment(cmd[s].len, i + 1)
    /\ \A j, k \in 1 .. Len(sent[s]) : j < k => sent[s][j].at < sent[s][k].at

Pieces == \A s \in Senders : PiecesOf(s)

LEMMA FragmentsApart ==
  ASSUME NEW i \in Nat, NEW j \in Nat, i < j
  PROVE  FragmentAt(i) < FragmentAt(j)
<1>1. j * FIFO_LEN = i * FIFO_LEN + (j - i) * FIFO_LEN
  BY LengthAssumption
<1>2. (j - i) * FIFO_LEN >= FIFO_LEN
  BY LengthAssumption
<1>3. i * FIFO_LEN \in Nat /\ j * FIFO_LEN \in Nat
  BY LengthAssumption
<1> QED
  BY <1>1, <1>2, <1>3, LengthAssumption DEF FragmentAt

LEMMA NothingSentPieces ==
  ASSUME NEW s \in Senders, sent[s] = <<>>
  PROVE  PiecesOf(s)
  BY DEF PiecesOf

LEMMA WritePieces ==
  ASSUME TypeOK, Progress, NEW s \in Senders, PiecesOf(s), Write(s)
  PROVE  PiecesOf(s)'
<1>1. /\ pc[s] = "write" /\ pc'[s] = "wait"
      /\ sent'[s] = Append(sent[s], NextFrame(s))
      /\ cmd' = cmd /\ frag' = frag
  BY DEF Write, Goto, TypeOK
<1> SUFFICES ASSUME IsLarge(s) PROVE PiecesOf(s)'
  BY <1>1 DEF PiecesOf, IsLarge, IsRead
<1> DEFINE len == cmd[s].len
<1>2. /\ sent[s] \in Seq(Frames) /\ NextFrame(s) \in Frames /\ frag[s] \in Nat
      /\ len \in Nat
  BY NextFrameType, LengthAssumption DEF TypeOK, Commands, Lengths
<1>3. /\ Len(sent'[s]) = Len(sent[s]) + 1
      /\ sent'[s][Len(sent[s]) + 1] = NextFrame(s)
      /\ \A k \in 1 .. Len(sent[s]) : sent'[s][k] = sent[s][k]
      /\ Len(sent[s]) \in Nat
  BY <1>1, <1>2
<1>4. FragmentCount(len) \in Nat /\ frag[s] \in 0 .. FragmentCount(len) - 1
  <2>1. frag[s] < FragmentCount(len)
    BY <1>1 DEF Progress, ProgressOf, LargeProgress, InFlight
  <2>2. len \div FIFO_LEN \in Nat
    BY <1>2, Division
  <2>3. FragmentCount(len) \in Nat
    BY <2>2 DEF FragmentCount
  <2> QED
    BY <1>2, <2>1, <2>3
<1>5. NextFrame(s) = Fragment(len, frag[s] + 1)
  BY <1>2 DEF NextFrame, Fragment
<1>6. \A k \in 1 .. Len(sent[s]) :
        \E i \in 0 .. FragmentCount(len) - 1 :
          i < frag[s] /\ sent[s][k] = Fragment(len, i + 1)
  BY <1>1 DEF PiecesOf, Passed
<1>7. ASSUME NEW k \in 1 .. Len(sent'[s])
      PROVE  \E i \in 0 .. FragmentCount(len) - 1 :
               i <= frag[s] /\ sent'[s][k] = Fragment(len, i + 1)
  <2>1. CASE k = Len(sent[s]) + 1
    <3>1. frag[s] <= frag[s]
      BY <1>2
    <3> QED
      BY <1>3, <1>4, <1>5, <2>1, <3>1
  <2>2. CASE k # Len(sent[s]) + 1
    <3>1. k \in 1 .. Len(sent[s])
      BY <1>3, <2>2
    <3>2. PICK i \in 0 .. FragmentCount(len) - 1 :
            i < frag[s] /\ sent[s][k] = Fragment(len, i + 1)
      BY <1>6, <3>1
    <3>3. i <= frag[s]
      BY <1>2, <1>4, <3>2
    <3> QED
      BY <1>3, <3>1, <3>2, <3>3
  <2> QED
    BY <2>1, <2>2
<1>8. ASSUME NEW j \in 1 .. Len(sent'[s]), NEW k \in 1 .. Len(sent'[s]), j < k
      PROVE  sent'[s][j].at < sent'[s][k].at
  <2>1. j \in 1 .. Len(sent[s])
    BY <1>3, <1>8
  <2>2. CASE k \in 1 .. Len(sent[s])
    BY <1>3, <1>8, <2>1, <2>2 DEF PiecesOf
  <2>3. CASE k = Len(sent[s]) + 1
    <3>1. PICK i \in 0 .. FragmentCount(len) - 1 :
            i < frag[s] /\ sent[s][j] = Fragment(len, i + 1)
      BY <1>6, <2>1
    <3>2. i \in Nat /\ (i + 1) - 1 = i /\ (frag[s] + 1) - 1 = frag[s]
      BY <1>2, <1>4
    <3>3. sent'[s][j].at = FragmentAt(i) /\ sent'[s][k].at = FragmentAt(frag[s])
      BY <1>3, <1>5, <2>1, <2>3, <3>1, <3>2 DEF Fragment
    <3> QED
      BY <1>2, <3>1, <3>2, <3>3, FragmentsApart
  <2> QED
    BY <1>3, <2>2, <2>3
<1> QED
  BY <1>1, <1>7, <1>8 DEF PiecesOf, Passed

LEMMA JudgePieces ==
  ASSUME TypeOK, NEW s \in Senders, PiecesOf(s), pc[s] = "read",
         NEW r, Judge(s, r), sent' = sent
  PROVE  PiecesOf(s)'
<1>1. cmd' = cmd /\ (IsLarge(s)' <=> IsLarge(s))
  BY DEF Judge, IsLarge, IsRead
<1> SUFFICES ASSUME IsLarge(s) PROVE PiecesOf(s)'
  BY <1>1 DEF PiecesOf
<1>2. frag[s] \in Nat /\ frag'[s] = frag[s] + 1
  BY DEF Judge, TypeOK
<1>3. pc'[s] \in {"copy", "write"}
  BY DEF Judge, Goto, TypeOK, LoopEnd, LoopStart, IsLarge, IsRead
<1>4. \A i \in 0 .. FragmentCount(cmd[s].len) - 1 : Passed(s, i) => Passed(s, i)'
  BY <1>2, <1>3 DEF Passed
<1> QED
  BY <1>1, <1>4 DEF PiecesOf

LEMMA OwnPieces ==
  ASSUME TypeOK, Progress, NEW s \in Senders, PiecesOf(s),
         Lock(s) \/ SyncNoMemory(s) \/ Step(s)
  PROVE  PiecesOf(s)'
<1>1. CASE Write(s)
  BY <1>1, WritePieces
<1>2. ASSUME UNCHANGED <<cmd, frag, sent>>,
             pc'[s] = pc[s] \/ pc'[s] \in {"wait", "read"}
      PROVE  PiecesOf(s)'
  <2>1. frag[s] \in Nat
    BY DEF TypeOK
  <2>2. \A i \in 0 .. FragmentCount(cmd[s].len) - 1 : Passed(s, i) => Passed(s, i)'
    BY <1>2, <2>1 DEF Passed
  <2> QED
    BY <1>2, <2>2 DEF PiecesOf, IsLarge, IsRead
<1>3. CASE Lock(s) \/ WaitOver(s)
  BY <1>2, <1>3 DEF Lock, WaitOver, Goto, TypeOK, historyVars
<1>4. CASE pc[s] = "read" /\ (Read(s) \/ SyncNoMemory(s))
  BY <1>4, JudgePieces DEF Read, SyncNoMemory, historyVars
<1>5. CASE pc[s] = "write" /\ SyncNoMemory(s)
  BY <1>2, <1>5 DEF SyncNoMemory, Goto, TypeOK
<1>6. CASE \/ pc[s] = "ack" /\ (Ack(s) \/ SyncNoMemory(s))
           \/ ResetMode(s)
  <2>1. ~IsLarge(s)
    BY <1>6 DEF ResetMode, Progress, ProgressOf, LargeProgress, InFlight
  <2>2. cmd' = cmd
    BY <1>6 DEF Ack, ResetMode, SyncNoMemory
  <2> QED
    BY <2>1, <2>2 DEF PiecesOf, IsLarge, IsRead
<1>7. CASE Return(s)
  <2>1. sent'[s] = <<>>
    BY <1>7 DEF Return, TypeOK
  <2> QED
    BY <2>1 DEF PiecesOf
<1> QED
  BY <1>1, <1>3, <1>4, <1>5, <1>6, <1>7 DEF Step, Read, Ack, SyncNoMemory

LEMMA NextPieces == TypeOK /\ Progress /\ Pieces /\ [Next]_vars => Pieces'
<1> SUFFICES ASSUME TypeOK, Progress, Pieces, [Next]_vars, NEW t \in Senders
             PROVE  PiecesOf(t)'
  BY DEF Pieces
<1>1. PiecesOf(t)
  BY DEF Pieces
<1>2. ASSUME NEW c \in Commands, Begin(t, c) PROVE PiecesOf(t)'
  <2>1. sent'[t] = <<>>
    BY <1>2 DEF Begin, Progress, ProgressOf, IdleProgress
  <2> QED
    BY <2>1 DEF PiecesOf
<1>3. ASSUME pc'[t] = pc[t], cmd'[t] = cmd[t], frag'[t] = frag[t],
             sent'[t] = sent[t]
      PROVE  PiecesOf(t)'
  BY <1>1, <1>3 DEF PiecesOf, Passed, IsLarge, IsRead
<1>4. ASSUME NEW s \in Senders,
             \/ \E c \in Commands : Begin(s, c)
             \/ Lock(s) \/ SyncNoMemory(s) \/ Step(s)
      PROVE  PiecesOf(t)'
  <2>1. CASE s = t
    BY <1>1, <1>2, <1>4, <2>1, OwnPieces
  <2>2. CASE s # t
    BY <1>3, <1>4, <2>2, OthersUntouched
  <2> QED
    BY <2>1, <2>2
<1> QED
  BY <1>3, <1>4 DEF Next, vars, Answer, driverVars, historyVars

LEMMA PieceSteps == Steps => []FragmentsInOrder
<1>1. Init => Pieces
  BY NothingSentPieces DEF Init, Pieces
<1>2. TypeOK /\ Pieces => FragmentsInOrder
  <2> SUFFICES ASSUME TypeOK, NEW s \in Senders, PiecesOf(s), IsLarge(s)
               PROVE  /\ \A k \in 1 .. Len(sent[s]) :
                           \E i \in 0 .. FragmentCount(cmd[s].len) - 1 :
                             sent[s][k] = [at |-> FragmentAt(i),
                                           n |-> FragmentLen(cmd[s].len, i)]
                      /\ \A j, k \in 1 .. Len(sent[s]) :
                           j < k => sent[s][j].at < sent[s][k].at
    BY DEF Pieces, FragmentsInOrder
  <2>1. ASSUME NEW k \in 1 .. Len(sent[s])
        PROVE  \E i \in 0 .. FragmentCount(cmd[s].len) - 1 :
                 sent[s][k] = [at |-> FragmentAt(i),
                               n |-> FragmentLen(cmd[s].len, i)]
    <3>1. PICK i \in 0 .. FragmentCount(cmd[s].len) - 1 :
            sent[s][k] = Fragment(cmd[s].len, i + 1)
      BY DEF PiecesOf
    <3>2. (i + 1) - 1 = i
      OBVIOUS
    <3> QED
      BY <3>1, <3>2 DEF Fragment
  <2> QED
    BY <2>1 DEF PiecesOf
<1> QED
  BY <1>1, <1>2, NextPieces, ProgressCorrect, PTL DEF Steps

(* A write that is skipped for want of memory costs a large message its    *)
(* fragment and nothing else: what the chip is given are fragments of the  *)
(* message, in their order and none twice, whatever it answers and for     *)
(* every length of frame and message.                                      *)
THEOREM FragmentsOrdered == Spec => []FragmentsInOrder
  BY PieceSteps, PTL DEF Spec, Steps

-----------------------------------------------------------------------------
(* The refinement: what a caller sees of its command.                      *)

(* A command that is not over has not succeeded, unless it is a large      *)
(* message; a thread without a command is as it was in the beginning.      *)
Undecided ==
  \A s \in Senders :
    /\ pc[s] = "idle" => cmd[s] = NoCommand
    /\ pc[s] \in {"idle", "write", "wait", "read"} /\ ~IsLarge(s) => ~rx[s].ok

(* The caller's view of s is that of the step before.                      *)
Unseen(s) ==
  /\ PhaseOf(s)' = PhaseOf(s)
  /\ cmd'[s] = cmd[s]
  /\ RoundsOf(s)' = RoundsOf(s)
  /\ rx'[s].ok = rx[s].ok

LEMMA KindOfIsKind ==
  ASSUME NEW c \in Commands
  PROVE  KindOf(c) \in {KindOf(d) : d \in Commands}
  OBVIOUS

(* A step no caller sees.                                                  *)
LEMMA StepUnseen ==
  ASSUME \A s \in Senders : Unseen(s)
  PROVE  C!vars' = C!vars
<1>1. [s \in Senders |-> PhaseOf(s)]' = [s \in Senders |-> PhaseOf(s)]
  BY DEF Unseen
<1>2. [s \in Senders |-> KindOf(cmd[s])]' = [s \in Senders |-> KindOf(cmd[s])]
  BY DEF Unseen
<1>3. [s \in Senders |-> RoundsOf(s)]' = [s \in Senders |-> RoundsOf(s)]
  BY DEF Unseen
<1>4. [s \in Senders |-> rx[s].ok]' = [s \in Senders |-> rx[s].ok]
  BY DEF Unseen
<1> QED
  BY <1>1, <1>2, <1>3, <1>4 DEF C!vars

(* A thread's variables decide what its caller sees.                       *)
LEMMA UnseenFrame ==
  ASSUME NEW s \in Senders,
         pc'[s] = pc[s], cmd'[s] = cmd[s], retry'[s] = retry[s],
         frag'[s] = frag[s], rx'[s] = rx[s]
  PROVE  Unseen(s)
  BY DEF Unseen, PhaseOf, RoundsOf, IsLarge, IsRead

LEMMA BeginSeen ==
  ASSUME TypeOK, Undecided, Progress, NEW s \in Senders, NEW c \in Commands,
         Begin(s, c)
  PROVE  C!Next
<1>1. /\ pc[s] = "idle"
      /\ pc' = [pc EXCEPT ![s] = LoopStart(c.op)]
      /\ cmd' = [cmd EXCEPT ![s] = c]
      /\ retry' = retry /\ frag' = frag /\ rx' = rx
  BY DEF Begin, Goto
<1>2. \A t \in Senders \ {s} : Unseen(t)
  BY <1>1, UnseenFrame DEF TypeOK
<1>3. PhaseOf(s) = "idle" /\ PhaseOf(s)' = "busy" /\ cmd'[s] = c
  BY <1>1 DEF PhaseOf, LoopStart, TypeOK
<1>4. RoundsOf(s) = 0 /\ RoundsOf(s)' = 0
  <2>1. retry[s] = MaxRetry /\ frag[s] = 0
    BY <1>1 DEF Progress, ProgressOf, IdleProgress
  <2>2. ~rx[s].ok
    BY <1>1 DEF Undecided, NoCommand, IsLarge, IsRead
  <2> QED
    BY <1>1, <2>1, <2>2 DEF RoundsOf, MaxRetry
<1>5. C!Call(s, KindOf(c))
  <2>1. [t \in Senders |-> PhaseOf(t)]' =
          [[t \in Senders |-> PhaseOf(t)] EXCEPT ![s] = "busy"]
    BY <1>2, <1>3 DEF Unseen
  <2>2. [t \in Senders |-> KindOf(cmd[t])]' =
          [[t \in Senders |-> KindOf(cmd[t])] EXCEPT ![s] = KindOf(c)]
    BY <1>2, <1>3 DEF Unseen
  <2>3. [t \in Senders |-> RoundsOf(t)]' = [t \in Senders |-> RoundsOf(t)]
    BY <1>2, <1>4 DEF Unseen
  <2>4. [t \in Senders |-> rx[t].ok]' = [t \in Senders |-> rx[t].ok]
    BY <1>1
  <2> QED
    BY <1>3, <2>1, <2>2, <2>3, <2>4 DEF C!Call
<1> QED
  BY <1>5, KindOfIsKind DEF C!Next

LEMMA JudgeSeen ==
  ASSUME TypeOK, Undecided, NEW s \in Senders, pc[s] = "read",
         NEW r \in [ok : BOOLEAN, from : Senders \cup {NoOne}, no : Nat],
         Judge(s, r)
  PROVE  C!Next
<1> DEFINE over == LoopDone(s, r.ok)
<1>1. /\ rx' = [rx EXCEPT ![s] =
                  [ok |-> r.ok, fresh |-> r.from = s /\ r.no = Len(sent[s])]]
      /\ pc' = [pc EXCEPT ![s] = IF over THEN LoopEnd(s) ELSE LoopStart(cmd[s].op)]
      /\ cmd' = cmd
  BY DEF Judge, Goto
<1>2. /\ IsLarge(s) => frag' = [frag EXCEPT ![s] = @ + 1] /\ retry' = retry
      /\ ~IsLarge(s) =>
           /\ retry' = [retry EXCEPT ![s] = IF r.ok THEN @ ELSE @ - 1]
           /\ frag' = frag
  BY DEF Judge
<1>3. \A t \in Senders \ {s} : Unseen(t)
  BY <1>1, <1>2, UnseenFrame DEF TypeOK
<1>4. rx'[s].ok = r.ok /\ r.ok \in BOOLEAN /\ cmd'[s] = cmd[s]
  BY <1>1 DEF TypeOK
<1>5. PhaseOf(s) = "busy" /\ PhaseOf(s)' = IF over THEN "over" ELSE "busy"
  BY <1>1 DEF PhaseOf, LoopEnd, LoopStart, TypeOK
<1>6. /\ RoundsOf(s)' = RoundsOf(s) + 1
      /\ over <=> \/ RoundsOf(s)' = KindOf(cmd[s]).budget
                  \/ KindOf(cmd[s]).stops /\ r.ok
  <2>1. frag[s] \in Nat /\ retry[s] \in 0 .. MaxRetry
    BY DEF TypeOK
  <2>2. IsLarge(s)' <=> IsLarge(s)
    BY <1>4 DEF IsLarge, IsRead
  <2>3. CASE IsLarge(s)
    <3>1. frag'[s] = frag[s] + 1
      BY <1>2, <2>3 DEF TypeOK
    <3>2. KindOf(cmd[s]).budget = FragmentCount(cmd[s].len) /\ ~KindOf(cmd[s]).stops
      BY <2>3 DEF KindOf, IsLarge, IsRead
    <3> QED
      BY <2>2, <2>3, <3>1, <3>2 DEF RoundsOf, LoopDone
  <2>4. CASE ~IsLarge(s)
    <3>1. retry'[s] = IF r.ok THEN retry[s] ELSE retry[s] - 1
      BY <1>2, <2>4 DEF TypeOK
    <3>2. KindOf(cmd[s]).budget = MaxRetry /\ KindOf(cmd[s]).stops
      BY <2>4 DEF KindOf, IsLarge, IsRead
    <3>3. ~rx[s].ok
      BY <2>4 DEF Undecided
    <3> QED
      BY <1>4, <2>1, <2>2, <2>4, <3>1, <3>2, <3>3 DEF RoundsOf, LoopDone, MaxRetry
  <2> QED
    BY <2>3, <2>4
<1> HIDE DEF over
<1>7. C!Round(s, r.ok)
  <2>1. [t \in Senders |-> PhaseOf(t)]' =
          [[t \in Senders |-> PhaseOf(t)] EXCEPT
             ![s] = IF over THEN "over" ELSE "busy"]
    BY <1>3, <1>5 DEF Unseen
  <2>2. [t \in Senders |-> KindOf(cmd[t])]' = [t \in Senders |-> KindOf(cmd[t])]
    BY <1>1
  <2>3. [t \in Senders |-> RoundsOf(t)]' =
          [[t \in Senders |-> RoundsOf(t)] EXCEPT ![s] = RoundsOf(s) + 1]
    BY <1>3, <1>6 DEF Unseen
  <2>4. [t \in Senders |-> rx[t].ok]' =
          [[t \in Senders |-> rx[t].ok] EXCEPT ![s] = r.ok]
    BY <1>3, <1>4 DEF Unseen
  <2> QED
    BY <1>5, <1>6, <2>1, <2>2, <2>3, <2>4 DEF C!Round
<1> QED
  BY <1>4, <1>7 DEF C!Next

LEMMA ReturnSeen ==
  ASSUME TypeOK, NEW s \in Senders, Return(s)
  PROVE  C!Next
<1>1. /\ pc[s] = "copy"
      /\ pc' = [pc EXCEPT ![s] = "idle"]
      /\ cmd' = [cmd EXCEPT ![s] = NoCommand]
      /\ retry' = [retry EXCEPT ![s] = MaxRetry]
      /\ frag' = [frag EXCEPT ![s] = 0]
      /\ rx' = [rx EXCEPT ![s] = NothingRead]
  BY DEF Return, Goto
<1>2. \A t \in Senders \ {s} : Unseen(t)
  BY <1>1, UnseenFrame DEF TypeOK
<1>3. PhaseOf(s) = "over" /\ PhaseOf(s)' = "idle" /\ cmd'[s] = NoCommand
  BY <1>1 DEF PhaseOf, TypeOK
<1>4. rx'[s].ok = FALSE /\ RoundsOf(s)' = 0
  BY <1>1 DEF RoundsOf, TypeOK, NothingRead, NoCommand, IsLarge, IsRead, MaxRetry
<1>5. KindOf(NoCommand) \in {KindOf(c) : c \in Commands}
  BY KindOfIsKind DEF NoCommand, Commands
<1>6. C!Return(s)
  <2>1. [t \in Senders |-> PhaseOf(t)]' =
          [[t \in Senders |-> PhaseOf(t)] EXCEPT ![s] = "idle"]
    BY <1>2, <1>3 DEF Unseen
  <2>2. [t \in Senders |-> KindOf(cmd[t])]' =
          [[t \in Senders |-> KindOf(cmd[t])] EXCEPT ![s] = KindOf(NoCommand)]
    BY <1>2, <1>3 DEF Unseen
  <2>3. [t \in Senders |-> RoundsOf(t)]' =
          [[t \in Senders |-> RoundsOf(t)] EXCEPT ![s] = 0]
    BY <1>2, <1>4 DEF Unseen
  <2>4. [t \in Senders |-> rx[t].ok]' =
          [[t \in Senders |-> rx[t].ok] EXCEPT ![s] = FALSE]
    BY <1>2, <1>4 DEF Unseen
  <2> QED
    BY <1>3, <1>5, <2>1, <2>2, <2>3, <2>4 DEF C!Return
<1> QED
  BY <1>6 DEF C!Next

LEMMA JudgeUndecided ==
  ASSUME TypeOK, Undecided, NEW s \in Senders, pc[s] = "read",
         NEW r \in [ok : BOOLEAN, from : Senders \cup {NoOne}, no : Nat],
         Judge(s, r)
  PROVE  Undecided'
<1>1. /\ rx' = [rx EXCEPT ![s] =
                  [ok |-> r.ok, fresh |-> r.from = s /\ r.no = Len(sent[s])]]
      /\ pc' = [pc EXCEPT ![s] = IF LoopDone(s, r.ok) THEN LoopEnd(s)
                                                     ELSE LoopStart(cmd[s].op)]
      /\ cmd' = cmd
  BY DEF Judge, Goto
<1>2. rx'[s].ok = r.ok /\ \A t \in Senders \ {s} : rx'[t] = rx[t] /\ pc'[t] = pc[t]
  BY <1>1 DEF TypeOK
<1>3. ~IsLarge(s) /\ r.ok => pc'[s] \in {"ack", "reset"}
  BY <1>1 DEF LoopDone, LoopEnd, TypeOK
<1>4. pc'[s] # "idle"
  BY <1>1 DEF LoopEnd, LoopStart, TypeOK
<1> QED
  BY <1>1, <1>2, <1>3, <1>4 DEF Undecided, IsLarge, IsRead

LEMMA NextUndecided == TypeOK /\ Undecided /\ [Next]_vars => Undecided'
<1> SUFFICES ASSUME TypeOK, Undecided, [Next]_vars PROVE Undecided'
  OBVIOUS
<1> USE DEF Goto, chipVars, historyVars
<1>1. ASSUME NEW s \in Senders, NEW c \in Commands, Begin(s, c) PROVE Undecided'
  <2>1. ~rx[s].ok
    BY <1>1 DEF Begin, Undecided, NoCommand, IsLarge, IsRead
  <2> QED
    BY <1>1, <2>1 DEF Begin, Undecided, LoopStart, TypeOK, IsLarge, IsRead
<1>2. ASSUME NEW s \in Senders, Lock(s) \/ Write(s) \/ WaitOver(s)
      PROVE  Undecided'
  BY <1>2 DEF Lock, Write, WaitOver, Undecided, TypeOK, IsLarge, IsRead
<1>3. ASSUME NEW s \in Senders, Read(s) PROVE Undecided'
  BY <1>3, JudgeUndecided DEF Read, TypeOK
<1>4. ASSUME NEW s \in Senders, Ack(s) \/ ResetMode(s) PROVE Undecided'
  BY <1>4 DEF Ack, ResetMode, Undecided, TypeOK, IsLarge, IsRead
<1>5. ASSUME NEW s \in Senders, SyncNoMemory(s) PROVE Undecided'
  <2>1. CASE pc[s] = "read"
    <3>1. NoReply \in [ok : BOOLEAN, from : Senders \cup {NoOne}, no : Nat]
      BY DEF NoReply
    <3> QED
      BY <1>5, <2>1, <3>1, JudgeUndecided DEF SyncNoMemory
  <2>2. CASE pc[s] # "read"
    BY <1>5, <2>2 DEF SyncNoMemory, Undecided, TypeOK, IsLarge, IsRead
  <2> QED
    BY <2>1, <2>2
<1>6. ASSUME NEW s \in Senders, Return(s) PROVE Undecided'
  BY <1>6 DEF Return, Undecided, TypeOK, NothingRead, IsLarge, IsRead
<1>7. CASE UNCHANGED <<pc, cmd, rx>>
  BY <1>7 DEF Undecided, IsLarge, IsRead
<1> QED
  BY <1>1, <1>2, <1>3, <1>4, <1>5, <1>6, <1>7
  DEF Next, Step, vars, Answer, driverVars

LEMMA NextSeen ==
  TypeOK /\ Progress /\ Undecided /\ [Next]_vars => [C!Next]_(C!vars)
<1> SUFFICES ASSUME TypeOK, Progress, Undecided, [Next]_vars
             PROVE  C!Next \/ C!vars' = C!vars
  OBVIOUS
<1> USE DEF Goto, chipVars, historyVars
<1>1. ASSUME NEW s \in Senders,
             \A t \in Senders \ {s} : pc'[t] = pc[t],
             PhaseOf(s)' = PhaseOf(s),
             UNCHANGED <<cmd, retry, frag, rx>>
      PROVE  C!vars' = C!vars
  <2>1. \A t \in Senders \ {s} : Unseen(t)
    BY <1>1, UnseenFrame
  <2>2. Unseen(s)
    BY <1>1 DEF Unseen, RoundsOf, IsLarge, IsRead
  <2> QED
    BY <2>1, <2>2, StepUnseen
<1>2. ASSUME NEW s \in Senders, NEW c \in Commands, Begin(s, c) PROVE C!Next
  BY <1>2, BeginSeen
<1>3. ASSUME NEW s \in Senders, Lock(s) \/ Write(s) \/ WaitOver(s)
      PROVE  C!vars' = C!vars
  BY <1>1, <1>3 DEF Lock, Write, WaitOver, PhaseOf, TypeOK
<1>4. ASSUME NEW s \in Senders, Read(s) PROVE C!Next
  BY <1>4, JudgeSeen DEF Read, TypeOK
<1>5. ASSUME NEW s \in Senders, Ack(s) \/ ResetMode(s) PROVE C!vars' = C!vars
  BY <1>1, <1>5 DEF Ack, ResetMode, PhaseOf, TypeOK
<1>6. ASSUME NEW s \in Senders, SyncNoMemory(s)
      PROVE  C!Next \/ C!vars' = C!vars
  <2>1. CASE pc[s] = "read"
    <3>1. NoReply \in [ok : BOOLEAN, from : Senders \cup {NoOne}, no : Nat]
      BY DEF NoReply
    <3> QED
      BY <1>6, <2>1, <3>1, JudgeSeen DEF SyncNoMemory
  <2>2. CASE pc[s] # "read"
    BY <1>1, <1>6, <2>2 DEF SyncNoMemory, PhaseOf, TypeOK
  <2> QED
    BY <2>1, <2>2
<1>7. ASSUME NEW s \in Senders, Return(s) PROVE C!Next
  BY <1>7, ReturnSeen
<1>8. CASE UNCHANGED <<pc, cmd, retry, frag, rx>>
  BY <1>8, UnseenFrame, StepUnseen
<1> QED
  BY <1>2, <1>3, <1>4, <1>5, <1>6, <1>7, <1>8
  DEF Next, Step, vars, Answer, driverVars

LEMMA InitSeen == Init => C!Init
<1> SUFFICES ASSUME Init PROVE C!Init
  OBVIOUS
<1>1. [s \in Senders |-> PhaseOf(s)] = [s \in Senders |-> "idle"]
  BY DEF Init, PhaseOf
<1>2. NoCommand \in Commands
  BY DEF NoCommand, Commands
<1>3. \A s \in Senders : KindOf(cmd[s]) \in {KindOf(c) : c \in Commands}
  BY <1>2, KindOfIsKind DEF Init
<1>4. [s \in Senders |-> RoundsOf(s)] = [s \in Senders |-> 0]
  BY DEF Init, RoundsOf, NoCommand, NothingRead, IsLarge, IsRead, MaxRetry
<1>5. [s \in Senders |-> rx[s].ok] = [s \in Senders |-> FALSE]
  BY DEF Init, NothingRead
<1> QED
  BY <1>1, <1>3, <1>4, <1>5 DEF C!Init

LEMMA CommandSteps == Steps => ImplementsCommand
<1>1. Init => Undecided
  BY DEF Init, Undecided, NothingRead
<1>2. Steps => []Undecided
  BY <1>1, NextUndecided, TypeSteps, PTL DEF Steps
<1> QED
  BY <1>2, InitSeen, NextSeen, ProgressCorrect, PTL DEF Steps, ImplementsCommand, C!Spec

(* esp_spi_send implements the abstract command: whatever other threads    *)
(* send meanwhile and whichever transfers fail, a command has as many      *)
(* rounds as EspCommand allows and returns the result of the last, for any *)
(* number of threads and every length of frame and message.                *)
THEOREM CommandImplemented == Spec => ImplementsCommand
  BY CommandSteps, PTL DEF Spec, Steps

=============================================================================
