----------------------------- MODULE EspSpiSend -----------------------------
(***************************************************************************)
(* The command protocol of the ESP8266 driver: esp_spi_send and the        *)
(* transfers it is made of (security_ic/ESP8266/esp_common.c).             *)
(*                                                                         *)
(* A thread in one of the message ioctls runs esp_spi_send.  Depending on  *)
(* the message it                                                          *)
(*   read    reads what the chip has, up to three times, and writes it     *)
(*           back as an acknowledgement;                                   *)
(*   small   writes one frame, waits for the chip's interrupt and reads    *)
(*           the answer, up to three times;                                *)
(*   large   does so once for every fragment, without looking at the       *)
(*           answers.                                                      *)
(* dev_lock covers a single transfer, not a command: the transfers of      *)
(* several threads interleave freely.                                      *)
(*                                                                         *)
(* Here a wait for the interrupt may end at any time; the interrupt itself *)
(* is EspInterrupt, and EspDriver puts the two together.  The chip is      *)
(* modelled from how the driver uses it: it keeps its newest answer, and a *)
(* read returns that answer, whichever frame it answers.                   *)
(***************************************************************************)
EXTENDS EspFragment, Sequences

CONSTANTS
  Senders,   \* threads that send commands
  NoOne      \* not a sender: a free dev_lock, an answer to nobody here

ASSUME SendersAssumption == NoOne \notin Senders

VARIABLES
  pc,               \* where the thread is in esp_spi_send
  cmd,              \* its message: DATA_READ, or a command of some length
  retry,            \* attempts left
  frag,             \* fragments done
  rx,               \* the answer it read last
  dev_lock,         \* who transfers
  is_eint_timeout,  \* 1: the next interrupt is meant for a sender
  work,             \* the frame the chip has not yet answered
  reply,            \* the newest answer of the chip
  sent,             \* history: what the thread's frames of this command held
  lost,             \* history: a write of this command never reached the bus
  overlap,          \* history: another command was in flight during this one
  upgraded          \* history: the last command to begin was a large message

driverVars == <<pc, cmd, retry, frag, rx, dev_lock, is_eint_timeout>>

chipVars == <<work, reply>>

historyVars == <<sent, lost, overlap, upgraded>>

vars == <<driverVars, chipVars, historyVars>>

MaxRetry == 3

PCs == {"idle", "write", "wait", "read", "ack", "reset", "copy"}

Commands == [op : {"DATA_READ"}, len : {0}] \cup [op : {"SEND"}, len : Lengths]

NoCommand == [op |-> "DATA_READ", len |-> 0]

Frames == [at : Nat, n : Nat]

NoWork == [busy |-> FALSE, from |-> NoOne, no |-> 0]

NoReply == [ok |-> FALSE, from |-> NoOne, no |-> 0]

NothingRead == [ok |-> FALSE, fresh |-> FALSE]

TypeOK ==
  /\ pc \in [Senders -> PCs]
  /\ cmd \in [Senders -> Commands]
  /\ retry \in [Senders -> 0 .. MaxRetry]
  /\ frag \in [Senders -> Nat]
  /\ rx \in [Senders -> [ok : BOOLEAN, fresh : BOOLEAN]]
  /\ dev_lock \in Senders \cup {NoOne}
  /\ is_eint_timeout \in {0, 1}
  /\ work \in [busy : BOOLEAN, from : Senders \cup {NoOne}, no : Nat]
  /\ reply \in [ok : BOOLEAN, from : Senders \cup {NoOne}, no : Nat]
  /\ sent \in [Senders -> Seq(Frames)]
  /\ lost \in [Senders -> BOOLEAN]
  /\ overlap \in [Senders -> BOOLEAN]
  /\ upgraded \in BOOLEAN

Init ==
  /\ pc = [s \in Senders |-> "idle"]
  /\ cmd = [s \in Senders |-> NoCommand]
  /\ retry = [s \in Senders |-> MaxRetry]
  /\ frag = [s \in Senders |-> 0]
  /\ rx = [s \in Senders |-> NothingRead]
  /\ dev_lock = NoOne
  /\ is_eint_timeout = 0
  /\ work = NoWork
  /\ reply = NoReply
  /\ sent = [s \in Senders |-> <<>>]
  /\ lost = [s \in Senders |-> FALSE]
  /\ overlap = [s \in Senders |-> FALSE]
  /\ upgraded = FALSE

-----------------------------------------------------------------------------
InFlight(s) == pc[s] # "idle"

IsRead(s) == cmd[s].op = "DATA_READ"

IsLarge(s) == ~IsRead(s) /\ ~IsSmall(cmd[s].len)

Goto(s, label) == pc' = [pc EXCEPT ![s] = label]

(* The first step of a round of the loop.                                  *)
LoopStart(op) == IF op = "DATA_READ" THEN "read" ELSE "write"

(* The step after the loop: a large message leaves is_eint_timeout at 1.   *)
LoopEnd(s) ==
  CASE IsRead(s) -> "ack"
    [] IsLarge(s) -> "copy"
    [] OTHER -> "reset"

(* Altered, for the checks: one attempt too many, no break on success, a   *)
(* single attempt at reading, a large message given up.                    *)
LoopDoneAtZero(s, ok) ==
  IF IsLarge(s) THEN frag[s] + 1 = FragmentCount(cmd[s].len)
                ELSE ok \/ retry[s] = 0

LoopDoneNoBreak(s, ok) ==
  IF IsLarge(s) THEN frag[s] + 1 = FragmentCount(cmd[s].len)
                ELSE retry[s] = 1

LoopDoneReadOnce(s, ok) ==
  IF IsLarge(s) THEN frag[s] + 1 = FragmentCount(cmd[s].len)
                ELSE IsRead(s) \/ ok \/ retry[s] = 1

LoopDoneGivesUp(s, ok) ==
  IF IsLarge(s) THEN ~ok \/ frag[s] + 1 = FragmentCount(cmd[s].len)
                ELSE ok \/ retry[s] = 1

(* A large message goes through all its fragments, whatever the answers;   *)
(* the others until an answer says SUCCESS or no attempt is left.          *)
LoopDone(s, ok) ==
  IF IsLarge(s) THEN frag[s] + 1 = FragmentCount(cmd[s].len)
                ELSE ok \/ retry[s] = 1

(* What the next frame of s holds of its message.                          *)
NextFrame(s) ==
  IF IsLarge(s)
  THEN [at |-> FragmentAt(frag[s]), n |-> FragmentLen(cmd[s].len, frag[s])]
  ELSE [at |-> 0, n |-> cmd[s].len]

(* Once the command of s is over, its frames are nobody's.                 *)
Disown(s, x) == IF x.from = s THEN [x EXCEPT !.from = NoOne, !.no = 0] ELSE x

-----------------------------------------------------------------------------
(* Altered, for the checks: without `is_eint_timeout = 1'.                 *)
BeginKeepsMode(s, c) ==
  /\ pc[s] = "idle"
  /\ cmd' = [cmd EXCEPT ![s] = c]
  /\ is_eint_timeout' = IF c.op = "DATA_READ" THEN 0 ELSE is_eint_timeout
  /\ Goto(s, LoopStart(c.op))
  /\ UNCHANGED <<retry, frag, rx, dev_lock, chipVars, historyVars>>

(* esp_spi_send is entered with a copy of the caller's message.            *)
Begin(s, c) ==
  /\ pc[s] = "idle"
  /\ cmd' = [cmd EXCEPT ![s] = c]
  /\ is_eint_timeout' = IF c.op = "DATA_READ" THEN 0 ELSE 1
  /\ Goto(s, LoopStart(c.op))
  /\ overlap' = [t \in Senders |->
                   \/ overlap[t]
                   \/ t = s /\ \E u \in Senders \ {s} : InFlight(u)
                   \/ t # s /\ InFlight(t)]
  /\ upgraded' = (c.op = "SEND" /\ ~IsSmall(c.len))
  /\ UNCHANGED <<retry, frag, rx, dev_lock, work, reply, sent, lost>>

(* mutex_lock(&dev_lock) in esp_spi_sync.                                  *)
Lock(s) ==
  /\ pc[s] \in {"write", "read", "ack"}
  /\ dev_lock = NoOne
  /\ dev_lock' = s
  /\ UNCHANGED <<pc, cmd, retry, frag, rx, is_eint_timeout>>
  /\ UNCHANGED <<chipVars, historyVars>>

(* Altered, for the checks: without mutex_unlock(&dev_lock).               *)
WriteKeepsLock(s) ==
  /\ pc[s] = "write"
  /\ dev_lock = s
  /\ sent' = [sent EXCEPT ![s] = Append(@, NextFrame(s))]
  /\ work' = [busy |-> TRUE, from |-> s, no |-> Len(sent'[s])]
  /\ Goto(s, "wait")
  /\ UNCHANGED <<cmd, retry, frag, rx, dev_lock, is_eint_timeout, reply>>
  /\ UNCHANGED <<lost, overlap, upgraded>>

(* The frame reaches the chip, which drops the one it was busy with.       *)
Write(s) ==
  /\ pc[s] = "write"
  /\ dev_lock = s
  /\ dev_lock' = NoOne
  /\ sent' = [sent EXCEPT ![s] = Append(@, NextFrame(s))]
  /\ work' = [busy |-> TRUE, from |-> s, no |-> Len(sent'[s])]
  /\ Goto(s, "wait")
  /\ UNCHANGED <<cmd, retry, frag, rx, is_eint_timeout, reply>>
  /\ UNCHANGED <<lost, overlap, upgraded>>

(* esp_wait_spi_eint_timeout returns, and does not say why.                *)
WaitOver(s) ==
  /\ pc[s] = "wait"
  /\ Goto(s, "read")
  /\ UNCHANGED <<cmd, retry, frag, rx, dev_lock, is_eint_timeout>>
  /\ UNCHANGED <<chipVars, historyVars>>

\* Altered, for the checks: a fragment that the chip has refused is repeated.
JudgeRepeats(s, r) ==
  /\ rx' = [rx EXCEPT ![s] =
              [ok |-> r.ok, fresh |-> r.from = s /\ r.no = Len(sent[s])]]
  /\ IF IsLarge(s)
     THEN /\ frag' = [frag EXCEPT ![s] = IF r.ok THEN @ + 1 ELSE @]
          /\ UNCHANGED retry
     ELSE /\ retry' = [retry EXCEPT ![s] = IF r.ok THEN @ ELSE @ - 1]
          /\ UNCHANGED frag
  /\ Goto(s, IF r.ok /\ LoopDone(s, r.ok) THEN LoopEnd(s) ELSE LoopStart(cmd[s].op))
  /\ UNCHANGED <<cmd, is_eint_timeout>>

(* The end of a round, once r has been read: what esp_spi_send does of it. *)
Judge(s, r) ==
  /\ rx' = [rx EXCEPT ![s] =
              [ok |-> r.ok, fresh |-> r.from = s /\ r.no = Len(sent[s])]]
  /\ IF IsLarge(s)
     THEN /\ frag' = [frag EXCEPT ![s] = @ + 1]
          /\ UNCHANGED retry
     ELSE /\ retry' = [retry EXCEPT ![s] = IF r.ok THEN @ ELSE @ - 1]
          /\ UNCHANGED frag
  /\ Goto(s, IF LoopDone(s, r.ok) THEN LoopEnd(s) ELSE LoopStart(cmd[s].op))
  /\ UNCHANGED <<cmd, is_eint_timeout>>

(* Altered, for the checks: without mutex_unlock(&dev_lock).               *)
ReadKeepsLock(s) ==
  /\ pc[s] = "read"
  /\ dev_lock = s
  /\ Judge(s, reply)
  /\ UNCHANGED dev_lock
  /\ UNCHANGED <<chipVars, historyVars>>

Read(s) ==
  /\ pc[s] = "read"
  /\ dev_lock = s
  /\ dev_lock' = NoOne
  /\ Judge(s, reply)
  /\ UNCHANGED <<chipVars, historyVars>>

(* DATA_READ: the data goes back to the chip, successfully read or not.    *)
Ack(s) ==
  /\ pc[s] = "ack"
  /\ dev_lock = s
  /\ dev_lock' = NoOne
  /\ sent' = [sent EXCEPT ![s] = Append(@, NextFrame(s))]
  /\ Goto(s, "copy")
  /\ UNCHANGED <<cmd, retry, frag, rx, is_eint_timeout, chipVars>>
  /\ UNCHANGED <<lost, overlap, upgraded>>

(* esp_spi_sync finds no memory for its transfer.  Nothing looks at the    *)
(* -ENOMEM it returns: a write is skipped, a read leaves zeroes.           *)
SyncNoMemory(s) ==
  /\ dev_lock # s
  /\ \/ /\ pc[s] \in {"write", "ack"}
        /\ Goto(s, IF pc[s] = "write" THEN "wait" ELSE "copy")
        /\ lost' = [lost EXCEPT ![s] = TRUE]
        /\ UNCHANGED <<cmd, retry, frag, rx, is_eint_timeout>>
     \/ /\ pc[s] = "read"
        /\ Judge(s, NoReply)
        /\ UNCHANGED lost
  /\ UNCHANGED <<dev_lock, chipVars>>
  /\ UNCHANGED <<sent, overlap, upgraded>>

\* Altered, for the checks: only if the chip has said SUCCESS.
ResetModeOnSuccess(s) ==
  /\ pc[s] = "reset"
  /\ is_eint_timeout' = IF rx[s].ok THEN 0 ELSE is_eint_timeout
  /\ Goto(s, "copy")
  /\ UNCHANGED <<cmd, retry, frag, rx, dev_lock>>
  /\ UNCHANGED <<chipVars, historyVars>>

(* After the loop of a small message.                                      *)
ResetMode(s) ==
  /\ pc[s] = "reset"
  /\ is_eint_timeout' = 0
  /\ Goto(s, "copy")
  /\ UNCHANGED <<cmd, retry, frag, rx, dev_lock>>
  /\ UNCHANGED <<chipVars, historyVars>>

(* copy_to_user of what was read last, and return.                         *)
Return(s) ==
  /\ pc[s] = "copy"
  /\ Goto(s, "idle")
  /\ cmd' = [cmd EXCEPT ![s] = NoCommand]
  /\ retry' = [retry EXCEPT ![s] = MaxRetry]
  /\ frag' = [frag EXCEPT ![s] = 0]
  /\ rx' = [rx EXCEPT ![s] = NothingRead]
  /\ work' = Disown(s, work)
  /\ reply' = Disown(s, reply)
  /\ sent' = [sent EXCEPT ![s] = <<>>]
  /\ lost' = [lost EXCEPT ![s] = FALSE]
  /\ overlap' = [overlap EXCEPT ![s] = FALSE]
  /\ UNCHANGED <<dev_lock, is_eint_timeout, upgraded>>

-----------------------------------------------------------------------------
(* The chip answers the newest frame it was sent.                          *)
Answer(ok) ==
  /\ work.busy
  /\ reply' = [ok |-> ok, from |-> work.from, no |-> work.no]
  /\ work' = NoWork
  /\ UNCHANGED driverVars
  /\ UNCHANGED historyVars

-----------------------------------------------------------------------------
(* What a thread does that is neither waiting for the lock nor bad luck.   *)
Step(s) ==
  \/ Write(s)
  \/ WaitOver(s)
  \/ Read(s)
  \/ Ack(s)
  \/ ResetMode(s)
  \/ Return(s)

Next ==
  \/ \E s \in Senders :
       \/ \E c \in Commands : Begin(s, c)
       \/ Lock(s)
       \/ SyncNoMemory(s)
       \/ Step(s)
  \/ \E ok \in BOOLEAN : Answer(ok)

(* A thread that can go on does; every wait for the interrupt is timed;    *)
(* the kernel's mutex queues its waiters, so each gets dev_lock in turn.   *)
(* Nothing is assumed of the chip: it may never answer.                    *)
Fairness == \A s \in Senders : WF_vars(Step(s)) /\ SF_vars(Lock(s))

Spec == Init /\ [][Next]_vars /\ Fairness

-----------------------------------------------------------------------------
(* Properties                                                              *)

(* A thread is inside spi_sync only while it has dev_lock, and never leaves*)
(* the transfer with it: whatever path a command takes, nobody else is     *)
(* locked out for good.                                                    *)
LockHolderTransfers ==
  dev_lock # NoOne => pc[dev_lock] \in {"write", "read", "ack"}

(* The pieces of a message, in the order sent: together they are its data, *)
(* each byte once and in order.                                            *)
Assembles(pieces, len) ==
  /\ pieces # <<>>
  /\ pieces[1].at = 0
  /\ \A k \in 1 .. Len(pieces) - 1 :
       pieces[k + 1].at = pieces[k].at + pieces[k].n
  /\ pieces[Len(pieces)].at + pieces[Len(pieces)].n = len

(* A large message that returns has given the chip exactly its data, cut   *)
(* into frames that hold FIFO_LEN bytes at most and end with one that is   *)
(* not full, unless a write was skipped for want of memory.                *)
UpgradeComplete ==
  \A s \in Senders :
    pc[s] = "copy" /\ IsLarge(s) /\ ~lost[s] =>
      /\ Assembles(sent[s], cmd[s].len)
      /\ \A k \in 1 .. Len(sent[s]) :
           sent[s][k].n < FIFO_LEN <=> k = Len(sent[s])

(* Whatever the chip answers and whichever writes are skipped for want of  *)
(* memory: what the chip is given of a large message are fragments of it,  *)
(* in their order, and none of them twice.  A skipped write leaves a gap   *)
(* of one fragment and shifts nothing.                                     *)
FragmentsInOrder ==
  \A s \in Senders : IsLarge(s) =>
    /\ \A k \in 1 .. Len(sent[s]) :
         \E i \in 0 .. FragmentCount(cmd[s].len) - 1 :
           sent[s][k] = [at |-> FragmentAt(i), n |-> FragmentLen(cmd[s].len, i)]
    /\ \A j, k \in 1 .. Len(sent[s]) : j < k => sent[s][j].at < sent[s][k].at

(* A small command returns a success after as many frames as it took, or a *)
(* failure after exactly three: it is never repeated once the chip has     *)
(* said SUCCESS and never given up early.                                  *)
AttemptBudget ==
  \A s \in Senders :
    pc[s] = "copy" /\ ~IsRead(s) /\ ~IsLarge(s) /\ ~lost[s] =>
      Len(sent[s]) = IF rx[s].ok THEN MaxRetry + 1 - retry[s] ELSE MaxRetry

(* DATA_READ returns having acknowledged once, however often it had to     *)
(* read; only a success ends its attempts early.                           *)
AcknowledgedOnce ==
  \A s \in Senders :
    pc[s] = "copy" /\ IsRead(s) =>
      /\ Len(sent[s]) = IF lost[s] THEN 0 ELSE 1
      /\ rx[s].ok \/ retry[s] = 0

(* A command that had the driver to itself waits with is_eint_timeout at   *)
(* 1: the interrupt that answers it goes to the queue it waits on.  (Any   *)
(* other command that begins or ends meanwhile may set the variable to 0.) *)
ReplyRouted ==
  \A s \in Senders : pc[s] = "wait" /\ ~overlap[s] => is_eint_timeout = 1

(* Between commands the interrupt belongs to the listeners, unless the last*)
(* command to begin was a large message, which leaves it with the senders: *)
(* however commands overlapped, and whether or not the chip has answered.  *)
DeafOnlyAfterUpgrade ==
  (\A s \in Senders : ~InFlight(s)) /\ is_eint_timeout = 1 => upgraded

(* What a caller sees of a command, whatever other threads send meanwhile  *)
(* and whichever of its transfers fail: it has as many rounds as EspCommand*)
(* allows, and returns the result of the last.                             *)
PhaseOf(s) ==
  CASE pc[s] = "idle" -> "idle"
    [] pc[s] \in {"write", "wait", "read"} -> "busy"
    [] OTHER -> "over"

KindOf(c) ==
  IF c.op = "DATA_READ" \/ IsSmall(c.len)
  THEN [budget |-> MaxRetry, stops |-> TRUE]
  ELSE [budget |-> FragmentCount(c.len), stops |-> FALSE]

RoundsOf(s) ==
  IF IsLarge(s) THEN frag[s]
  ELSE MaxRetry - retry[s] + (IF rx[s].ok THEN 1 ELSE 0)

C == INSTANCE EspCommand WITH
       Callers <- Senders,
       Kinds <- {KindOf(c) : c \in Commands},
       phase <- [s \in Senders |-> PhaseOf(s)],
       kind <- [s \in Senders |-> KindOf(cmd[s])],
       rounds <- [s \in Senders |-> RoundsOf(s)],
       result <- [s \in Senders |-> rx[s].ok]

ImplementsCommand == C!Spec

(* Every command returns, whether or not the chip ever answers.            *)
CommandReturns ==
  \A s \in Senders : InFlight(s) ~> ~InFlight(s)
=============================================================================
