------------------------- MODULE EspBringUp_proofs --------------------------
(***************************************************************************)
(* Proofs about the probe and its error path, and about the interrupt line *)
(* while the driver comes and goes, for any number of files and threads.   *)
(*                                                                         *)
(* The ladder of EspProbe does not depend on the interrupt: its invariants *)
(* are proved of the steps of that module alone, and carried to the driver *)
(* by the lemma ProbeImplemented.                                          *)
(***************************************************************************)
EXTENDS EspBringUp, Sequences, TLAPS

(* What a probe that is about to acquire a resource, or is at a label,     *)
(* holds apart from the interrupt: what the earlier steps have acquired,   *)
(* which is what this and the later labels give back.                      *)
Below(place) ==
  CASE place = "esp_dev" -> {}
    [] place \in {"spi_buffer", "err_buf"} -> {"esp_dev"}
    [] place \in {"irq", "class", "err_class"} -> {"esp_dev", "spi_buffer"}
    [] place \in {"devno", "err_devno"} -> {"esp_dev", "spi_buffer", "class"}
    [] place \in {"device", "err_device"} ->
         {"esp_dev", "spi_buffer", "class", "devno"}
    [] place \in {"sysfs", "err_sysfs"} ->
         {"esp_dev", "spi_buffer", "class", "devno", "device"}
    [] place \in {"cdev", "err_cdev"} ->
         {"esp_dev", "spi_buffer", "class", "devno", "device", "sysfs"}

(* What a probe that has succeeded holds apart from the interrupt.         *)
Everything ==
  {"esp_dev", "spi_buffer", "class", "devno", "device", "sysfs", "cdev"}

(* Under way a probe holds what is below it and isok is unset; isok stays  *)
(* set for ever once a probe has succeeded, so that the device is bound or *)
(* has been removed.                                                       *)
Ladder ==
  /\ at # "idle" => ~isok /\ held \ {"irq"} = Below(at)
  /\ at = "idle" /\ ~isok => held \ {"irq"} = {}
  /\ isok /\ ~removed => bound /\ held \ {"irq"} = Everything
  /\ ~isok => ~bound /\ ~removed

(* Without cdev nobody has opened the device.                              *)
NoFileYet == ~isok => \A f \in Files : file[f] = "closed"

ProbeInv == P!TypeOK /\ Ladder /\ NoFileYet /\ FilesLive

-----------------------------------------------------------------------------
(* The resources and labels by name.                                       *)
LEMMA Places ==
  /\ P!Resources = {"esp_dev", "spi_buffer", "irq", "class", "devno",
                    "device", "sysfs", "cdev"}
  /\ P!LabelSet = {"err_cdev", "err_sysfs", "err_device", "err_devno",
                   "err_class", "err_buf"}
  /\ P!Rungs[1] = "esp_dev"
<1>1. 1 .. 8 = {1, 2, 3, 4, 5, 6, 7, 8} /\ 1 .. 6 = {1, 2, 3, 4, 5, 6}
  OBVIOUS
<1>2. Len(P!Rungs) = 8 /\ Len(P!Labels) = 6
  BY DEF P!Rungs, P!Labels
<1> QED
  BY <1>1, <1>2 DEF P!Resources, P!LabelSet, P!Rungs, P!Labels

(* What a step that succeeds leads to.                                     *)
LEMMA AfterRungs ==
  /\ P!After("esp_dev") = "spi_buffer"
  /\ P!After("spi_buffer") = "irq"
  /\ P!After("irq") = "class"
  /\ P!After("class") = "devno"
  /\ P!After("devno") = "device"
  /\ P!After("device") = "sysfs"
  /\ P!After("sysfs") = "cdev"
  /\ P!After("cdev") = "idle"
<1>1. Len(P!Rungs) = 8
  BY DEF P!Rungs
<1>2. ASSUME NEW i \in 1 .. 8
      PROVE  P!After(P!Rungs[i]) = IF i = 8 THEN "idle" ELSE P!Rungs[i + 1]
  <2>1. \A j, k \in 1 .. 8 : P!Rungs[j] = P!Rungs[k] => j = k
    BY DEF P!Rungs
  <2>2. (CHOOSE j \in 1 .. Len(P!Rungs) : P!Rungs[j] = P!Rungs[i]) = i
    BY <1>1, <2>1
  <2> QED
    BY <1>1, <2>2, Zenon DEF P!After
<1> QED
  BY <1>2 DEF P!Rungs

(* What a label falls through to.                                          *)
LEMMA AfterLabels ==
  /\ P!FallThrough("err_cdev") = "err_sysfs"
  /\ P!FallThrough("err_sysfs") = "err_device"
  /\ P!FallThrough("err_device") = "err_devno"
  /\ P!FallThrough("err_devno") = "err_class"
  /\ P!FallThrough("err_class") = "err_buf"
  /\ P!FallThrough("err_buf") = "idle"
<1>1. Len(P!Labels) = 6
  BY DEF P!Labels
<1>2. ASSUME NEW i \in 1 .. 6
      PROVE  P!FallThrough(P!Labels[i]) = IF i = 6 THEN "idle" ELSE P!Labels[i + 1]
  <2>1. \A j, k \in 1 .. 6 : P!Labels[j] = P!Labels[k] => j = k
    BY DEF P!Labels
  <2>2. (CHOOSE j \in 1 .. Len(P!Labels) : P!Labels[j] = P!Labels[i]) = i
    BY <1>1, <2>1
  <2> QED
    BY <1>1, <2>2, Zenon DEF P!FallThrough
<1> QED
  BY <1>2 DEF P!Labels

-----------------------------------------------------------------------------
LEMMA ProbeInvInit == P!Init => ProbeInv
<1> SUFFICES ASSUME P!Init PROVE ProbeInv
  OBVIOUS
<1>1. P!TypeOK
  <2>1. isok \in BOOLEAN /\ bound \in BOOLEAN /\ removed \in BOOLEAN
    BY Zenon DEF P!Init
  <2> QED
    BY <2>1 DEF P!Init, P!TypeOK
<1> QED
  BY <1>1 DEF P!Init, ProbeInv, Ladder, NoFileYet, FilesLive, P!FilesLive

LEMMA ProbeTypeStep == P!TypeOK /\ [P!Next]_(P!vars) => P!TypeOK'
<1> SUFFICES ASSUME P!TypeOK, [P!Next]_(P!vars) PROVE P!TypeOK'
  OBVIOUS
<1> USE DEF P!TypeOK
<1>1. CASE P!Probe
  BY <1>1, Places DEF P!Probe
<1>2. CASE P!Acquire
  <2>1. isok' \in BOOLEAN /\ bound' \in BOOLEAN
    BY <1>2, Zenon DEF P!Acquire
  <2> QED
    BY <1>2, <2>1, Places, AfterRungs DEF P!Acquire
<1>3. CASE P!Fail
  BY <1>3, Places, AfterRungs DEF P!Fail, P!ErrorLabel
<1>4. CASE P!Undo
  <2>1. file' \in [Files -> {"closed", "found", "open", "dangling"}]
    BY <1>4 DEF P!Undo, P!Dangle
  <2> QED
    BY <1>4, <2>1, Places, AfterLabels DEF P!Undo
<1>5. CASE P!Remove
  <2>1. file' \in [Files -> {"closed", "found", "open", "dangling"}]
    BY <1>5 DEF P!Remove, P!Dangle
  <2>2. bound' \in BOOLEAN /\ removed' \in BOOLEAN
    BY <1>5, Zenon DEF P!Remove
  <2> QED
    BY <1>5, <2>1, <2>2 DEF P!Remove
<1>6. ASSUME NEW f \in Files, P!Open(f) \/ P!Opened(f) \/ P!Release(f)
      PROVE  P!TypeOK'
  BY <1>6 DEF P!Open, P!Opened, P!Release
<1>7. CASE UNCHANGED P!vars
  BY <1>7 DEF P!vars
<1> QED
  BY <1>1, <1>2, <1>3, <1>4, <1>5, <1>6, <1>7 DEF P!Next

LEMMA LadderStep == P!TypeOK /\ Ladder /\ [P!Next]_(P!vars) => Ladder'
<1> SUFFICES ASSUME P!TypeOK, Ladder, [P!Next]_(P!vars) PROVE Ladder'
  OBVIOUS
<1> USE DEF Ladder, Below, Everything
<1>1. CASE P!Probe
  BY <1>1, Places DEF P!Probe
<1>2. CASE P!Acquire
  BY <1>2, Places, AfterRungs DEF P!Acquire, P!TypeOK
<1>3. CASE P!Fail
  BY <1>3, Places, AfterRungs DEF P!Fail, P!ErrorLabel
<1>4. CASE P!Undo
  BY <1>4, Places, AfterLabels DEF P!Undo, P!Undoes
<1>5. CASE P!Remove
  BY <1>5 DEF P!Remove
<1>6. CASE UNCHANGED <<at, held, isok, bound, removed>>
  BY <1>6
<1> QED
  BY <1>1, <1>2, <1>3, <1>4, <1>5, <1>6
  DEF P!Next, P!vars, P!Open, P!Opened, P!Release

(* Nobody finds the device before cdev is there, hence none of its files   *)
(* is left behind by the error path.                                       *)
LEMMA FilesStep == ProbeInv /\ [P!Next]_(P!vars) => NoFileYet' /\ FilesLive'
<1> SUFFICES ASSUME ProbeInv, [P!Next]_(P!vars) PROVE NoFileYet' /\ FilesLive'
  OBVIOUS
<1> USE DEF ProbeInv, NoFileYet, FilesLive, P!FilesLive, P!TypeOK
<1>1. CASE P!Probe \/ P!Fail
  BY <1>1 DEF P!Probe, P!Fail
<1>2. CASE P!Acquire
  BY <1>2, Zenon DEF P!Acquire
<1>3. CASE P!Undo
  <2>1. ~isok
    BY <1>3, Places DEF P!Undo, Ladder
  <2>2. UNCHANGED file
    BY <1>3, <2>1 DEF P!Undo, P!Dangle
  <2> QED
    BY <1>3, <2>2 DEF P!Undo
<1>4. CASE P!Remove
  BY <1>4 DEF P!Remove, Ladder
<1>5. ASSUME NEW f \in Files, P!Open(f)
      PROVE  NoFileYet' /\ FilesLive'
  <2>1. isok
    BY <1>5, Places DEF P!Open, Ladder, Below
  <2>2. ~removed => "esp_dev" \in held
    BY <2>1 DEF Ladder, Everything
  <2> QED
    BY <1>5, <2>1, <2>2 DEF P!Open
<1>6. ASSUME NEW f \in Files, P!Opened(f) \/ P!Release(f)
      PROVE  NoFileYet' /\ FilesLive'
  BY <1>6 DEF P!Opened, P!Release
<1>7. CASE UNCHANGED P!vars
  BY <1>7 DEF P!vars
<1> QED
  BY <1>1, <1>2, <1>3, <1>4, <1>5, <1>6, <1>7 DEF P!Next

-----------------------------------------------------------------------------
(* Every step of the driver is a step of the probe, of a file or of        *)
(* neither: what is proved of the steps of EspProbe holds of the driver    *)
(* with its interrupts.                                                    *)
LEMMA ProbeImplemented == Spec => P!Init /\ [][P!Next]_(P!vars)
<1>1. Init => P!Init
  BY DEF Init
<1>2. [Next]_vars => [P!Next]_(P!vars)
  <2> SUFFICES ASSUME [Next]_vars PROVE P!Next \/ UNCHANGED P!vars
    OBVIOUS
  <2> USE DEF probeVars, P!vars
  <2>1. CASE InitInterrupt
    BY <2>1 DEF InitInterrupt, P!Next
  <2>2. CASE ProbeStep
    BY <2>2 DEF ProbeStep, P!Next
  <2>3. ASSUME NEW f \in Files, FileStep(f)
        PROVE  P!Next
    BY <2>3 DEF FileStep, P!Next
  <2>4. CASE Chip \/ Irq \/ Enter
    BY <2>4 DEF Chip, Irq, Enter
  <2>5. ASSUME NEW t \in I!Threads, WaitStep(t) \/ Signal(t)
        PROVE  UNCHANGED P!vars
    BY <2>5 DEF WaitStep, Signal
  <2>6. CASE UNCHANGED vars
    BY <2>6 DEF vars
  <2> QED
    BY <2>1, <2>2, <2>3, <2>4, <2>5, <2>6 DEF Next
<1> QED
  BY <1>1, <1>2, PTL DEF Spec

(* The probe's part of the driver keeps its types, stands where its ladder *)
(* says, and shows no freed device to anyone before esp_remove.            *)
THEOREM ProbeCorrect == Spec => []ProbeInv
<1>1. ProbeInv /\ [P!Next]_(P!vars) => ProbeInv'
  BY ProbeTypeStep, LadderStep, FilesStep DEF ProbeInv
<1> QED
  BY <1>1, ProbeInvInit, ProbeImplemented, PTL

(* Whichever step of the probe fails, each label of the error path gives   *)
(* back something the probe holds: nothing is freed twice, and nothing     *)
(* that was never acquired.                                                *)
THEOREM UndoneIsHeld == Spec => []UndoesHeld
<1>1. ProbeInv => UndoesHeld
  BY Places DEF ProbeInv, Ladder, Below, UndoesHeld, P!UndoesHeld, P!Undoes
<1> QED
  BY <1>1, ProbeCorrect, PTL

(* However often the device is probed, a probe that is over has acquired   *)
(* everything or given everything back, but for the interrupt, and isok    *)
(* tells which.                                                            *)
THEOREM ProbeAtomic == Spec => []AllOrNothing
<1>1. ProbeInv => AllOrNothing
  BY Places DEF ProbeInv, Ladder, Everything, AllOrNothing, P!AllOrNothing
<1> QED
  BY <1>1, ProbeCorrect, PTL

(* Nothing is acquired twice (but the interrupt), however often the device *)
(* is probed, fails and is removed: a failure leaves nothing behind, and   *)
(* after a removal, which leaves nearly everything, isok stops every probe.*)
THEOREM ProbeAcquiresAnew == Spec => []AcquiresAnew
<1>1. ProbeInv => AcquiresAnew
  BY Places DEF ProbeInv, Ladder, Below, AcquiresAnew, P!AcquiresAnew
<1> QED
  BY <1>1, ProbeCorrect, PTL

(* The error path never frees the device of an open file, nor that of one  *)
(* being opened: only esp_remove does.                                     *)
THEOREM FilesKeepDevice == Spec => []FilesLive
<1>1. ProbeInv => FilesLive
  BY DEF ProbeInv
<1> QED
  BY <1>1, ProbeCorrect, PTL

-----------------------------------------------------------------------------
(* LineOwed is inductive once the stages of the tasklets have their type:  *)
(* enable_irq takes a line disabled once to enabled, whoever calls it, and *)
(* nobody but the handler disables it.                                     *)
LineInv == I!TypeOK /\ LineOwed

LEMMA LineInvInit == I!Init => LineInv
<1> SUFFICES ASSUME I!Init PROVE LineInv
  OBVIOUS
<1>1. edge \in BOOLEAN /\ fired \in [I!Threads -> BOOLEAN]
  BY Zenon DEF I!Init
<1>2. /\ is_eint_timeout \in {0, 1} /\ depth \in Nat /\ scheduled \subseteq I!Queues
      /\ stage \in [I!Queues -> I!Stages] /\ flag \in [I!Queues -> {0, 1}]
      /\ wait \in [I!Threads -> I!WaitStates]
  BY DEF I!Init, I!Queues, I!Stages, I!WaitStates
<1>3. LineOwed
  BY DEF I!Init, LineOwed
<1> QED
  BY <1>1, <1>2, <1>3, Zenon DEF LineInv, I!TypeOK

LEMMA LineInvStep == LineInv /\ [Next]_vars => LineInv'
<1> SUFFICES ASSUME LineInv, [Next]_vars PROVE LineInv'
  OBVIOUS
<1> USE DEF LineInv, LineOwed, I!TypeOK, I!Active, I!Queues, I!Stages, I!WaitStates
<1>1. CASE InitInterrupt
  BY <1>1 DEF InitInterrupt, I!EnableLine
<1>2. CASE UNCHANGED irqVars
  BY <1>2 DEF irqVars
<1>3. CASE Chip
  BY <1>3 DEF Chip, I!Edge
<1>4. CASE I!request_interrupt
  <2>1. edge' \in BOOLEAN
    BY <1>4, Zenon DEF I!request_interrupt
  <2>2. depth' = 1 /\ scheduled' \subseteq I!Queues /\ scheduled' # {}
    BY <1>4 DEF I!request_interrupt, I!Target
  <2> QED
    BY <1>4, <2>1, <2>2 DEF I!request_interrupt
<1>5. ASSUME NEW q \in I!Queues, I!TaskletFlag(q) PROVE LineInv'
  BY <1>5 DEF I!TaskletFlag
<1>6. ASSUME NEW q \in I!Queues, I!TaskletWake(q) PROVE LineInv'
  BY <1>6 DEF I!TaskletWake, I!Woken
<1>7. ASSUME NEW q \in I!Queues, I!TaskletEnable(q) PROVE LineInv'
  BY <1>7 DEF I!TaskletEnable, I!EnableLine
<1>8. ASSUME NEW m \in {0, 1}, I!SetMode(m) PROVE LineInv'
  BY <1>8 DEF I!SetMode
<1>9. ASSUME NEW t \in I!Threads, I!WaitBegin(t) PROVE LineInv'
  BY <1>9 DEF I!WaitBegin, I!QueueOf
<1>10. ASSUME NEW t \in I!Threads, I!WaitReturn(t) \/ I!WaitSleep(t) \/ I!LeaveAsleep(t)
       PROVE  LineInv'
  BY <1>10 DEF I!WaitReturn, I!WaitSleep, I!LeaveAsleep
<1> QED
  BY <1>1, <1>2, <1>3, <1>4, <1>5, <1>6, <1>7, <1>8, <1>9, <1>10
  DEF Next, ProbeStep, FileStep, Irq, Enter, WaitStep, Signal,
      I!WaitTimeout, I!WaitSignal, vars

(* Although a repeated probe enables the line whenever it comes to that    *)
(* step, the line is never disabled twice, nor with no tasklet left that   *)
(* will enable it: probing again cannot leave the driver deaf.             *)
THEOREM LineEnabledAgain == Spec => []LineOwed
<1>1. Init => LineInv
  BY LineInvInit DEF Init
<1>2. LineInv => LineOwed
  BY DEF LineInv
<1> QED
  BY <1>1, <1>2, LineInvStep, PTL DEF Spec
=============================================================================
