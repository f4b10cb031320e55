--------------------------- MODULE HalDevice_proofs ---------------------------
(***************************************************************************)
(* Proofs about HalDevice, for any set of descriptors.                     *)
(***************************************************************************)
EXTENDS HalDevice, TLAPS

LEMMA TypePreserved == TypeOK /\ [Next]_vars => TypeOK'
<1> SUFFICES ASSUME TypeOK, [Next]_vars PROVE TypeOK'
  OBVIOUS
<1> USE DEF TypeOK, serviceVars, Unchanged, Enter, EnterOpen, EnterClose
<1>1. ASSUME NEW d \in Descriptors, OpenDev(d) PROVE TypeOK'
  BY <1>1 DEF OpenDev, Opened, Lowest, Free
<1>2. ASSUME NEW d \in Descriptors, OtherOpen(d) PROVE TypeOK'
  BY <1>2 DEF OtherOpen
<1>3. ASSUME NEW d \in Descriptors, OtherClose(d) PROVE TypeOK'
  BY <1>3 DEF OtherClose
<1>4. CASE OpenFails
  BY <1>4 DEF OpenFails
<1>5. CASE OpenIoctl
  BY <1>5 DEF OpenIoctl
<1>6. CASE CloseDev
  BY <1>6 DEF CloseDev
<1>7. CASE Command \/ Query \/ Pass
  BY <1>7 DEF Command, Query, Pass, Outcomes
<1>8. CASE UNCHANGED vars
  BY <1>8 DEF vars
<1> QED
  BY <1>1, <1>2, <1>3, <1>4, <1>5, <1>6, <1>7, <1>8 DEF Next

LEMMA TypeInit == Init => TypeOK
<1> SUFFICES ASSUME Init PROVE TypeOK
  OBVIOUS
<1>1. device \in BOOLEAN
  BY Zenon DEF Init, OpenHal
<1>2. orderly \in BOOLEAN
  BY Zenon DEF Init
<1>3. file \in [Descriptors -> {"free", "device", "other"}]
  BY DEF Init
<1> QED
  BY <1>1, <1>2, <1>3, DescriptorsAssumption DEF Init, TypeOK

(* The variables keep their types: the descriptor is one of the process or *)
(* -1, whatever the calls of the clients and of the other threads.         *)
THEOREM TypeCorrect == Spec => []TypeOK
  BY TypeInit, TypePreserved, PTL DEF Spec

-----------------------------------------------------------------------------
(* What orderly clients keep: which descriptors name the device, what the  *)
(* others hold, and that fd is -1 after an open that failed.               *)
Holding == told = "open" \/ at = "ioctl"

Kept ==
  /\ Holding => fd \in Descriptors
  /\ \A d \in Descriptors : file[d] = "device" <=> Holding /\ d = fd
  /\ \A d \in owned : file[d] = "other"
  /\ at = "ioctl" => told # "open"
  /\ told = "failed" /\ at = "idle" => fd = -1

Keeping == orderly => Kept

LEMMA KeepingPreserved == TypeOK /\ Keeping /\ [Next]_vars => Keeping'
<1> SUFFICES ASSUME TypeOK, Keeping, [Next]_vars, orderly' PROVE Kept'
  BY DEF Keeping
<1>0. /\ orderly
      /\ file \in [Descriptors -> {"free", "device", "other"}]
      /\ owned \subseteq Descriptors
      /\ at \in {"idle", "ioctl"}
      /\ told \in {"never", "open", "failed", "closed"}
  BY DEF TypeOK, Next, vars, serviceVars, OpenDev, OtherOpen, OtherClose,
         OpenFails, OpenIoctl, CloseDev, Command, Query, Pass, EnterOpen,
         EnterClose, Unchanged
<1>a. Kept
  BY <1>0 DEF Keeping
<1> USE <1>0, <1>a DEF Kept, Holding, serviceVars, Unchanged, Enter
<1>1. ASSUME NEW d \in Descriptors, OpenDev(d) PROVE Kept'
  BY <1>1 DEF OpenDev, EnterOpen, Opened, Lowest, Free
<1>2. ASSUME NEW d \in Descriptors, OtherOpen(d) PROVE Kept'
  BY <1>2 DEF OtherOpen, Lowest, Free
<1>3. ASSUME NEW d \in Descriptors, OtherClose(d) PROVE Kept'
  BY <1>3 DEF OtherClose
<1>4. CASE OpenFails
  BY <1>4 DEF OpenFails, EnterOpen
<1>5. CASE OpenIoctl
  <2>1. fd \in Descriptors /\ file[fd] = "device"
    BY <1>5 DEF OpenIoctl
  <2>2. fd # -1
    BY <2>1, DescriptorsAssumption
  <2>3. told' = "open"
    BY <1>5, <2>1, <2>2 DEF OpenIoctl, Target
  <2> QED
    BY <1>5, <2>1, <2>3 DEF OpenIoctl
<1>6. CASE CloseDev
  <2>1. told \in {"open", "failed"} /\ at = "idle"
    BY <1>6 DEF CloseDev, EnterClose
  <2>2. \A d \in Descriptors : file'[d] # "device"
    BY <1>6, <2>1 DEF CloseDev
  <2>3. \A d \in owned : file'[d] = "other"
    <3> TAKE d \in owned
    <3>1. d \in Descriptors /\ file[d] = "other"
      OBVIOUS
    <3>2. d # fd
      BY <3>1, <2>1, DescriptorsAssumption
    <3> QED
      BY <1>6, <3>1, <3>2 DEF CloseDev
  <2> QED
    BY <1>6, <2>1, <2>2, <2>3 DEF CloseDev, EnterClose
<1>7. CASE Command \/ Query \/ Pass
  BY <1>7 DEF Command, Query, Pass
<1>8. CASE UNCHANGED vars
  BY <1>8 DEF vars
<1> QED
  BY <1>1, <1>2, <1>3, <1>4, <1>5, <1>6, <1>7, <1>8 DEF Next

LEMMA KeepingInit == Init => Keeping
<1> SUFFICES ASSUME Init PROVE Kept
  BY DEF Keeping
<1>1. /\ told = "never" /\ at = "idle" /\ owned = {0}
      /\ file = [d \in Descriptors |-> IF d = 0 THEN "other" ELSE "free"]
  BY DEF Init
<1> QED
  BY <1>1, DescriptorsAssumption DEF Kept, Holding

LEMMA KeepingTells == Keeping => DescriptorKept /\ ForeignKept
<1> SUFFICES ASSUME Keeping, orderly PROVE DescriptorKept /\ ForeignKept
  BY DEF DescriptorKept, ForeignKept
<1>1. Kept
  BY DEF Keeping
<1>2. {d \in Descriptors : file[d] = "device"} = IF Holding THEN {fd} ELSE {}
  BY <1>1 DEF Kept
<1> QED
  BY <1>1, <1>2 DEF Kept, Holding, DescriptorKept, ForeignKept

(* Orderly clients have exactly the descriptor open that fd names, while   *)
(* they have been told so.                                                 *)
THEOREM DescriptorsKept == Spec => []DescriptorKept
  BY KeepingInit, KeepingPreserved, KeepingTells, TypeCorrect, PTL DEF Spec

(* Orderly clients do not make the HAL close what is not its own.          *)
THEOREM ForeignersKept == Spec => []ForeignKept
  BY KeepingInit, KeepingPreserved, KeepingTells, TypeCorrect, PTL DEF Spec
=============================================================================
