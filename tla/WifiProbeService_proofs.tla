----------------------- MODULE WifiProbeService_proofs -----------------------
(***************************************************************************)
(* Proofs about WifiProbeService, for any numbers of threads, callbacks and*)
(* descriptors: what holds of the listener and of the HAL holds of the     *)
(* process, and no listener is told of a failure without cause, however    *)
(* long ago it has loaded the descriptor.                                  *)
(***************************************************************************)
EXTENDS WifiProbeService, TLAPS

LP == INSTANCE HidlListener_proofs WITH service <- "wifi_probe"

HP == INSTANCE HalDevice_proofs WITH hal <- "wifi_probe"

-----------------------------------------------------------------------------
(* Every step of the process is one that the listener's module allows, in  *)
(* which ioctls may sleep and fail at any time, or leaves its state alone. *)
LEMMA ListenerImplemented == Spec => L!Init /\ [][L!Next]_(L!vars)
<1>1. Init => L!Init
  BY DEF Init
<1>2. [Next]_vars => [L!Next]_(L!vars)
  <2> SUFFICES ASSUME [Next]_vars PROVE L!Next \/ UNCHANGED L!vars
    OBVIOUS
  <2> USE DEF listenerVars
  <2>1. CASE ListenCall
    <3>1. ASSUME NEW cb \in Callbacks, L!On(cb) \/ L!Off(cb) PROVE L!Next
      BY <3>1 DEF L!Next, L!Calls
    <3> QED
      BY <2>1, <3>1 DEF ListenCall, L!Next
  <2>2. CASE OpenCall \/ CloseCall \/ Others
    BY <2>2 DEF OpenCall, CloseCall, Others, H!OpenDev, H!OpenFails, H!OpenIoctl,
                H!CloseDev, H!OtherOpen, H!OtherClose, H!EnterOpen, H!serviceVars,
                L!vars, L!processVars, L!binderVars, L!flagVars, L!listenerVars
  <2>3. ASSUME NEW t \in Listeners, Ask(t) \/ AskFails(t) \/ Wakes(t) \/ Loop(t)
        PROVE  L!Next
    BY <2>3 DEF Ask, AskFails, Wakes, Loop, L!Next, L!ListenerStep
  <2>4. ASSUME UNCHANGED vars \/ \E t \in Listeners : Load(t)
        PROVE  UNCHANGED L!vars
    BY <2>4 DEF vars, Load, L!vars, L!processVars, L!binderVars, L!flagVars,
                L!listenerVars
  <2> QED
    BY <2>1, <2>2, <2>3, <2>4 DEF Next
<1> QED
  BY <1>1, <1>2, PTL DEF Spec

(* So is every step for the HAL: what the listeners do to the descriptor   *)
(* leaves it as it is.                                                     *)
LEMMA HalImplemented == Spec => H!Init /\ [][H!Next]_(H!vars)
<1>1. Init => H!Init
  BY DEF Init
<1>2. [Next]_vars => [H!Next]_(H!vars)
  <2> SUFFICES ASSUME [Next]_vars PROVE H!Next \/ UNCHANGED H!vars
    OBVIOUS
  <2>1. CASE OpenCall \/ CloseCall \/ Others
    BY <2>1 DEF OpenCall, CloseCall, Others, H!Next
  <2>2. CASE UNCHANGED <<device, halVars>>
    BY <2>2 DEF halVars, H!vars, H!serviceVars
  <2>3. CASE ListenCall
    BY <2>2, <2>3 DEF ListenCall, L!On, L!Off, L!Enter, L!BinderStep, L!ClearFlag,
                L!Create, L!CreateFails, L!Kill, L!processVars
  <2>4. ASSUME NEW t \in Listeners,
               Load(t) \/ Ask(t) \/ AskFails(t) \/ Wakes(t) \/ Loop(t)
        PROVE  UNCHANGED <<device, halVars>>
    BY <2>4 DEF Load, Ask, AskFails, Wakes, Loop, Entered, L!Ask, L!AskFails,
                L!Get, L!sighandler, L!Test, L!Report, L!Call, L!processVars
  <2>5. CASE UNCHANGED vars
    BY <2>2, <2>5 DEF vars
  <2> QED
    BY <2>1, <2>2, <2>3, <2>4, <2>5 DEF Next
<1> QED
  BY <1>1, <1>2, PTL DEF Spec

-----------------------------------------------------------------------------
(* What the proofs of the components show, of the process.                 *)

LEMMA SameListener ==
  (L!Init => LP!Init) /\ ([L!Next]_(L!vars) => [LP!Next]_(LP!vars))
<1> USE DEF L!processVars, LP!processVars, L!binderVars, LP!binderVars,
            L!flagVars, LP!flagVars, L!listenerVars, LP!listenerVars
<1>1. L!Init => LP!Init
  BY Zenon DEF L!Init, LP!Init, L!Services, LP!Services
<1>2. UNCHANGED L!vars => UNCHANGED LP!vars
  BY Zenon DEF L!vars, LP!vars
<1>3. L!Next => LP!Next
  BY Zenon DEF L!Next, LP!Next, L!Calls, LP!Calls, L!On, LP!On, L!Off, LP!Off,
         L!ReadGesture, LP!ReadGesture, L!OnGesture, LP!OnGesture,
         L!Enter, LP!Enter, L!BinderStep, LP!BinderStep,
         L!ClearFlag, LP!ClearFlag, L!ClearDone, LP!ClearDone,
         L!Create, LP!Create, L!Running, LP!Running,
         L!CreateFails, LP!CreateFails, L!Kill, LP!Kill,
         L!ListenerStep, LP!ListenerStep, L!Test, LP!Test, L!Ask, LP!Ask,
         L!AskFails, LP!AskFails, L!Report, LP!Report, L!Call, LP!Call,
         L!CallNull, LP!CallNull, L!Get, LP!Get, L!sighandler, LP!sighandler,
         L!Awake, LP!Awake, L!Goto, LP!Goto
<1> QED
  BY <1>1, <1>2, <1>3

LEMMA SameHal ==
  (H!Init => HP!Init) /\ ([H!Next]_(H!vars) => [HP!Next]_(HP!vars))
<1> USE DEF H!serviceVars, HP!serviceVars
<1>1. H!Init => HP!Init
  BY Zenon DEF H!Init, HP!Init, H!Hals, HP!Hals, H!OpenHal, HP!OpenHal
<1>2. UNCHANGED H!vars => UNCHANGED HP!vars
  BY Zenon DEF H!vars, HP!vars
<1>3. H!Next => HP!Next
  BY Zenon DEF H!Next, HP!Next, H!OpenDev, HP!OpenDev, H!Opened, HP!Opened,
         H!EnterOpen, HP!EnterOpen, H!Enter, HP!Enter, H!Lowest, HP!Lowest,
         H!Free, HP!Free, H!Target, HP!Target, H!OpenFails, HP!OpenFails,
         H!OpenIoctl, HP!OpenIoctl, H!CloseDev, HP!CloseDev,
         H!EnterClose, HP!EnterClose, H!Outcomes, HP!Outcomes,
         H!Unchanged, HP!Unchanged, H!Command, HP!Command, H!Query, HP!Query,
         H!Pass, HP!Pass, H!OtherOpen, HP!OtherOpen, H!OtherClose, HP!OtherClose
<1> QED
  BY <1>1, <1>2, <1>3

LEMMA ListenerSteps == Spec => LP!Steps
  BY SameListener, ListenerImplemented, PTL DEF LP!Steps

LEMMA HalSteps == Spec => HP!Spec
  BY SameHal, HalImplemented, PTL DEF HP!Spec

(* In the process, too, a stop is never lost, a start listens, and no      *)
(* listener reports more than once after a stop.                           *)
THEOREM ListenersSafe ==
  Spec => [](L!AtMostOneMore /\ L!StopHeard /\ L!StartedListens)
<1>1. LP!ThreadAssumption /\ LP!CallbackAssumption
  BY ServiceAssumption DEF LP!ThreadAssumption, LP!CallbackAssumption
<1>2. LP!AtMostOneMore => L!AtMostOneMore
  BY DEF LP!AtMostOneMore, L!AtMostOneMore
<1>3. LP!StopHeard => L!StopHeard
  BY DEF LP!StopHeard, L!StopHeard, LP!Crashed, L!Crashed, LP!Running, L!Running
<1>4. LP!StartedListens => L!StartedListens
  BY DEF LP!StartedListens, L!StartedListens, LP!Running, L!Running
<1> QED
  BY <1>1, <1>2, <1>3, <1>4, ListenerSteps,
     LP!ReportSteps, LP!StopSteps, LP!StartSteps, PTL

(* In the process, too, orderly clients have the device open exactly while *)
(* they are told so, and close no file of another thread, although the     *)
(* listeners use the descriptor meanwhile.                                 *)
THEOREM DescriptorSafe == Spec => [](H!DescriptorKept /\ H!ForeignKept)
<1>1. HP!DescriptorsAssumption
  BY ServiceAssumption DEF HP!DescriptorsAssumption
<1>2. HP!DescriptorKept => H!DescriptorKept
  BY DEF HP!DescriptorKept, H!DescriptorKept
<1>3. HP!ForeignKept => H!ForeignKept
  BY DEF HP!ForeignKept, H!ForeignKept
<1> QED
  BY <1>1, <1>2, <1>3, HalSteps, HP!DescriptorsKept, HP!ForeignersKept, PTL

-----------------------------------------------------------------------------
(* A listener that has loaded the descriptor since orderly clients were    *)
(* told that the device is open, which they have not closed since, has the *)
(* number of the device.  The clients do not open again before they close, *)
(* so open_dev does not write another number meanwhile.                    *)
SureLoaded ==
  /\ number \in [Listeners -> Int]
  /\ sure \subseteq Listeners
  /\ orderly /\ sure # {} => told = "open"
  /\ orderly => \A t \in sure : number[t] = fd

LEMMA SurePreserved ==
  HP!TypeOK /\ HP!Keeping /\ SureLoaded /\ [Next]_vars => SureLoaded'
<1> SUFFICES ASSUME HP!TypeOK, HP!Keeping, SureLoaded, [Next]_vars
             PROVE  SureLoaded'
  OBVIOUS
<1>0. fd \in Int
  BY ServiceAssumption DEF HP!TypeOK
<1> USE DEF SureLoaded
<1>1. CASE OpenCall
  <2>1. ASSUME orderly' PROVE sure = {}
    <3>1. orderly
      BY <1>1, <2>1 DEF OpenCall, H!OpenDev, H!OpenFails, H!OpenIoctl, H!EnterOpen
    <3>2. told # "open"
      BY <1>1, <2>1, <3>1 DEF OpenCall, H!OpenDev, H!OpenFails, H!OpenIoctl,
             H!EnterOpen, HP!Keeping, HP!Kept
    <3> QED
      BY <3>1, <3>2
  <2> QED
    BY <1>1, <2>1 DEF OpenCall
<1>2. CASE CloseCall
  BY <1>2 DEF CloseCall
<1>3. ASSUME NEW t \in Listeners, Load(t) PROVE SureLoaded'
  BY <1>0, <1>3 DEF Load, halVars
<1>4. ASSUME NEW t \in Listeners, Ask(t) \/ AskFails(t) PROVE SureLoaded'
  BY <1>4 DEF Ask, AskFails, Entered, NotLoaded, halVars
<1>5. CASE ListenCall \/ UNCHANGED vars
  BY <1>5 DEF ListenCall, vars, halVars
<1>6. ASSUME NEW t \in Listeners, Wakes(t) \/ Loop(t) PROVE SureLoaded'
  BY <1>6 DEF Wakes, Loop, halVars
<1>7. CASE Others
  BY <1>7 DEF Others, H!OtherOpen, H!OtherClose
<1> QED
  BY <1>1, <1>2, <1>3, <1>4, <1>5, <1>6, <1>7 DEF Next

(* So its ioctl, however late it comes, goes to the device.                *)
LEMMA SureFindsDevice ==
  ASSUME HP!Keeping, SureLoaded, orderly, NEW t \in sure
  PROVE  Target(t) = "device"
<1>1. told = "open" /\ number[t] = fd
  BY DEF SureLoaded
<1>2. fd \in Descriptors /\ file[fd] = "device"
  BY <1>1 DEF HP!Keeping, HP!Kept, HP!Holding
<1> QED
  BY <1>1, <1>2 DEF Target

(* No listener reports a failed ioctl whose descriptor it has loaded while *)
(* orderly clients were told that the device is open, unless they close it *)
(* between the load and the ioctl: however many listeners there are, and   *)
(* whatever the descriptor's number named before.                          *)
THEOREM FailuresCaused == Spec => FailuresHaveCause
<1>1. /\ HP!DescriptorsAssumption
      /\ LP!ThreadAssumption
      /\ LP!CallbackAssumption
  BY ServiceAssumption
  DEF HP!DescriptorsAssumption, LP!ThreadAssumption, LP!CallbackAssumption
<1>2. LP!TypeOK /\ HP!Keeping /\ SureLoaded /\ [Next]_vars
        => [\A t \in Listeners :
              pc[t] = "get" /\ pc'[t] = "report" => ~(orderly /\ t \in sure)]_vars
  <2> SUFFICES ASSUME LP!TypeOK, HP!Keeping, SureLoaded, Next,
                      NEW t \in Listeners, pc[t] = "get", pc'[t] = "report"
               PROVE  Target(t) # "device"
    BY SureFindsDevice
  <2>1. pc \in [Listeners -> LP!PCs]
    BY DEF LP!TypeOK
  <2>2. pc' # pc
    OBVIOUS
  <2>3. CASE ListenCall
    <3>1. PICK u \in Listeners : pc' = [pc EXCEPT ![u] = "test"]
      BY <2>2, <2>3 DEF ListenCall, L!On, L!Off, L!Enter, L!BinderStep,
             L!ClearFlag, L!Create, L!CreateFails, L!Kill, L!Goto, L!listenerVars
    <3> QED
      BY <2>1, <3>1
  <2>4. ASSUME NEW u \in Listeners, Ask(u) \/ Wakes(u) \/ Loop(u) PROVE FALSE
    BY <2>1, <2>4 DEF Ask, Wakes, Loop, L!Ask, L!Get, L!sighandler, L!Awake,
                      L!Test, L!Report, L!Call, L!Goto
  <2>5. ~(OpenCall \/ CloseCall \/ Others \/ \E u \in Listeners : Load(u))
    BY <2>2 DEF OpenCall, CloseCall, Others, Load, listenerVars
  <2>6. ASSUME NEW u \in Listeners, AskFails(u) PROVE u = t
    BY <2>1, <2>6 DEF AskFails, L!AskFails, L!Goto
  <2> QED
    BY <2>3, <2>4, <2>5, <2>6 DEF Next, AskFails
<1>3. Spec => [](HP!TypeOK /\ HP!Keeping)
  BY <1>1, HalSteps, HP!KeepingInit, HP!KeepingPreserved, HP!TypeCorrect, PTL
  DEF HP!Spec
<1>4. Init => SureLoaded
  BY DEF Init, SureLoaded, NotLoaded
<1>5. Spec => []SureLoaded
  BY <1>3, <1>4, SurePreserved, PTL DEF Spec
<1> QED
  BY <1>1, <1>2, <1>3, <1>5, ListenerSteps, LP!TypeSteps, PTL
  DEF Spec, FailuresHaveCause
=============================================================================
