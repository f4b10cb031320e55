-------------------------- MODULE WifiProbeService --------------------------
(***************************************************************************)
(* The process of the wifi_probe service: its listener threads             *)
(* (HidlListener) ask the device through the descriptor that its binder    *)
(* calls open and close (HalDevice).  One binder thread serves both kinds  *)
(* of calls, one after the other; the listeners and the other threads of   *)
(* the process run on meanwhile.                                           *)
(*                                                                         *)
(* A listener loads the static descriptor and then enters its ioctl, which *)
(* goes to whatever the number it has loaded names by then: the device, a  *)
(* file of another thread, or nothing.  One that sleeps in the device      *)
(* keeps the file, and sleeps on when the descriptor is closed.            *)
(*                                                                         *)
(* The service has found its HAL, and clients give it callbacks that are   *)
(* not null; the other cases are those of the components.                  *)
(***************************************************************************)
EXTENDS Integers

CONSTANTS
  Listeners,
  NoThread,
  Callbacks,
  NoCallback,
  Descriptors

\* Those of the components.
ASSUME ServiceAssumption ==
  /\ NoThread \notin Listeners
  /\ NoCallback \notin Callbacks
  /\ Descriptors \subseteq Nat
  /\ 0 \in Descriptors

VARIABLES
  device,                                         \* shared
  callback, destroyThread, tid, binder, pc,       \* HidlListener
  pending, asked, stale, late,
  file, owned, fd, at, told, orderly, answer,     \* HalDevice
  number,  \* the descriptor a listener has loaded for its ioctl
  caught,  \* history: listeners asleep since before the clients closed
  sure     \* history: listeners that have loaded it since the clients were
           \* told that the device is open, which is not closed since

L == INSTANCE HidlListener WITH service <- "wifi_probe"

H == INSTANCE HalDevice WITH hal <- "wifi_probe"

\* Of each component, what the other does not share.
listenerVars ==
  <<callback, destroyThread, tid, binder, pc, pending, asked, stale, late>>

halVars == <<file, owned, fd, at, told, orderly, answer>>

vars == <<device, listenerVars, halVars, number, caught, sure>>

NotLoaded == -2

Init ==
  /\ device = TRUE
  /\ L!Init
  /\ H!Init
  /\ number = [t \in Listeners |-> NotLoaded]
  /\ caught = {}
  /\ sure = {}

-----------------------------------------------------------------------------
(* The binder thread                                                       *)

(* wifi_probe_get_eint                                                     *)
ListenCall ==
  /\ at = "idle"
  /\ \/ \E cb \in Callbacks : L!On(cb) \/ L!Off(cb)
     \/ L!BinderStep
  /\ UNCHANGED <<halVars, number, caught, sure>>

(* wifi_probe_open                                                         *)
OpenCall ==
  /\ binder = "idle"
  /\ (\E d \in Descriptors : H!OpenDev(d)) \/ H!OpenFails \/ H!OpenIoctl
  /\ UNCHANGED <<listenerVars, number, caught, sure>>

(* wifi_probe_close: no listener is told.                                  *)
CloseCall ==
  /\ binder = "idle"
  /\ H!CloseDev
  /\ caught' = IF told = "closed" THEN caught
                                 ELSE {t \in Listeners : pc[t] = "asleep"}
  /\ sure' = {}
  /\ UNCHANGED <<listenerVars, number>>

-----------------------------------------------------------------------------
(* The listeners                                                           *)

(* get_eint loads fd ...                                                   *)
Load(t) ==
  /\ pc[t] = "get"
  /\ number[t] = NotLoaded
  /\ number' = [number EXCEPT ![t] = fd]
  /\ sure' = IF told = "open" THEN sure \cup {t} ELSE sure
  /\ UNCHANGED <<device, listenerVars, halVars, caught>>

(* What the number names when the ioctl is entered.                        *)
Target(t) == IF number[t] \in Descriptors THEN file[number[t]] ELSE "free"

Entered(t) ==
  /\ number[t] # NotLoaded
  /\ number' = [number EXCEPT ![t] = NotLoaded]
  /\ sure' = sure \ {t}
  /\ UNCHANGED <<halVars, caught>>

(* ... and enters the ioctl: the device puts the listener to sleep ...     *)
Ask(t) ==
  /\ Target(t) = "device"
  /\ L!Ask(t)
  /\ Entered(t)

\* Altered, for the checks: the device refuses a second listener.
AskFailsBusy(t) ==
  /\ Target(t) # "device" \/ \E u \in Listeners : pc[u] = "asleep"
  /\ L!AskFails(t)
  /\ Entered(t)

(* ... and anything else refuses at once.                                  *)
AskFails(t) ==
  /\ Target(t) # "device"
  /\ L!AskFails(t)
  /\ Entered(t)

(* The device has something to tell, or a signal has come.                 *)
Wakes(t) ==
  /\ L!Get(t) \/ L!sighandler(t)
  /\ caught' = caught \ {t}
  /\ UNCHANGED <<halVars, number, sure>>

Loop(t) ==
  /\ L!Test(t) \/ L!Report(t) \/ L!Call(t)
  /\ UNCHANGED <<halVars, number, caught, sure>>

-----------------------------------------------------------------------------
Others ==
  /\ \E d \in Descriptors : H!OtherOpen(d) \/ H!OtherClose(d)
  /\ UNCHANGED <<listenerVars, number, caught, sure>>

Next ==
  \/ ListenCall
  \/ OpenCall
  \/ CloseCall
  \/ \E t \in Listeners :
       Load(t) \/ Ask(t) \/ AskFails(t) \/ Wakes(t) \/ Loop(t)
  \/ Others

(* As in HidlListener: threads run, signals are delivered; the device need *)
(* never tell anything.                                                    *)
Fairness ==
  /\ WF_vars(L!BinderStep /\ ListenCall)
  /\ WF_vars(H!OpenIoctl /\ OpenCall)
  /\ \A t \in Listeners :
       /\ WF_vars(Load(t) \/ Ask(t) \/ AskFails(t) \/ Loop(t))
       /\ WF_vars(L!sighandler(t) /\ Wakes(t))

Spec == Init /\ [][Next]_vars /\ Fairness

-----------------------------------------------------------------------------
(* Properties                                                              *)

(* The ioctl of a listener of orderly clients fails only if they had not   *)
(* been told that the device is open when it loaded the descriptor, or     *)
(* have closed the device since.  The listeners read the descriptor        *)
(* without a lock, its number goes to other files and comes back, several  *)
(* threads sleep in the device at once, and still nobody is told of a      *)
(* failure without such a cause.  (A cause need not last: a listener may   *)
(* enter its ioctl with the old number when the device is open again.)     *)
FailuresHaveCause ==
  [][\A t \in Listeners :
       pc[t] = "get" /\ pc'[t] = "report" => ~(orderly /\ t \in sure)]_vars

(* Orderly clients that stop listening and close the device get rid of all *)
(* listeners but those they have caught asleep: also of one whose signal   *)
(* came between its test of the flag and its ioctl, which would otherwise  *)
(* sleep until the chip has data, and of one that still has the number of  *)
(* an earlier opening.  (As in HidlListener, unless a start fails.)        *)
ClosedReleases ==
  /\ [](asked # "failed" /\ orderly)
  /\ <>[](asked = "off" /\ told = "closed")
  => <>[](\A t \in Listeners : L!Running(t) => pc[t] = "asleep" /\ t \in caught)
=============================================================================
