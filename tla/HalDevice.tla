------------------------------ MODULE HalDevice ------------------------------
(***************************************************************************)
(* The descriptor that the legacy HALs wifi_probe, talkie and gesturewake  *)
(* keep in a static variable, and the calls of the HIDL services that open,*)
(* close and use it.  The variable starts as 0, is assigned by open_dev    *)
(* only and survives close_dev; the number may meanwhile name another file *)
(* of the process.                                                         *)
(*                                                                         *)
(* The HALs have the same code but for a few lines, which the variable     *)
(* `hal' tells apart: open and close are                                   *)
(*   wifi_probe   wifi_probe_open, wifi_probe_close;                       *)
(*   talkie       talkie_init, talkie_deinit;                              *)
(*   gesturewake  the constructor of the service; it is never closed.      *)
(*                                                                         *)
(* Each service has one binder thread, so the calls come one after the     *)
(* other; the other threads of the process open and close files of their   *)
(* own (a log socket, a library) between any two system calls.             *)
(***************************************************************************)
EXTENDS Integers

CONSTANT Descriptors   \* file descriptors the process may have

ASSUME DescriptorsAssumption == Descriptors \subseteq Nat /\ 0 \in Descriptors

Hals == {"wifi_probe", "talkie", "gesturewake"}

VARIABLES
  hal,       \* which of the HALs
  device,    \* mDevice # NULL
  file,      \* what a descriptor names
  owned,     \* descriptors the other threads hold
  fd,        \* the static variable of the HAL
  at,        \* "ioctl": open_dev has opened and is to call ESP_IOC_OPEN_DEV
  told,      \* history: what the last open or close has told the clients
  orderly,   \* history: an open has never followed an open that succeeded, a
             \* close has always followed an open
  answer     \* what the last call answered

serviceVars == <<hal, device>>

vars == <<serviceVars, file, owned, fd, at, told, orderly, answer>>

-----------------------------------------------------------------------------
TypeOK ==
  /\ hal \in Hals
  /\ device \in BOOLEAN
  /\ file \in [Descriptors -> {"free", "device", "other"}]
  /\ owned \subseteq Descriptors
  /\ fd \in Descriptors \cup {-1}
  /\ at \in {"idle", "ioctl"}
  /\ told \in {"never", "open", "failed", "closed"}
  /\ orderly \in BOOLEAN
  /\ answer \in {"none", "ok", "failed", "data", "unanswered"}

(* A service that serves calls may have found no HAL: no module, or one    *)
(* that does not open.  GestureWake's constructor uses the HAL untested,   *)
(* so without one it does not get that far.                                *)
OpenHal == IF hal = "gesturewake" THEN {TRUE} ELSE BOOLEAN

(* Services are started with descriptor 0 open.                            *)
Init ==
  /\ hal \in Hals
  /\ device \in OpenHal
  /\ file = [d \in Descriptors |-> IF d = 0 THEN "other" ELSE "free"]
  /\ owned = {0}
  /\ fd = 0
  /\ at = "idle"
  /\ told = "never"
  /\ orderly = TRUE
  /\ answer = "none"

Free == {d \in Descriptors : file[d] = "free"}

(* What open(2) returns if it succeeds: the lowest free descriptor.        *)
Lowest == {d \in Free : \A e \in Free : d <= e}

Target == IF fd = -1 THEN "free" ELSE file[fd]

-----------------------------------------------------------------------------
(* The calls that open and close                                           *)

(* A service without its HAL answers -1 and does nothing else.             *)
Enter == device /\ at = "idle"

(* GestureWake opens in its constructor and never again.                   *)
EnterOpen ==
  /\ Enter
  /\ hal = "gesturewake" => told = "never"
  /\ orderly' = (orderly /\ told # "open")
  /\ UNCHANGED <<serviceVars, owned>>

(* open_dev has its descriptor; wifi_probe goes on to the ioctl.           *)
Opened ==
  IF hal = "wifi_probe"
  THEN at' = "ioctl" /\ UNCHANGED <<told, answer>>
  ELSE at' = at /\ told' = "open" /\ answer' = "ok"

\* Altered, for the checks: what fd held is closed first.
OpenDevClosesOld(d) ==
  /\ EnterOpen
  /\ d \in Lowest
  /\ fd' = d
  /\ file' = [e \in Descriptors |->
                IF e = d THEN "device" ELSE IF e = fd THEN "free" ELSE file[e]]
  /\ Opened

(* open_dev assigns the descriptor, whatever it was before.                *)
OpenDev(d) ==
  /\ EnterOpen
  /\ d \in Lowest
  /\ fd' = d
  /\ file' = [file EXCEPT ![d] = "device"]
  /\ Opened

\* Altered, for the checks: fd is set to an error number.
OpenFailsErrno ==
  /\ EnterOpen
  /\ fd' = -2
  /\ told' = "failed"
  /\ answer' = "failed"
  /\ UNCHANGED <<file, at>>

(* There is no device, or no descriptor left.                              *)
OpenFails ==
  /\ EnterOpen
  /\ fd' = -1
  /\ told' = "failed"
  /\ answer' = "failed"
  /\ UNCHANGED <<file, at>>

(* ESP_IOC_OPEN_DEV does not fail on the device.  If it fails, the         *)
(* descriptor is not closed.                                               *)
OpenIoctl ==
  /\ at = "ioctl"
  /\ at' = "idle"
  /\ IF Target = "device"
     THEN told' = "open" /\ answer' = "ok"
     ELSE told' = "failed" /\ answer' = "failed"
  /\ UNCHANGED <<serviceVars, file, owned, fd, orderly>>

EnterClose ==
  /\ Enter
  /\ hal # "gesturewake"
  /\ orderly' = (orderly /\ told \in {"open", "failed"})
  /\ told' = "closed"
  /\ answer' = IF fd = -1 THEN "failed" ELSE "ok"

\* Altered, for the checks: without close(fd).
CloseDevKeeps ==
  /\ EnterClose
  /\ UNCHANGED <<serviceVars, file, owned, fd, at>>

(* close_dev: what its ioctl and close(2) return is not looked at, and fd  *)
(* stays as it is.                                                         *)
CloseDev ==
  /\ EnterClose
  /\ file' = [d \in Descriptors |-> IF d = fd THEN "free" ELSE file[d]]
  /\ UNCHANGED <<serviceVars, owned, fd, at>>

-----------------------------------------------------------------------------
(* The calls that use the descriptor                                       *)

(* An ioctl of the HAL may succeed on the device only: other files do not  *)
(* know the request.                                                       *)
Outcomes == IF Target = "device" THEN {"ok", "failed"} ELSE {"failed"}

Unchanged == UNCHANGED <<serviceVars, file, owned, fd, at, told, orderly>>

(* wifi_probe's commands: 0 if the chip has answered SUCCESS.              *)
Command ==
  /\ hal = "wifi_probe"
  /\ at = "idle"
  /\ answer' \in IF device THEN Outcomes ELSE {"failed"}
  /\ Unchanged

(* wifi_probe_get_version and wifi_probe_get_data pass the message on,     *)
(* whatever came of the ioctl, and without a HAL they do not call _hidl_cb.*)
Query ==
  /\ hal = "wifi_probe"
  /\ at = "idle"
  /\ answer' = IF device THEN "data" ELSE "unanswered"
  /\ Unchanged

(* talkie's calls and startGesture pass on what the ioctl returns.         *)
Pass ==
  /\ hal # "wifi_probe"
  /\ at = "idle"
  /\ answer' \in IF device THEN Outcomes ELSE {"failed"}
  /\ Unchanged

-----------------------------------------------------------------------------
(* The other threads of the process                                        *)

OtherOpen(d) ==
  /\ d \in Lowest
  /\ file' = [file EXCEPT ![d] = "other"]
  /\ owned' = owned \cup {d}
  /\ UNCHANGED <<serviceVars, fd, at, told, orderly, answer>>

(* They close what they hold, whatever it has become.                      *)
OtherClose(d) ==
  /\ d \in owned \ {0}
  /\ file' = [file EXCEPT ![d] = "free"]
  /\ owned' = owned \ {d}
  /\ UNCHANGED <<serviceVars, fd, at, told, orderly, answer>>

-----------------------------------------------------------------------------
Next ==
  \/ \E d \in Descriptors : OpenDev(d) \/ OtherOpen(d) \/ OtherClose(d)
  \/ OpenFails \/ OpenIoctl \/ CloseDev
  \/ Command \/ Query \/ Pass

Spec == Init /\ [][Next]_vars

-----------------------------------------------------------------------------
(* Properties                                                              *)

(* Orderly clients (all of them together) have the device open once while  *)
(* they have been told so, under the number in fd, and not at all          *)
(* otherwise, whatever the other threads open and close, and although fd   *)
(* is neither tested before open_dev nor reset by close_dev.               *)
DescriptorKept ==
  orderly =>
    {d \in Descriptors : file[d] = "device"} =
      IF told = "open" \/ at = "ioctl" THEN {fd} ELSE {}

(* Orderly clients do not make the HAL close a descriptor of another thread*)
(* (nor 0, which fd is before the first open).                             *)
ForeignKept == orderly => \A d \in owned : file[d] = "other"

(* Every call that is declared to generate a result generates one.         *)
ServiceAnswers == answer # "unanswered"
=============================================================================
