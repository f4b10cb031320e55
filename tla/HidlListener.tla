---------------------------- MODULE HidlListener ----------------------------
(***************************************************************************)
(* The listener thread of the HIDL services WifiProbePort, TalkiePort and  *)
(* GestureWake.  A client switches it on and off with binder calls.  The   *)
(* thread loops: it tests destroyThread, asks the device (an ioctl that    *)
(* sleeps until there is something to tell) and reports to the client's    *)
(* callback.  It is switched off by SIGUSR1, whose handler runs in the     *)
(* thread, sets destroyThread and interrupts the ioctl.                    *)
(*                                                                         *)
(* The three services have the same code but for a few lines, which the    *)
(* variable `service' tells apart: on and off are                          *)
(*   wifi_probe   wifi_probe_get_eint(true, cb), (false, cb);              *)
(*   talkie       talkie_speak_enable(cb), talkie_speak_disable or         *)
(*                talkie_app_exit;                                         *)
(*   gesturewake  startGesture(true), startGesture(false), with            *)
(*                readGesture(cb) apart.                                   *)
(*                                                                         *)
(* Each service has one binder thread (configureRpcThreadpool(1, true)), so*)
(* the calls of all clients come one after the other.  Nobody joins the    *)
(* listener threads, so no pthread_t of an ended thread comes back.        *)
(***************************************************************************)
EXTENDS Naturals

CONSTANTS
  Listeners,   \* listener threads; one that has ended stands for a new one
  NoThread,    \* the value of tid before the first pthread_create
  Callbacks,   \* callbacks of clients
  NoCallback   \* nullptr

ASSUME ThreadAssumption == NoThread \notin Listeners

ASSUME CallbackAssumption == NoCallback \notin Callbacks

Services == {"wifi_probe", "talkie", "gesturewake"}

VARIABLES
  service,        \* which of the services
  device,         \* mDevice # NULL
  callback,       \* mWifiProbeCallback, mTalkiePortCallback, mGestureWakeCallback
  destroyThread,
  tid,            \* the thread created last
  binder,         \* where the binder thread is in its call
  pc,             \* where a listener is in thread_start
  pending,        \* listeners with a SIGUSR1 not yet delivered
  asked,          \* history: what the last call asked for and did, or "none"
  stale,          \* history: a signal was pending when the flag was cleared
  late            \* history: reports of a listener since the flag was set

processVars == <<service, device>>

binderVars == <<callback, tid, binder, asked>>

flagVars == <<destroyThread, stale>>

listenerVars == <<pc, pending, late>>

vars == <<processVars, binderVars, flagVars, listenerVars>>

PCs == {"none", "test", "get", "asleep", "report", "call", "crashed"}

TypeOK ==
  /\ service \in Services
  /\ device \in BOOLEAN
  /\ callback \in Callbacks \cup {NoCallback}
  /\ destroyThread \in BOOLEAN
  /\ tid \in Listeners \cup {NoThread}
  /\ binder \in {"idle", "clear", "clearonly", "create", "kill", "crashed"}
  /\ pc \in [Listeners -> PCs]
  /\ pending \subseteq Listeners
  /\ asked \in {"none", "on", "off", "failed"}
  /\ stale \in BOOLEAN
  /\ late \in [Listeners -> Nat]

(* openHal may find no device; GestureWake uses it at once and would not   *)
(* come up without.                                                        *)
Init ==
  /\ service \in Services
  /\ device \in (IF service = "gesturewake" THEN {TRUE} ELSE BOOLEAN)
  /\ callback = NoCallback
  /\ destroyThread = FALSE
  /\ tid = NoThread
  /\ binder = "idle"
  /\ pc = [t \in Listeners |-> "none"]
  /\ pending = {}
  /\ asked = "none"
  /\ stale = FALSE
  /\ late = [t \in Listeners |-> 0]

Running(t) == pc[t] # "none"

Goto(t, label) == pc' = [pc EXCEPT ![t] = label]

-----------------------------------------------------------------------------
(* The binder thread                                                       *)

Enter(step, cb) ==
  /\ binder = "idle"
  /\ binder' = step
  /\ callback' = cb
  /\ asked' = "none"
  /\ UNCHANGED <<processVars, flagVars, listenerVars, tid>>

(* wifi_probe_get_eint(true, cb), talkie_speak_enable(cb): not even the    *)
(* device is tested.                                                       *)
On(cb) == service # "gesturewake" /\ Enter("clear", cb)

(* startGesture(true): the driver may refuse; the flag is cleared even so. *)
OnGesture(ok) ==
  service = "gesturewake" /\ Enter(IF ok THEN "clear" ELSE "clearonly", callback)

(* wifi_probe_get_eint(false, cb) replaces the callback.  The others leave *)
(* it, and talkie gives up without a device.                               *)
Off(cb) ==
  /\ service # "wifi_probe" => cb = callback
  /\ service = "talkie" => device
  /\ Enter("kill", cb)

ReadGesture(cb) ==
  /\ service = "gesturewake"
  /\ binder = "idle"
  /\ callback' = cb
  /\ UNCHANGED <<processVars, flagVars, listenerVars, tid, binder, asked>>

ClearDone ==
  IF binder = "clear" THEN binder' = "create" /\ UNCHANGED asked
                      ELSE binder' = "idle" /\ asked' = "failed"

\* Altered, for the checks: without `destroyThread = false'.
ClearFlagNot ==
  /\ binder \in {"clear", "clearonly"}
  /\ stale' = (pending # {})
  /\ ClearDone
  /\ UNCHANGED <<processVars, callback, tid, destroyThread, pc, pending, late>>

ClearFlag ==
  /\ binder \in {"clear", "clearonly"}
  /\ destroyThread' = FALSE
  /\ stale' = (pending # {})
  /\ late' = [t \in Listeners |-> 0]
  /\ ClearDone
  /\ UNCHANGED <<processVars, callback, tid, pc, pending>>

Create(t) ==
  /\ binder = "create"
  /\ ~Running(t)
  /\ tid' = t
  /\ Goto(t, "test")
  /\ late' = [late EXCEPT ![t] = 0]
  /\ binder' = "idle"
  /\ asked' = "on"
  /\ UNCHANGED <<processVars, flagVars, callback, pending>>

(* pthread_create may fail, and nothing looks at its result.               *)
CreateFails ==
  /\ binder = "create"
  /\ binder' = "idle"
  /\ asked' = "failed"
  /\ UNCHANGED <<processVars, flagVars, listenerVars, callback, tid>>

\* Altered, for the checks: the signal is sent to a sleeping thread only.
KillIfAsleep ==
  /\ binder = "kill"
  /\ pending' = pending \cup {t \in Listeners : t = tid /\ pc[t] = "asleep"}
  /\ binder' = "idle"
  /\ asked' = "off"
  /\ UNCHANGED <<processVars, flagVars, callback, tid, pc, late>>

\* Altered, for the checks: also to the thread that was never created.
KillNoThread ==
  /\ binder = "kill"
  /\ pending' = pending \cup {tid}
  /\ binder' = "idle"
  /\ asked' = "off"
  /\ UNCHANGED <<processVars, flagVars, callback, tid, pc, late>>

(* pthread_kill: to no thread, or one that has ended, it does nothing.     *)
Kill ==
  /\ binder = "kill"
  /\ pending' = pending \cup {t \in Listeners : t = tid /\ Running(t)}
  /\ binder' = "idle"
  /\ asked' = "off"
  /\ UNCHANGED <<processVars, flagVars, callback, tid, pc, late>>

-----------------------------------------------------------------------------
(* The listeners: thread_start                                             *)

\* Altered, for the checks: a loop that ends only without a callback.
TestCallbackToo(t) ==
  /\ pc[t] = "test"
  /\ IF destroyThread /\ callback = NoCallback
     THEN Goto(t, "none") /\ pending' = pending \ {t}
     ELSE Goto(t, IF device THEN "get" ELSE "report") /\ UNCHANGED pending
  /\ UNCHANGED <<processVars, binderVars, flagVars, late>>

(* while (!destroyThread); without a device there is nothing to ask.       *)
Test(t) ==
  /\ pc[t] = "test"
  /\ IF destroyThread
     THEN Goto(t, "none") /\ pending' = pending \ {t}
     ELSE Goto(t, IF device THEN "get" ELSE "report") /\ UNCHANGED pending
  /\ UNCHANGED <<processVars, binderVars, flagVars, late>>

(* The ioctl sleeps ...                                                    *)
Ask(t) ==
  /\ pc[t] = "get"
  /\ Goto(t, "asleep")
  /\ UNCHANGED <<processVars, binderVars, flagVars, pending, late>>

(* ... or fails at once, which all but gesturewake report.                 *)
AskFails(t) ==
  /\ pc[t] = "get"
  /\ Goto(t, IF service = "gesturewake" THEN "test" ELSE "report")
  /\ UNCHANGED <<processVars, binderVars, flagVars, pending, late>>

(* The ioctl is over.                                                      *)
Awake(t) ==
  /\ pc[t] = "asleep"
  /\ \/ Goto(t, "report")
     \/ service = "gesturewake" /\ Goto(t, "test")

(* There is something to tell.  A signal that came meanwhile is delivered  *)
(* before the thread goes on.                                              *)
Get(t) ==
  /\ t \notin pending
  /\ Awake(t)
  /\ UNCHANGED <<processVars, binderVars, flagVars, pending, late>>

(* if (callback != nullptr) ...                                            *)
Report(t) ==
  /\ pc[t] = "report"
  /\ Goto(t, IF callback # NoCallback THEN "call" ELSE "test")
  /\ UNCHANGED <<processVars, binderVars, flagVars, pending, late>>

(* ... callback->reportResults(): the pointer is read again ...            *)
Call(t) ==
  /\ pc[t] = "call"
  /\ callback # NoCallback
  /\ Goto(t, "test")
  /\ late' = [late EXCEPT ![t] = IF destroyThread THEN @ + 1 ELSE @]
  /\ UNCHANGED <<processVars, binderVars, flagVars, pending>>

(* ... and if it is null now, that is the end of the process.              *)
CallNull(t) ==
  /\ pc[t] = "call"
  /\ callback = NoCallback
  /\ pc' = [u \in Listeners |-> "crashed"]
  /\ binder' = "crashed"
  /\ pending' = {}
  /\ UNCHANGED <<processVars, callback, tid, asked, flagVars, late>>

\* Altered, for the checks: the handler leaves the ioctl to sleep on.
HandlerRestarts(t) ==
  /\ t \in pending
  /\ pending' = pending \ {t}
  /\ destroyThread' = TRUE
  /\ UNCHANGED <<processVars, binderVars, stale, pc, late>>

(* SIGUSR1 is delivered: sighandler sets the flag.  An ioctl that sleeps   *)
(* in the ESP driver then returns as if there were something to tell; the  *)
(* other drivers (which are external) may also have it restarted.  A       *)
(* thread that is still on its way to the ioctl goes to sleep in it.       *)
sighandler(t) ==
  /\ t \in pending
  /\ pending' = pending \ {t}
  /\ destroyThread' = TRUE
  /\ \/ Awake(t)
     \/ (pc[t] = "asleep" => service # "wifi_probe") /\ UNCHANGED pc
  /\ UNCHANGED <<processVars, binderVars, stale, late>>

-----------------------------------------------------------------------------
Calls ==
  \/ \E cb \in Callbacks \cup {NoCallback} : On(cb) \/ Off(cb) \/ ReadGesture(cb)
  \/ \E ok \in BOOLEAN : OnGesture(ok)

BinderStep == ClearFlag \/ (\E t \in Listeners : Create(t)) \/ CreateFails \/ Kill

ListenerStep(t) ==
  Test(t) \/ Ask(t) \/ AskFails(t) \/ Report(t) \/ Call(t) \/ CallNull(t)

Next ==
  \/ Calls
  \/ BinderStep
  \/ \E t \in Listeners : Get(t) \/ ListenerStep(t) \/ sighandler(t)

(* Threads that can run do, and signals are delivered.  Nothing is assumed *)
(* of the clients, nor that a device ever has something to tell.           *)
Fairness ==
  /\ WF_vars(BinderStep)
  /\ \A t \in Listeners : WF_vars(ListenerStep(t)) /\ WF_vars(sighandler(t))

Spec == Init /\ [][Next]_vars /\ Fairness

-----------------------------------------------------------------------------
(* Properties                                                              *)

Crashed == binder = "crashed"

(* Once the flag is set no listener reports more than once, wherever it    *)
(* was: in the ioctl, on its way to it, or about to report.                *)
AtMostOneMore == \A t \in Listeners : late[t] <= 1

(* No switching off is lost: as long as the thread it was for is still     *)
(* there, the signal is on its way to it or has set the flag, wherever the *)
(* thread was and whatever older threads do.                               *)
StopHeard ==
  asked = "off" /\ tid # NoThread /\ ~Crashed =>
    ~Running(tid) \/ tid \in pending \/ destroyThread

(* Switched on, the thread listens, provided that the signal of an earlier *)
(* switching off was delivered before the flag was cleared.  Otherwise the *)
(* old thread's handler sets it again and ends the new thread too.         *)
StartedListens ==
  asked = "on" /\ binder = "idle" /\ ~stale =>
    /\ Running(tid)
    /\ ~destroyThread
    /\ pending = {}

(* What the test of the callback in thread_start is for, and does not      *)
(* achieve: the binder thread may replace the callback after the test.     *)
NeverCallsNull == ~Crashed

(* A listener of wifi_probe that is asleep when the signal comes ends,     *)
(* whatever the chip does, unless the service is called again (or has      *)
(* crashed).                                                               *)
InterruptedEnds ==
  \A t \in Listeners :
    service = "wifi_probe" /\ asked = "off" /\ pc[t] = "asleep" /\ t \in pending
      ~> ~Running(t) \/ asked # "off" \/ Crashed

(* If the device always has something to tell sooner or later, all         *)
(* listeners end after the last call has switched them off, those too that *)
(* a start soon after a stop has left without anyone to signal them: unless*)
(* a start has failed, which clears the flag and brings no thread to       *)
(* signal.                                                                 *)
AllEnd ==
  /\ \A t \in Listeners : []<>(pc[t] # "asleep")
  /\ [](asked # "failed")
  /\ <>[](asked = "off")
  => <>[](Crashed \/ \A t \in Listeners : ~Running(t))
=============================================================================
