------------------------ MODULE HidlListener_proofs -------------------------
(***************************************************************************)
(* Proofs about HidlListener, for any number of threads and callbacks.     *)
(***************************************************************************)
EXTENDS HidlListener, TLAPS

(* What may happen, whether or not anything must: all that safety depends  *)
(* on, and all that a process made of this component has to implement.     *)
Steps == Init /\ [][Next]_vars

(* Typing: the variables keep their types, whatever the clients call.      *)
LEMMA TypePreserved == TypeOK /\ [Next]_vars => TypeOK'
<1> SUFFICES ASSUME TypeOK, [Next]_vars PROVE TypeOK'
  OBVIOUS
<1> USE DEF TypeOK, Services, PCs, processVars, binderVars, flagVars, listenerVars
<1>1. CASE Calls
  BY <1>1 DEF Calls, On, Off, ReadGesture, OnGesture, Enter
<1>2. CASE ClearFlag
  <2>1. asked' \in {"none", "on", "off", "failed"}
    BY <1>2 DEF ClearFlag, ClearDone
  <2>2. binder' \in {"idle", "create"}
    BY <1>2 DEF ClearFlag, ClearDone
  <2> QED
    BY <1>2, <2>1, <2>2 DEF ClearFlag
<1>3. ASSUME NEW t \in Listeners, Create(t) PROVE TypeOK'
  BY <1>3 DEF Create, Goto
<1>4. CASE CreateFails
  BY <1>4 DEF CreateFails
<1>5. CASE Kill
  BY <1>5 DEF Kill
<1>6. ASSUME NEW t \in Listeners, Get(t) \/ Ask(t) \/ AskFails(t) PROVE TypeOK'
  BY <1>6 DEF Get, Ask, AskFails, Awake, Goto
<1>7. ASSUME NEW t \in Listeners, Test(t) PROVE TypeOK'
  BY <1>7 DEF Test, Goto
<1>8. ASSUME NEW t \in Listeners, Report(t) PROVE TypeOK'
  BY <1>8 DEF Report, Goto
<1>9. ASSUME NEW t \in Listeners, Call(t) PROVE TypeOK'
  <2>1. late[t] + 1 \in Nat
    OBVIOUS
  <2> QED
    BY <1>9, <2>1 DEF Call, Goto
<1>10. ASSUME NEW t \in Listeners, CallNull(t) PROVE TypeOK'
  BY <1>10 DEF CallNull
<1>11. ASSUME NEW t \in Listeners, sighandler(t) PROVE TypeOK'
  BY <1>11 DEF sighandler, Awake, Goto
<1>12. CASE UNCHANGED vars
  BY <1>12 DEF vars
<1> QED
  BY <1>1, <1>2, <1>3, <1>4, <1>5, <1>6, <1>7, <1>8, <1>9, <1>10, <1>11, <1>12
  DEF Next, BinderStep, ListenerStep

(* The initial states are well typed.                                      *)
LEMMA TypeInitial == Init => TypeOK
<1> SUFFICES ASSUME Init PROVE TypeOK
  OBVIOUS
<1>1. device \in BOOLEAN
  <2>1. CASE service = "gesturewake"
    BY <2>1, Zenon DEF Init
  <2>2. CASE service # "gesturewake"
    BY <2>2, Zenon DEF Init
  <2> QED
    BY <2>1, <2>2
<1>2. pc \in [Listeners -> PCs]
  <2>1. "none" \in PCs
    BY DEF PCs
  <2> QED
    BY <2>1, Zenon DEF Init
<1>3. late \in [Listeners -> Nat]
  <2>1. late = [t \in Listeners |-> 0]
    BY DEF Init
  <2> QED
    BY <2>1
<1> QED
  BY <1>1, <1>2, <1>3, Zenon DEF Init, TypeOK

LEMMA TypeSteps == Steps => []TypeOK
  BY TypeInitial, TypePreserved, PTL DEF Steps

(* The variables of thread_start and of the binder thread keep their       *)
(* types, whatever the clients call.                                       *)
THEOREM TypeCorrect == Spec => []TypeOK
  BY TypeSteps, PTL DEF Spec, Steps

-----------------------------------------------------------------------------
(* A listener that has reported with the flag set has no way left but      *)
(* through the test of the flag.                                           *)
Finishes(t) ==
  /\ late[t] <= 1
  /\ late[t] = 1 => destroyThread /\ pc[t] \in {"test", "none", "crashed"}

Finishing == \A t \in Listeners : Finishes(t)

LEMMA FinishingPreserved ==
  TypeOK /\ Finishing /\ [Next]_vars => Finishing'
<1> SUFFICES ASSUME TypeOK, Finishing, [Next]_vars, NEW u \in Listeners
             PROVE  Finishes(u)'
  BY DEF Finishing
<1>0. /\ Finishes(u)
      /\ late[u] \in Nat
      /\ pc \in [Listeners -> PCs]
      /\ late \in [Listeners -> Nat]
  BY DEF Finishing, TypeOK
<1> USE <1>0 DEF Finishes, processVars, binderVars, flagVars, listenerVars
<1>1. CASE Calls
  BY <1>1 DEF Calls, On, Off, ReadGesture, OnGesture, Enter
<1>2. CASE ClearFlag
  BY <1>2 DEF ClearFlag
<1>3. ASSUME NEW t \in Listeners, Create(t) PROVE Finishes(u)'
  BY <1>3 DEF Create, Goto
<1>4. CASE CreateFails \/ Kill
  BY <1>4 DEF CreateFails, Kill
<1>5. ASSUME NEW t \in Listeners, Get(t) \/ Ask(t) \/ AskFails(t) PROVE Finishes(u)'
  BY <1>5 DEF Get, Ask, AskFails, Awake, Goto
<1>6. ASSUME NEW t \in Listeners, Test(t) PROVE Finishes(u)'
  BY <1>6 DEF Test, Goto
<1>7. ASSUME NEW t \in Listeners, Report(t) PROVE Finishes(u)'
  BY <1>7 DEF Report, Goto
<1>8. ASSUME NEW t \in Listeners, Call(t) PROVE Finishes(u)'
  BY <1>8 DEF Call, Goto
<1>9. ASSUME NEW t \in Listeners, CallNull(t) PROVE Finishes(u)'
  BY <1>9 DEF CallNull
<1>10. ASSUME NEW t \in Listeners, sighandler(t) PROVE Finishes(u)'
  BY <1>10 DEF sighandler, Awake, Goto
<1>11. CASE UNCHANGED vars
  BY <1>11 DEF vars
<1> QED
  BY <1>1, <1>2, <1>3, <1>4, <1>5, <1>6, <1>7, <1>8, <1>9, <1>10, <1>11
  DEF Next, BinderStep, ListenerStep

LEMMA ReportSteps == Steps => []AtMostOneMore
<1>1. ASSUME Init PROVE Finishing
  <2>1. late = [t \in Listeners |-> 0]
    BY <1>1 DEF Init
  <2> SUFFICES ASSUME NEW t \in Listeners PROVE Finishes(t)
    BY DEF Finishing
  <2>2. late[t] = 0
    BY <2>1
  <2> QED
    BY <2>2 DEF Finishes
<1>2. TypeOK /\ Finishing => AtMostOneMore
  BY DEF Finishing, Finishes, AtMostOneMore
<1> QED
  BY <1>1, <1>2, TypeSteps, FinishingPreserved, PTL DEF Steps

(* After a stop no listener reports more than once, however many listeners *)
(* there are and wherever they were when the flag was set.                 *)
THEOREM ReportsBounded == Spec => []AtMostOneMore
  BY ReportSteps, PTL DEF Spec, Steps

-----------------------------------------------------------------------------
(* Between the calls of the binder thread `asked' says what the last one   *)
(* did; while it clears the flag and creates the thread, no signal is new. *)
Asking ==
  /\ binder \in {"clear", "clearonly", "create"} => asked = "none"
  /\ binder = "create" /\ ~stale => pending = {} /\ ~destroyThread
  /\ asked = "on" => tid \in Listeners

LEMMA AskingPreserved == TypeOK /\ Asking /\ [Next]_vars => Asking'
<1> SUFFICES ASSUME TypeOK, Asking, [Next]_vars PROVE Asking'
  OBVIOUS
<1> USE DEF Asking, processVars, binderVars, flagVars, listenerVars
<1>1. CASE Calls
  BY <1>1 DEF Calls, On, Off, ReadGesture, OnGesture, Enter
<1>2. CASE ClearFlag
  BY <1>2 DEF ClearFlag, ClearDone
<1>3. ASSUME NEW t \in Listeners, Create(t) PROVE Asking'
  BY <1>3 DEF Create
<1>4. CASE CreateFails \/ Kill
  BY <1>4 DEF CreateFails, Kill
<1>5. ASSUME NEW t \in Listeners, Get(t) \/ Ask(t) \/ AskFails(t) \/ Report(t) \/ Call(t)
       PROVE  Asking'
  BY <1>5 DEF Get, Ask, AskFails, Report, Call
<1>6. ASSUME NEW t \in Listeners, Test(t) PROVE Asking'
  BY <1>6 DEF Test
<1>7. ASSUME NEW t \in Listeners, CallNull(t) PROVE Asking'
  BY <1>7 DEF CallNull
<1>8. ASSUME NEW t \in Listeners, sighandler(t) PROVE Asking'
  BY <1>8 DEF sighandler
<1>9. CASE UNCHANGED vars
  BY <1>9 DEF vars
<1> QED
  BY <1>1, <1>2, <1>3, <1>4, <1>5, <1>6, <1>7, <1>8, <1>9
  DEF Next, BinderStep, ListenerStep

-----------------------------------------------------------------------------
LEMMA StopHeardPreserved ==
  TypeOK /\ Asking /\ StopHeard /\ [Next]_vars => StopHeard'
<1> SUFFICES ASSUME TypeOK, Asking, StopHeard, [Next]_vars PROVE StopHeard'
  OBVIOUS
<1>0. /\ pc \in [Listeners -> PCs]
      /\ tid \in Listeners \cup {NoThread}
  BY DEF TypeOK
<1> USE <1>0 DEF StopHeard, Running, Crashed, processVars, binderVars, flagVars, listenerVars
<1>1. CASE Calls
  BY <1>1 DEF Calls, On, Off, ReadGesture, OnGesture, Enter
<1>2. CASE ClearFlag
  BY <1>2 DEF ClearFlag, ClearDone, Asking
<1>3. ASSUME NEW t \in Listeners, Create(t) PROVE StopHeard'
  BY <1>3 DEF Create
<1>4. CASE CreateFails
  BY <1>4 DEF CreateFails
<1>5. CASE Kill
  BY <1>5 DEF Kill
<1>6. ASSUME NEW t \in Listeners, Get(t) \/ Ask(t) \/ AskFails(t) PROVE StopHeard'
  BY <1>6 DEF Get, Ask, AskFails, Awake, Goto
<1>7. ASSUME NEW t \in Listeners, Test(t) PROVE StopHeard'
  BY <1>7 DEF Test, Goto
<1>8. ASSUME NEW t \in Listeners, Report(t) \/ Call(t) PROVE StopHeard'
  BY <1>8 DEF Report, Call, Goto
<1>9. ASSUME NEW t \in Listeners, CallNull(t) PROVE StopHeard'
  BY <1>9 DEF CallNull
<1>10. ASSUME NEW t \in Listeners, sighandler(t) PROVE StopHeard'
  BY <1>10 DEF sighandler
<1>11. CASE UNCHANGED vars
  BY <1>11 DEF vars
<1> QED
  BY <1>1, <1>2, <1>3, <1>4, <1>5, <1>6, <1>7, <1>8, <1>9, <1>10, <1>11
  DEF Next, BinderStep, ListenerStep

LEMMA AskingInvariant == Steps => []Asking
<1>1. Init => Asking
  BY DEF Init, Asking
<1> QED
  BY <1>1, TypeSteps, AskingPreserved, PTL DEF Steps

LEMMA StopSteps == Steps => []StopHeard
<1>1. Init => StopHeard
  BY DEF Init, StopHeard
<1> QED
  BY <1>1, TypeSteps, AskingInvariant, StopHeardPreserved, PTL DEF Steps

(* No switching off is lost, for any number of listeners left over from    *)
(* earlier starts.                                                         *)
THEOREM StopsHeard == Spec => []StopHeard
  BY StopSteps, PTL DEF Spec, Steps

-----------------------------------------------------------------------------
LEMMA StartedListensPreserved ==
  TypeOK /\ Asking /\ StartedListens /\ [Next]_vars => StartedListens'
<1> SUFFICES ASSUME TypeOK, Asking, StartedListens, [Next]_vars PROVE StartedListens'
  OBVIOUS
<1>0. pc \in [Listeners -> PCs]
  BY DEF TypeOK
<1> USE <1>0 DEF StartedListens, Running, processVars, binderVars, flagVars, listenerVars
<1>1. CASE Calls
  BY <1>1 DEF Calls, On, Off, ReadGesture, OnGesture, Enter
<1>2. CASE ClearFlag
  BY <1>2 DEF ClearFlag, ClearDone, Asking
<1>3. ASSUME NEW t \in Listeners, Create(t) PROVE StartedListens'
  BY <1>3 DEF Create, Asking, Goto
<1>4. CASE CreateFails
  BY <1>4 DEF CreateFails
<1>5. CASE Kill
  BY <1>5 DEF Kill
<1>6. ASSUME NEW t \in Listeners, Get(t) \/ Ask(t) \/ AskFails(t) PROVE StartedListens'
  BY <1>6 DEF Get, Ask, AskFails, Awake, Goto, Asking
<1>7. ASSUME NEW t \in Listeners, Test(t) PROVE StartedListens'
  BY <1>7 DEF Test, Goto, Asking
<1>8. ASSUME NEW t \in Listeners, Report(t) \/ Call(t) PROVE StartedListens'
  BY <1>8 DEF Report, Call, Goto, Asking
<1>9. ASSUME NEW t \in Listeners, CallNull(t) PROVE StartedListens'
  BY <1>9 DEF CallNull
<1>10. ASSUME NEW t \in Listeners, sighandler(t) PROVE StartedListens'
  BY <1>10 DEF sighandler
<1>11. CASE UNCHANGED vars
  BY <1>11 DEF vars
<1> QED
  BY <1>1, <1>2, <1>3, <1>4, <1>5, <1>6, <1>7, <1>8, <1>9, <1>10, <1>11
  DEF Next, BinderStep, ListenerStep

LEMMA StartSteps == Steps => []StartedListens
<1>1. Init => StartedListens
  BY DEF Init, StartedListens
<1> QED
  BY <1>1, TypeSteps, AskingInvariant, StartedListensPreserved, PTL DEF Steps

(* A start whose clearing of the flag found no signal pending is followed  *)
(* by listening until the next call, for any number of threads left over.  *)
THEOREM StartsListen == Spec => []StartedListens
  BY StartSteps, PTL DEF Spec, Steps

=============================================================================
