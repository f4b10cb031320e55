------------------------ MODULE SecurityPower_proofs ------------------------
(***************************************************************************)
(* Proofs about the pins of the chip, for any number of threads in the     *)
(* power ioctls.                                                           *)
(*                                                                         *)
(* What a thread is in the middle of is a suffix of its sequence of calls  *)
(* and a suffix of the pins of the current one.  The invariants say which  *)
(* selections of pin states are still ahead of some thread.                *)
(***************************************************************************)
EXTENDS SecurityPower, SequenceTheorems, TLAPS

Suffix(s, r) ==
  /\ Len(s) <= Len(r)
  /\ \A i \in 1 .. Len(s) : s[i] = r[Len(r) - Len(s) + i]

Among(p, s) == \E i \in 1 .. Len(s) : s[i] = p

(* All the calls of a thread that is doing this.                           *)
Script(what) ==
  IF what = "none" THEN <<>>
  ELSE IF what = "PROBE" THEN <<Set("spi", 1)>>
  ELSE Calls(what)

(* A thread is somewhere in its script, and somewhere in the pins of the   *)
(* call it has entered.                                                    *)
Progress ==
  \A t \in Threads :
    /\ op[t] \in IF t = SpiProbe THEN {"none", "PROBE"} ELSE {"none", "OPEN", "CLOSE"}
    /\ Suffix(todo[t], Script(op[t]))
    /\ pins[t] # <<>> => /\ todo[t] # <<>>
                         /\ Suffix(pins[t], PinsOf(todo[t][1].group))

(* The lookups are over after one that failed, and not before the last.    *)
LookupsInOrder ==
  /\ \A s \in PinStates : found[s] = "err" => next = 0
  /\ next # 0 => found[<<"eint", 0>>] = "null"

(* There is no ioctl before the SPI probe is past the pins.                *)
ProbeFirst ==
  /\ spi # "going" => Quiet
  /\ spi # "going" \/ op[SpiProbe] # "none" =>
       want = "none" /\ \A c \in Callers : op[c] = "none"

(* The thread has yet to switch the pin to v.                              *)
Ahead(t, p, v) ==
  \E i \in 1 .. Len(todo[t]) :
    /\ todo[t][i].cmd = v
    /\ Among(p, IF i = 1 /\ pins[t] # <<>> THEN pins[t] ELSE PinsOf(todo[t][i].group))

(* The pin is switched to v, or will be.                                   *)
Heading(p, v) == level[p] = v \/ \E t \in Threads : Ahead(t, p, v)

(* A GPIO of the SPI pins is owed back by some thread, unless its pin      *)
(* state was not found.                                                    *)
BusOwed ==
  \/ \E s \in PinStates : found[s] = "err"
  \/ \A p \in {"clk", "cs", "mi", "mo"} : level[p] = Boot \/ Heading(p, 1)

(* While the ioctls in flight agree, what they ask for is reached or still *)
(* ahead of one of them.                                                   *)
Agreed ==
  /\ want \in {"OPEN", "CLOSE"} => AllFound /\ \A t \in Threads : op[t] \in {"none", want}
  /\ want = "OPEN" => \A p \in Pins : Heading(p, 1)
  /\ want = "CLOSE" => Heading("down", 0) /\ Heading("reset", 0)

(* How far an undisturbed OPEN has come shows in the levels of the pins.   *)
Alone(c) == op[c] = "OPEN" /\ ~disturbed[c]

OpenAlone ==
  \A c \in Callers : Alone(c) =>
    /\ AllFound
    /\ \A t \in Threads \ {c} : op[t] = "none"
    /\ Len(todo[c]) < 5 => level["down"] = 1
    /\ Len(todo[c]) = 3 /\ pins[c] # <<>> =>
         \A p \in {"clk", "cs", "mi", "mo"} : Among(p, pins[c]) \/ level[p] = 0
    /\ Len(todo[c]) = 2 => \A p \in {"clk", "cs", "mi", "mo"} : level[p] = 0

Inv ==
  /\ TypeOK
  /\ Progress
  /\ LookupsInOrder
  /\ ProbeFirst
  /\ BusOwed
  /\ Agreed
  /\ OpenAlone

-----------------------------------------------------------------------------
(* Sequences                                                               *)

LEMMA SuffixTail ==
  ASSUME NEW X, NEW s \in Seq(X), NEW r \in Seq(X), s # <<>>, Suffix(s, r)
  PROVE  Tail(s) \in Seq(X) /\ Suffix(Tail(s), r)
BY DEF Suffix

LEMMA SuffixStart ==
  ASSUME NEW X, NEW s \in Seq(X), NEW r \in Seq(X), s # <<>>, Suffix(s, r)
  PROVE  /\ Len(s) \in 1 .. Len(r)
         /\ \A i \in 1 .. Len(s) : s[i] = r[Len(r) - Len(s) + i]
         /\ s[1] = r[Len(r) - Len(s) + 1]
BY EmptySeq DEF Suffix

LEMMA SmallLengths ==
  ASSUME NEW n, NEW m \in {4, 5}, n \in 1 .. m
  PROVE  /\ m = 4 => 4 - n + 1 \in {1, 2, 3, 4}
         /\ m = 5 /\ n # 5 => n < 5
OBVIOUS

LEMMA TailOfOne ==
  ASSUME NEW X, NEW s \in Seq(X), Len(s) = 1
  PROVE  Tail(s) = <<>>
<1>1. s # <<>>
  OBVIOUS
<1>2. Tail(s) \in Seq(X) /\ Len(Tail(s)) = 0
  BY <1>1
<1> QED
  BY <1>2, EmptySeq

LEMMA SuffixItself ==
  ASSUME NEW X, NEW s \in Seq(X)
  PROVE  Suffix(s, s)
BY DEF Suffix

CallType == [group : {"down", "reset", "spi"}, cmd : {0, 1}]

(* What the calls are, one by one.                                         *)
LEMMA CallsAre ==
  /\ Calls("OPEN") \in Seq(CallType) /\ Len(Calls("OPEN")) = 5
  /\ Calls("OPEN")[1] = Set("down", 1)
  /\ Calls("OPEN")[2] = Set("reset", 0)
  /\ Calls("OPEN")[3] = Set("spi", 0)
  /\ Calls("OPEN")[4] = Set("reset", 1)
  /\ Calls("OPEN")[5] = Set("spi", 1)
  /\ Calls("CLOSE") \in Seq(CallType) /\ Len(Calls("CLOSE")) = 2
  /\ Calls("CLOSE")[1] = Set("down", 0)
  /\ Calls("CLOSE")[2] = Set("reset", 0)
<1>1. \A g \in {"down", "reset", "spi"}, v \in {0, 1} : Set(g, v) \in CallType
  BY DEF Set, CallType
<1> QED
  BY <1>1 DEF Calls

LEMMA PinsAre ==
  /\ PinsOf("spi") \in Seq(Pins) /\ Len(PinsOf("spi")) = 4
  /\ PinsOf("spi")[1] = "clk" /\ PinsOf("spi")[2] = "cs"
  /\ PinsOf("spi")[3] = "mi" /\ PinsOf("spi")[4] = "mo"
  /\ \A g \in {"down", "reset"} :
       PinsOf(g) \in Seq(Pins) /\ Len(PinsOf(g)) = 1 /\ PinsOf(g)[1] = g
BY DEF PinsOf, SpiPins, Pins

LEMMA ScriptsAre ==
  ASSUME NEW what \in {"none", "PROBE", "OPEN", "CLOSE"}
  PROVE  Script(what) \in Seq(CallType)
<1>1. Set("spi", 1) \in CallType
  BY DEF Set, CallType
<1> QED
  BY <1>1, CallsAre DEF Script

-----------------------------------------------------------------------------
LEMMA TypeInit == Init => TypeOK
<1> SUFFICES ASSUME Init PROVE TypeOK
  OBVIOUS
<1>1. plat \in BOOLEAN /\ disturbed \in [Callers -> BOOLEAN]
  BY Zenon DEF Init
<1>2. next \in 0 .. Len(Lookups)
  BY DEF Init, Lookups
<1>3. /\ todo \in [Threads -> Seq([group : {"down", "reset", "spi"}, cmd : {0, 1}])]
      /\ pins \in [Threads -> Seq(Pins)]
  BY DEF Init
<1>4. /\ found \in [PinStates -> {"null", "ok", "err"}]
      /\ spi \in {"start", "asleep", "going"}
      /\ op \in [Threads -> {"none", "PROBE", "OPEN", "CLOSE"}]
      /\ level \in [Pins -> {0, 1, Boot}]
      /\ oops \subseteq Threads
      /\ want \in {"none", "OPEN", "CLOSE", "mixed"}
  BY DEF Init
<1> QED
  BY <1>1, <1>2, <1>3, <1>4, Zenon DEF TypeOK

(* The current call of a thread that has calls to finish.                  *)
LEMMA HeadCall ==
  ASSUME TypeOK, NEW t \in Threads, todo[t] # <<>>
  PROVE  /\ todo[t] \in Seq(CallType)
         /\ Len(todo[t]) \in Nat \ {0}
         /\ Head(todo[t]) = todo[t][1]
         /\ todo[t][1] \in CallType
<1>1. todo[t] \in Seq(CallType)
  BY DEF TypeOK, CallType
<1> QED
  BY <1>1

(* The step that PinDone makes of one thread's calls and pins.             *)
LEMMA PinDoneType ==
  ASSUME TypeOK, NEW t \in Threads, pins[t] # <<>>, todo[t] # <<>>, PinDone(t)
  PROVE  /\ todo' \in [Threads -> Seq(CallType)]
         /\ pins' \in [Threads -> Seq(Pins)]
<1>1. todo[t] \in Seq(CallType) /\ pins[t] \in Seq(Pins)
  BY DEF TypeOK, CallType
<1>2. Tail(todo[t]) \in Seq(CallType) /\ Tail(pins[t]) \in Seq(Pins)
  BY <1>1
<1> QED
  BY <1>2 DEF PinDone, TypeOK, CallType

LEMMA TypeStep == TypeOK /\ Progress /\ [Next]_vars => TypeOK'
<1> SUFFICES ASSUME TypeOK, Progress, [Next]_vars PROVE TypeOK'
  OBVIOUS
<1> USE DEF deviceVars, callVars, historyVars
<1>1. CASE PlatProbe
  <2>1. plat' \in BOOLEAN
    BY <1>1, Zenon DEF PlatProbe
  <2> QED
    BY <1>1, <2>1 DEF PlatProbe, TypeOK
<1>2. ASSUME NEW result \in {"ok", "err"}, Lookup(result)
      PROVE  TypeOK'
  <2>1. Len(Lookups) = 14
    BY DEF Lookups
  <2>2. next' \in 0 .. Len(Lookups)
    BY <1>2, <2>1 DEF Lookup, TypeOK
  <2>3. found' \in [PinStates -> {"null", "ok", "err"}]
    BY <1>2 DEF Lookup, TypeOK
  <2> QED
    BY <1>2, <2>2, <2>3 DEF Lookup, TypeOK
<1>3. CASE GoOn
  <2>1. <<Set("spi", 1)>> \in Seq([group : {"down", "reset", "spi"}, cmd : {0, 1}])
    BY DEF Set
  <2> QED
    BY <1>3, <2>1 DEF GoOn, TypeOK
<1>4. CASE WaitForPlat
  BY <1>4 DEF WaitForPlat, TypeOK
<1>5. ASSUME NEW t \in Threads, Enter(t)
      PROVE  TypeOK'
  <2>1. todo[t] \in Seq(CallType) /\ todo[t] # <<>>
    BY <1>5 DEF Enter, TypeOK, CallType
  <2>2. Tail(todo[t]) \in Seq(CallType) /\ Head(todo[t]) \in CallType
    BY <2>1
  <2>3. PinsOf(Head(todo[t]).group) \in Seq(Pins)
    BY <2>2, PinsAre DEF CallType
  <2>4. todo' \in [Threads -> Seq([group : {"down", "reset", "spi"}, cmd : {0, 1}])]
    BY <1>5, <2>2 DEF Enter, TypeOK, CallType
  <2>5. pins' \in [Threads -> Seq(Pins)]
    BY <1>5, <2>3 DEF Enter, TypeOK
  <2> QED
    BY <1>5, <2>4, <2>5 DEF Enter, TypeOK
<1>6. ASSUME NEW t \in Threads, Select(t) \/ SelectNull(t)
      PROVE  TypeOK'
  <2>1. pins[t] # <<>> /\ todo[t] # <<>> /\ PinDone(t)
    BY <1>6 DEF Select, SelectNull, Progress
  <2>2. /\ todo' \in [Threads -> Seq([group : {"down", "reset", "spi"}, cmd : {0, 1}])]
        /\ pins' \in [Threads -> Seq(Pins)]
    BY <2>1, PinDoneType DEF CallType
  <2>3. Head(todo[t]).cmd \in {0, 1}
    BY <2>1, HeadCall DEF CallType
  <2>4. level' \in [Pins -> {0, 1, Boot}]
    BY <1>6, <2>3 DEF Select, SelectNull, Wanted, TypeOK
  <2> QED
    BY <1>6, <2>2, <2>4 DEF Select, SelectNull, TypeOK
<1>7. ASSUME NEW t \in Threads, SelectMissing(t)
      PROVE  TypeOK'
  BY <1>7 DEF SelectMissing, TypeOK
<1>8. ASSUME NEW t \in Threads, Return(t)
      PROVE  TypeOK'
  <2>1. disturbed' \in [Callers -> BOOLEAN]
    BY <1>8, Zenon DEF Return
  <2> QED
    BY <1>8, <2>1 DEF Return, TypeOK
<1>9. ASSUME NEW c \in Callers, NEW which \in {"OPEN", "CLOSE"}, Ioctl(c, which)
      PROVE  TypeOK'
  <2>1. disturbed' \in [Callers -> BOOLEAN]
    BY <1>9, Zenon DEF Ioctl
  <2>2. todo' \in [Threads -> Seq([group : {"down", "reset", "spi"}, cmd : {0, 1}])]
    BY <1>9, CallsAre DEF Ioctl, TypeOK, CallType
  <2> QED
    BY <1>9, <2>1, <2>2 DEF Ioctl, TypeOK
<1>10. CASE UNCHANGED vars
  BY <1>10 DEF vars, TypeOK
<1> QED
  BY <1>1, <1>2, <1>3, <1>4, <1>5, <1>6, <1>7, <1>8, <1>9, <1>10
  DEF Next, ProbeStep, ThreadStep, PlatSeen, WaitTimeout

-----------------------------------------------------------------------------
(* Progress                                                                *)

LEMMA ProgressInit == Init => Progress
BY DEF Init, Progress, Suffix, Script

(* A pin that is done leaves the thread in its script.                     *)
LEMMA PinDoneProgress ==
  ASSUME TypeOK, Progress, NEW t \in Threads, pins[t] # <<>>, PinDone(t),
         UNCHANGED op
  PROVE  Progress'
<1>1. todo[t] # <<>>
  BY DEF Progress
<1>2. /\ todo[t] \in Seq(CallType) /\ pins[t] \in Seq(Pins)
      /\ todo[t][1] \in CallType /\ Script(op[t]) \in Seq(CallType)
  BY <1>1, HeadCall, ScriptsAre DEF TypeOK
<1>3. PinsOf(todo[t][1].group) \in Seq(Pins)
  BY <1>2, PinsAre DEF CallType
<1>4. Suffix(Tail(todo[t]), Script(op[t]))
  BY <1>1, <1>2, SuffixTail DEF Progress
<1>5. Suffix(Tail(pins[t]), PinsOf(todo[t][1].group))
  BY <1>2, <1>3, SuffixTail DEF Progress
<1>6. Len(pins[t]) = 1 => Tail(pins[t]) = <<>>
  BY <1>2, TailOfOne
<1>7. \A u \in Threads \ {t} : todo'[u] = todo[u] /\ pins'[u] = pins[u]
  BY DEF PinDone, TypeOK
<1>8. /\ pins'[t] = Tail(pins[t])
      /\ todo'[t] = IF Len(pins[t]) = 1 THEN Tail(todo[t]) ELSE todo[t]
  BY DEF PinDone, TypeOK
<1>9. \A u \in Threads \ {t} :
        /\ op'[u] \in IF u = SpiProbe THEN {"none", "PROBE"} ELSE {"none", "OPEN", "CLOSE"}
        /\ Suffix(todo'[u], Script(op'[u]))
        /\ pins'[u] # <<>> => /\ todo'[u] # <<>>
                              /\ Suffix(pins'[u], PinsOf(todo'[u][1].group))
  BY <1>7 DEF Progress
<1>10. /\ op'[t] \in IF t = SpiProbe THEN {"none", "PROBE"} ELSE {"none", "OPEN", "CLOSE"}
       /\ Suffix(todo'[t], Script(op'[t]))
       /\ pins'[t] # <<>> => /\ todo'[t] # <<>>
                             /\ Suffix(pins'[t], PinsOf(todo'[t][1].group))
  BY <1>1, <1>4, <1>5, <1>6, <1>8 DEF Progress
<1> QED
  BY <1>9, <1>10 DEF Progress

LEMMA ProgressStep == TypeOK /\ ProbeFirst /\ Progress /\ [Next]_vars => Progress'
<1> SUFFICES ASSUME TypeOK, ProbeFirst, Progress, [Next]_vars PROVE Progress'
  OBVIOUS
<1> USE DEF deviceVars, callVars, historyVars
<1>1. CASE UNCHANGED <<op, todo, pins>>
  BY <1>1 DEF Progress
<1>2. CASE GoOn /\ spi # "going"
  <2>1. \A t \in Threads : op[t] = "none"
    BY <1>2 DEF ProbeFirst, Quiet
  <2>2. SpiProbe \in Threads
    BY DEF Threads
  <2>3. todo[SpiProbe] = <<>> /\ pins[SpiProbe] = <<>>
    BY <2>1, <2>2 DEF Progress, TypeOK, Script, Suffix
  <2>4. Script("PROBE") = <<Set("spi", 1)>> /\ Script("PROBE") \in Seq(CallType)
    BY ScriptsAre DEF Script
  <2> QED
    BY <1>2, <2>2, <2>3, <2>4, SuffixItself DEF GoOn, Progress, TypeOK
<1>3. ASSUME NEW t \in Threads, Enter(t)
      PROVE  Progress'
  <2>1. /\ todo[t] # <<>> /\ todo[t] \in Seq(CallType)
        /\ Head(todo[t]) = todo[t][1] /\ todo[t][1] \in CallType
        /\ Script(op[t]) \in Seq(CallType)
    BY <1>3, HeadCall, ScriptsAre DEF Enter, TypeOK
  <2>2. CASE Refuses(Head(todo[t]).group)
    <3>1. Suffix(Tail(todo[t]), Script(op[t]))
      BY <2>1, SuffixTail DEF Progress
    <3> QED
      BY <1>3, <2>2, <3>1 DEF Enter, Progress, TypeOK
  <2>3. CASE ~Refuses(Head(todo[t]).group)
    <3>1. Suffix(PinsOf(todo[t][1].group), PinsOf(todo[t][1].group))
      BY <2>1, PinsAre, SuffixItself DEF CallType
    <3> QED
      BY <1>3, <2>1, <2>3, <3>1 DEF Enter, Progress, TypeOK
  <2> QED
    BY <2>2, <2>3
<1>4. ASSUME NEW t \in Threads, Select(t) \/ SelectNull(t)
      PROVE  Progress'
  BY <1>4, PinDoneProgress DEF Select, SelectNull
<1>5. ASSUME NEW t \in Threads, Return(t)
      PROVE  Progress'
  <2>1. todo[t] = <<>> /\ pins[t] = <<>>
    BY <1>5 DEF Return, Progress
  <2>2. Suffix(<<>>, Script("none"))
    BY DEF Suffix, Script
  <2> QED
    BY <1>5, <2>1, <2>2 DEF Return, Progress, TypeOK
<1>6. ASSUME NEW c \in Callers, NEW which \in {"OPEN", "CLOSE"}, Ioctl(c, which)
      PROVE  Progress'
  <2>1. c \in Threads /\ c # SpiProbe
    BY ProbeAssumption DEF Threads
  <2>2. todo[c] = <<>> /\ pins[c] = <<>>
    BY <1>6, <2>1 DEF Ioctl, Progress, TypeOK, Script, Suffix
  <2>3. Suffix(Calls(which), Script(which))
    BY CallsAre, SuffixItself DEF Script
  <2> QED
    BY <1>6, <2>1, <2>2, <2>3 DEF Ioctl, Progress, TypeOK
<1> QED
  BY <1>1, <1>2, <1>3, <1>4, <1>5, <1>6
  DEF Next, ProbeStep, ThreadStep, PlatSeen, WaitTimeout, PlatProbe, Lookup,
      WaitForPlat, SelectMissing, vars

-----------------------------------------------------------------------------
(* The probes                                                              *)

LEMMA LookupsStep ==
  TypeOK /\ LookupsInOrder /\ [Next]_vars => LookupsInOrder'
<1> SUFFICES ASSUME TypeOK, LookupsInOrder, [Next]_vars PROVE LookupsInOrder'
  OBVIOUS
<1> USE DEF LookupsInOrder, deviceVars
<1>1. CASE UNCHANGED <<found, next>>
  BY <1>1
<1>2. ASSUME NEW result \in {"ok", "err"}, Lookup(result)
      PROVE  LookupsInOrder'
  <2>1. Len(Lookups) = 14
    BY DEF Lookups
  <2>2. \A i \in 1 .. 13 : Lookups[i] # <<"eint", 0>>
    BY DEF Lookups, Pinctrl
  <2>3. next \in 1 .. 14
    BY <1>2, <2>1 DEF Lookup, TypeOK
  <2> QED
    BY <1>2, <2>1, <2>2, <2>3 DEF Lookup, TypeOK
<1> QED
  BY <1>1, <1>2
  DEF Next, PlatProbe, ProbeStep, PlatSeen, WaitForPlat, WaitTimeout, GoOn,
      ThreadStep, Enter, Select, SelectNull, SelectMissing, Return, Ioctl, vars

LEMMA ProbeFirstStep ==
  TypeOK /\ Progress /\ ProbeFirst /\ [Next]_vars => ProbeFirst'
<1> SUFFICES ASSUME TypeOK, Progress, ProbeFirst, [Next]_vars PROVE ProbeFirst'
  OBVIOUS
<1> USE DEF ProbeFirst, Quiet, deviceVars, callVars, historyVars
<1>1. SpiProbe \in Threads /\ \A c \in Callers : c \in Threads /\ c # SpiProbe
  BY ProbeAssumption DEF Threads
<1>2. CASE UNCHANGED <<spi, op, want>>
  BY <1>2
<1>3. CASE GoOn /\ spi # "going"
  BY <1>1, <1>3 DEF GoOn, TypeOK
<1>4. CASE WaitForPlat
  BY <1>4 DEF WaitForPlat
<1>5. ASSUME NEW t \in Threads, Return(t)
      PROVE  ProbeFirst'
  BY <1>1, <1>5 DEF Return, TypeOK
<1>6. ASSUME NEW c \in Callers, NEW which \in {"OPEN", "CLOSE"}, Ioctl(c, which)
      PROVE  ProbeFirst'
  BY <1>1, <1>6 DEF Ioctl, TypeOK
<1> QED
  BY <1>2, <1>3, <1>4, <1>5, <1>6
  DEF Next, PlatProbe, Lookup, ProbeStep, PlatSeen, WaitTimeout,
      ThreadStep, Enter, Select, SelectNull, SelectMissing, vars

-----------------------------------------------------------------------------
(* What is ahead of a thread                                               *)

(* The selection a thread is about to make.                                *)
LEMMA WantedIs ==
  ASSUME TypeOK, Progress, NEW t \in Threads, pins[t] # <<>>
  PROVE  /\ todo[t] # <<>> /\ todo[t] \in Seq(CallType) /\ pins[t] \in Seq(Pins)
         /\ Len(todo[t]) \in Nat \ {0} /\ Len(pins[t]) \in Nat \ {0}
         /\ Wanted(t) = <<pins[t][1], todo[t][1].cmd>>
         /\ Wanted(t)[1] = pins[t][1] /\ Wanted(t)[2] = todo[t][1].cmd
         /\ pins[t][1] \in Pins
         /\ todo[t][1].cmd \in {0, 1}
         /\ Wanted(t) \in PinStates
<1>1. todo[t] # <<>>
  BY DEF Progress
<1>2. todo[t] \in Seq(CallType) /\ Head(todo[t]) = todo[t][1] /\ todo[t][1] \in CallType
      /\ Len(todo[t]) \in Nat \ {0}
  BY <1>1, HeadCall
<1>3. pins[t] \in Seq(Pins)
  BY DEF TypeOK
<1>4. Head(pins[t]) = pins[t][1] /\ pins[t][1] \in Pins /\ Len(pins[t]) \in Nat \ {0}
  BY <1>3
<1>5. todo[t][1].cmd \in {0, 1}
  BY <1>2 DEF CallType
<1> QED
  BY <1>1, <1>2, <1>3, <1>4, <1>5 DEF Wanted, PinStates

(* A pin that is done was ahead with what it is now; all else stays ahead. *)
LEMMA PinDoneAhead ==
  ASSUME TypeOK, Progress, NEW t \in Threads, pins[t] # <<>>, PinDone(t),
         NEW p \in Pins, NEW v \in {0, 1}, Ahead(t, p, v), Wanted(t) # <<p, v>>
  PROVE  Ahead(t, p, v)'
<1>1. PICK i \in 1 .. Len(todo[t]) :
        /\ todo[t][i].cmd = v
        /\ Among(p, IF i = 1 /\ pins[t] # <<>> THEN pins[t] ELSE PinsOf(todo[t][i].group))
  BY DEF Ahead
<1>2. /\ pins'[t] = Tail(pins[t])
      /\ todo'[t] = IF Len(pins[t]) = 1 THEN Tail(todo[t]) ELSE todo[t]
  BY DEF PinDone, TypeOK
<1>3. /\ \A j \in 1 .. Len(todo[t]) - 1 : Tail(todo[t])[j] = todo[t][j + 1]
      /\ \A j \in 1 .. Len(pins[t]) - 1 : Tail(pins[t])[j] = pins[t][j + 1]
      /\ Len(Tail(todo[t])) = Len(todo[t]) - 1
      /\ Len(Tail(pins[t])) = Len(pins[t]) - 1
  BY WantedIs, HeadTailProperties
<1>4. CASE i = 1
  <2>1. PICK j \in 1 .. Len(pins[t]) : pins[t][j] = p
    BY <1>1, <1>4 DEF Among
  <2>2. j # 1
    BY <1>1, <1>4, <2>1, WantedIs
  <2>3. Tail(pins[t])[j - 1] = p /\ j - 1 \in 1 .. Len(Tail(pins[t]))
    BY <1>3, <2>1, <2>2, WantedIs
  <2>4. Among(p, pins'[t]) /\ todo'[t] = todo[t] /\ pins'[t] # <<>>
    BY <1>2, <1>3, <2>1, <2>2, <2>3, WantedIs DEF Among
  <2> QED
    BY <1>1, <1>4, <2>4 DEF Ahead, Among
<1>5. CASE i # 1 /\ Len(pins[t]) = 1
  <2>1. pins'[t] = <<>>
    BY <1>2, <1>5, TailOfOne, WantedIs
  <2>2. todo'[t][i - 1] = todo[t][i] /\ i - 1 \in 1 .. Len(todo'[t])
    BY <1>1, <1>2, <1>3, <1>5, WantedIs
  <2> QED
    BY <1>1, <1>5, <2>1, <2>2 DEF Ahead, Among, PinsOf
<1>6. CASE i # 1 /\ Len(pins[t]) # 1
  <2>1. todo'[t] = todo[t]
    BY <1>2, <1>6
  <2> QED
    BY <1>1, <1>6, <2>1 DEF Ahead, Among, PinsOf
<1> QED
  BY <1>4, <1>5, <1>6

(* A thread that has entered a call is at that place of its script, and    *)
(* at a pin of that call.                                                  *)
LEMMA InScript ==
  ASSUME TypeOK, Progress, NEW t \in Threads, pins[t] # <<>>
  PROVE  /\ op[t] \in {"PROBE", "OPEN", "CLOSE"}
         /\ Len(todo[t]) \in 1 .. Len(Script(op[t]))
         /\ \A i \in 1 .. Len(todo[t]) :
              todo[t][i] = Script(op[t])[Len(Script(op[t])) - Len(todo[t]) + i]
         /\ todo[t][1].group \in {"down", "reset"} =>
              pins[t][1] = todo[t][1].group /\ Len(pins[t]) = 1
         /\ todo[t][1].group = "spi" => pins[t][1] \in {"clk", "cs", "mi", "mo"}
<1>1. /\ todo[t] # <<>> /\ todo[t] \in Seq(CallType)
      /\ pins[t] # <<>> /\ pins[t] \in Seq(Pins)
      /\ Suffix(pins[t], PinsOf(todo[t][1].group))
  BY WantedIs DEF Progress
<1>2. Suffix(todo[t], Script(op[t])) /\ op[t] \in {"none", "PROBE", "OPEN", "CLOSE"}
  BY DEF Progress
<1>3. /\ Len(todo[t]) \in 1 .. Len(Script(op[t]))
      /\ \A i \in 1 .. Len(todo[t]) :
           todo[t][i] = Script(op[t])[Len(Script(op[t])) - Len(todo[t]) + i]
  BY <1>1, <1>2, ScriptsAre, SuffixStart
<1>4. op[t] # "none"
  BY <1>3 DEF Script
<1>5. ASSUME NEW g \in {"down", "reset"}, todo[t][1].group = g
      PROVE  pins[t][1] = g /\ Len(pins[t]) = 1
  <2>1. /\ Len(pins[t]) \in 1 .. Len(PinsOf(g))
        /\ pins[t][1] = PinsOf(g)[Len(PinsOf(g)) - Len(pins[t]) + 1]
    BY <1>1, <1>5, PinsAre, SuffixStart
  <2>2. PinsOf(g)[1] = g /\ Len(PinsOf(g)) = 1
    BY PinsAre
  <2>3. Len(pins[t]) = 1
    BY <2>1, <2>2
  <2> QED
    BY <2>1, <2>2, <2>3
<1>6. ASSUME todo[t][1].group = "spi"
      PROVE  pins[t][1] \in {"clk", "cs", "mi", "mo"}
  <2>1. Len(pins[t]) \in 1 .. Len(PinsOf("spi"))
    BY <1>1, <1>6, PinsAre, SuffixStart
  <2>2. pins[t][1] = PinsOf("spi")[Len(PinsOf("spi")) - Len(pins[t]) + 1]
    BY <1>1, <1>6, PinsAre, SuffixStart
  <2>3. Len(PinsOf("spi")) = 4
    BY PinsAre
  <2>4. 4 - Len(pins[t]) + 1 \in {1, 2, 3, 4}
    BY <2>1, <2>3, SmallLengths
  <2>5. pins[t][1] = PinsOf("spi")[4 - Len(pins[t]) + 1]
    BY <2>2, <2>3
  <2>6. \E k \in {1, 2, 3, 4} : pins[t][1] = PinsOf("spi")[k]
    BY <2>4, <2>5
  <2> QED
    BY <2>6, PinsAre
<1> QED
  BY <1>2, <1>3, <1>4, <1>5, <1>6

(* The call of OPEN a thread is in, by the number of calls it has left.    *)
LEMMA InOpen ==
  ASSUME TypeOK, Progress, NEW t \in Threads, pins[t] # <<>>, op[t] = "OPEN"
  PROVE  /\ Len(todo[t]) \in 1 .. 5
         /\ Len(todo[t]) = 5 => todo[t][1] = Set("down", 1)
         /\ Len(todo[t]) = 4 => todo[t][1] = Set("reset", 0) /\ todo[t][3] = Set("reset", 1)
         /\ Len(todo[t]) = 3 => todo[t][1] = Set("spi", 0) /\ todo[t][3] = Set("spi", 1)
         /\ Len(todo[t]) = 2 => todo[t][1] = Set("reset", 1)
         /\ Len(todo[t]) = 1 => todo[t][1] = Set("spi", 1)
<1>1. Script(op[t]) = Calls("OPEN")
  BY DEF Script
<1>2. /\ Len(todo[t]) \in 1 .. Len(Script(op[t]))
      /\ \A i \in 1 .. Len(todo[t]) :
           todo[t][i] = Script(op[t])[Len(Script(op[t])) - Len(todo[t]) + i]
  BY InScript
<1>3. Len(Calls("OPEN")) = 5
  BY CallsAre
<1>4. /\ Len(todo[t]) \in 1 .. 5
      /\ \A i \in 1 .. Len(todo[t]) : todo[t][i] = Calls("OPEN")[5 - Len(todo[t]) + i]
  BY <1>1, <1>2, <1>3
<1>5. Len(todo[t]) = 5 => todo[t][1] = Set("down", 1)
  BY <1>4, CallsAre
<1>6. Len(todo[t]) = 4 => todo[t][1] = Set("reset", 0) /\ todo[t][3] = Set("reset", 1)
  BY <1>4, CallsAre
<1>7. Len(todo[t]) = 3 => todo[t][1] = Set("spi", 0) /\ todo[t][3] = Set("spi", 1)
  BY <1>4, CallsAre
<1>8. Len(todo[t]) = 2 => todo[t][1] = Set("reset", 1)
  BY <1>4, CallsAre
<1>9. Len(todo[t]) = 1 => todo[t][1] = Set("spi", 1)
  BY <1>4, CallsAre
<1> QED
  BY <1>4, <1>5, <1>6, <1>7, <1>8, <1>9

(* What the scripts select: PROBE and CLOSE each one value only, and an    *)
(* OPEN that switches a pin to 0 has yet to switch it to 1.                *)
LEMMA Scripts ==
  ASSUME TypeOK, Progress, NEW t \in Threads, pins[t] # <<>>
  PROVE  /\ op[t] \in {"PROBE", "OPEN", "CLOSE"}
         /\ op[t] = "PROBE" => todo[t][1].cmd = 1
         /\ op[t] = "CLOSE" => /\ todo[t][1].cmd = 0
                               /\ pins[t][1] \in {"down", "reset"}
         /\ op[t] = "OPEN" /\ todo[t][1].cmd = 0 => Ahead(t, pins[t][1], 1)
<1> DEFINE m == Len(Script(op[t]))
<1>0. /\ op[t] \in {"PROBE", "OPEN", "CLOSE"}
      /\ Len(todo[t]) \in 1 .. m
      /\ \A i \in 1 .. Len(todo[t]) : todo[t][i] = Script(op[t])[m - Len(todo[t]) + i]
      /\ todo[t][1].group \in {"down", "reset"} => pins[t][1] = todo[t][1].group
      /\ todo[t][1].group = "spi" => pins[t][1] \in {"clk", "cs", "mi", "mo"}
  BY InScript
<1>1. CASE op[t] = "PROBE"
  <2>1. m = 1 /\ Script(op[t])[1] = Set("spi", 1)
    BY <1>1 DEF Script
  <2>2. Len(todo[t]) = 1
    BY <1>0, <2>1
  <2>3. todo[t][1] = Set("spi", 1)
    BY <1>0, <2>1, <2>2
  <2> QED
    BY <1>1, <2>3 DEF Set
<1>2. CASE op[t] = "CLOSE"
  <2>1. Script(op[t]) = Calls("CLOSE")
    BY <1>2 DEF Script
  <2>2. /\ Len(todo[t]) \in 1 .. 2
        /\ \A i \in 1 .. Len(todo[t]) : todo[t][i] = Calls("CLOSE")[2 - Len(todo[t]) + i]
    BY <1>0, <2>1, CallsAre
  <2>3. Len(todo[t]) = 1 => todo[t][1] = Set("reset", 0)
    BY <2>2, CallsAre
  <2>4. Len(todo[t]) = 2 => todo[t][1] = Set("down", 0)
    BY <2>2, CallsAre
  <2>5. todo[t][1].cmd = 0 /\ todo[t][1].group \in {"down", "reset"}
    BY <2>2, <2>3, <2>4 DEF Set
  <2> QED
    BY <1>0, <1>2, <2>5
<1>3. CASE op[t] = "OPEN" /\ todo[t][1].cmd = 0
  <2>1. CASE Len(todo[t]) = 4
    <3>1. todo[t][1] = Set("reset", 0) /\ todo[t][3] = Set("reset", 1)
      BY <1>3, <2>1, InOpen
    <3>2. pins[t][1] = "reset"
      BY <1>0, <3>1 DEF Set
    <3>3. Among("reset", PinsOf("reset"))
      BY PinsAre DEF Among
    <3> QED
      BY <1>3, <2>1, <3>1, <3>2, <3>3 DEF Ahead, Set
  <2>2. CASE Len(todo[t]) = 3
    <3>1. todo[t][1] = Set("spi", 0) /\ todo[t][3] = Set("spi", 1)
      BY <1>3, <2>2, InOpen
    <3>2. pins[t][1] \in {"clk", "cs", "mi", "mo"}
      BY <1>0, <3>1 DEF Set
    <3>3. Among(pins[t][1], PinsOf("spi"))
      BY <3>2, PinsAre DEF Among
    <3> QED
      BY <1>3, <2>2, <3>1, <3>3 DEF Ahead, Set
  <2>3. Len(todo[t]) \in 1 .. 5 /\ Len(todo[t]) \notin {1, 2, 5}
    BY <1>3, InOpen DEF Set
  <2> QED
    BY <1>3, <2>1, <2>2, <2>3
<1> QED
  BY <1>0, <1>1, <1>2, <1>3

-----------------------------------------------------------------------------
(* What the pins are heading for                                           *)

NoneMissing == \A s \in PinStates : found[s] # "err"

(* Selecting a state takes a pin where it is heading, or the thread that   *)
(* selects it has more to do to it; the other pins keep their heading.     *)
LEMMA SelectHeading ==
  ASSUME TypeOK, Progress, NEW t \in Threads, Select(t),
         NEW p \in Pins, NEW v \in {0, 1}, Heading(p, v),
         p = pins[t][1] /\ v # todo[t][1].cmd => Ahead(t, p, v)
  PROVE  Heading(p, v)'
<1>1. pins[t] # <<>> /\ PinDone(t)
  BY DEF Select
<1>2. level' = [level EXCEPT ![pins[t][1]] = todo[t][1].cmd]
  BY <1>1, WantedIs DEF Select
<1>3. Wanted(t) = <<pins[t][1], todo[t][1].cmd>>
  BY <1>1, WantedIs
<1>4. CASE p = pins[t][1] /\ v = todo[t][1].cmd
  <2>1. level'[p] = v
    BY <1>2, <1>4 DEF TypeOK
  <2> QED
    BY <2>1 DEF Heading
<1>5. CASE p = pins[t][1] /\ v # todo[t][1].cmd
  <2>1. Ahead(t, p, v)'
    BY <1>1, <1>3, <1>5, PinDoneAhead
  <2> QED
    BY <2>1 DEF Heading
<1>6. CASE p # pins[t][1] /\ level[p] = v
  <2>1. level'[p] = v
    BY <1>2, <1>6 DEF TypeOK
  <2> QED
    BY <2>1 DEF Heading
<1>7. CASE p # pins[t][1] /\ \E u \in Threads : Ahead(u, p, v)
  <2>1. PICK u \in Threads : Ahead(u, p, v)
    BY <1>7
  <2>2. CASE u = t
    <3>1. Ahead(t, p, v)'
      BY <1>1, <1>3, <1>7, <2>1, <2>2, PinDoneAhead
    <3> QED
      BY <3>1 DEF Heading
  <2>3. CASE u # t
    <3>1. todo'[u] = todo[u] /\ pins'[u] = pins[u]
      BY <1>1, <2>3 DEF PinDone, TypeOK
    <3>2. Ahead(u, p, v)'
      BY <2>1, <3>1 DEF Ahead, Among, PinsOf
    <3> QED
      BY <3>2 DEF Heading
  <2> QED
    BY <2>2, <2>3
<1> QED
  BY <1>4, <1>5, <1>6, <1>7 DEF Heading

(* A selection of 0 in OPEN or of 1 in any script loses no heading for 1.  *)
LEMMA SelectTowards1 ==
  ASSUME TypeOK, Progress, NEW t \in Threads, Select(t), NEW p \in Pins,
         Heading(p, 1) \/ p = pins[t][1],
         op[t] = "CLOSE" => p \notin {"down", "reset"}
  PROVE  Heading(p, 1)'
<1>1. pins[t] # <<>>
  BY DEF Select
<1>2. p = pins[t][1] /\ todo[t][1].cmd # 1 => Ahead(t, p, 1)
  BY <1>1, Scripts, WantedIs
<1>3. CASE Heading(p, 1)
  BY <1>2, <1>3, SelectHeading
<1>4. CASE p = pins[t][1] /\ todo[t][1].cmd = 1
  <2>1. level'[p] = 1
    BY <1>1, <1>4, WantedIs DEF Select, TypeOK
  <2> QED
    BY <2>1 DEF Heading
<1>5. CASE p = pins[t][1] /\ todo[t][1].cmd # 1
  BY <1>2, <1>5, SelectHeading DEF Heading
<1> QED
  BY <1>3, <1>4, <1>5

(* A call is refused only where a state was looked up in vain.             *)
LEMMA NotRefused ==
  ASSUME TypeOK, NoneMissing, NEW t \in Threads, Enter(t)
  PROVE  /\ UNCHANGED <<level, todo, op, disturbed, found>>
         /\ pins' = [pins EXCEPT ![t] = PinsOf(todo[t][1].group)]
<1>1. todo[t] # <<>> /\ Head(todo[t]) = todo[t][1] /\ todo[t][1] \in CallType
  BY HeadCall DEF Enter
<1>2. todo[t][1].group \in {"down", "reset", "spi"}
  BY <1>1 DEF CallType
<1>3. \A i \in 1 .. Len(PinsOf(todo[t][1].group)) :
        PinsOf(todo[t][1].group)[i] \in Pins
  BY <1>2, PinsAre
<1>4. ~Refuses(todo[t][1].group)
  BY <1>3 DEF Refuses, NoneMissing, PinStates
<1> QED
  BY <1>1, <1>4 DEF Enter, deviceVars, historyVars

(* The steps that select nothing leave what is ahead of the threads, as    *)
(* long as no call is refused.                                             *)
LEMMA OtherSteps ==
  ASSUME TypeOK, Progress, ProbeFirst, NoneMissing, [Next]_vars
  PROVE  \/ \E t \in Threads : Select(t) \/ SelectNull(t)
         \/ /\ UNCHANGED level
            /\ \A t \in Threads, p \in Pins, v \in {0, 1} : Ahead(t, p, v) => Ahead(t, p, v)'
<1> DEFINE Kept == /\ UNCHANGED level
                   /\ \A t \in Threads, p \in Pins, v \in {0, 1} :
                        Ahead(t, p, v) => Ahead(t, p, v)'
<1>1. CASE UNCHANGED <<level, todo, pins>>
  BY <1>1 DEF Ahead, Among, PinsOf
<1>2. ASSUME NEW t \in Threads, Enter(t) PROVE Kept
  <2>1. /\ UNCHANGED <<level, todo>>
        /\ pins' = [pins EXCEPT ![t] = PinsOf(todo[t][1].group)]
    BY <1>2, NotRefused
  <2>2. ASSUME NEW u \in Threads, NEW p \in Pins, NEW v \in {0, 1}, Ahead(u, p, v)
        PROVE  Ahead(u, p, v)'
    <3>1. CASE u # t
      <4>1. todo'[u] = todo[u] /\ pins'[u] = pins[u]
        BY <2>1, <3>1 DEF TypeOK
      <4> QED
        BY <2>2, <4>1 DEF Ahead, Among, PinsOf
    <3>2. CASE u = t
      <4>1. pins[u] = <<>> /\ pins'[u] = PinsOf(todo[u][1].group) /\ todo'[u] = todo[u]
        BY <1>2, <2>1, <3>2 DEF TypeOK, Enter
      <4> QED
        BY <2>2, <4>1 DEF Ahead, Among, PinsOf
    <3> QED
      BY <3>1, <3>2
  <2> QED
    BY <2>1, <2>2
<1>3. ASSUME NEW c \in Threads, op[c] = "none", UNCHANGED <<level, pins>>,
             \A u \in Threads \ {c} : todo'[u] = todo[u]
      PROVE  Kept
  <2>1. todo[c] = <<>>
    BY <1>3 DEF Progress, TypeOK, Script, Suffix
  <2>2. \A p \in Pins, v \in {0, 1} : ~Ahead(c, p, v)
    BY <2>1 DEF Ahead
  <2>3. ASSUME NEW u \in Threads, NEW p \in Pins, NEW v \in {0, 1}, Ahead(u, p, v)
        PROVE  Ahead(u, p, v)'
    <3>1. todo'[u] = todo[u] /\ pins'[u] = pins[u]
      BY <1>3, <2>2, <2>3
    <3> QED
      BY <2>3, <3>1 DEF Ahead, Among, PinsOf
  <2> QED
    BY <1>3, <2>3
<1>4. CASE GoOn /\ spi # "going"
  <2>1. SpiProbe \in Threads /\ op[SpiProbe] = "none"
    BY <1>4 DEF ProbeFirst, Quiet, Threads
  <2>2. /\ UNCHANGED <<level, pins>>
        /\ \A u \in Threads \ {SpiProbe} : todo'[u] = todo[u]
    BY <1>4 DEF GoOn, TypeOK
  <2> QED
    BY <1>3, <2>1, <2>2
<1>5. ASSUME NEW c \in Callers, NEW which \in {"OPEN", "CLOSE"}, Ioctl(c, which)
      PROVE  Kept
  <2>1. /\ c \in Threads /\ op[c] = "none"
        /\ UNCHANGED <<level, pins>>
        /\ \A u \in Threads \ {c} : todo'[u] = todo[u]
    BY <1>5 DEF Ioctl, TypeOK, Threads
  <2> QED
    BY <1>3, <2>1
<1> QED
  BY <1>1, <1>2, <1>4, <1>5
  DEF Next, PlatProbe, Lookup, ProbeStep, PlatSeen, WaitForPlat, WaitTimeout,
      ThreadStep, SelectMissing, Return, vars, callVars

-----------------------------------------------------------------------------
(* A state that was not found stays so, and once all are found they are.   *)
LEMMA FoundForGood ==
  ASSUME TypeOK, LookupsInOrder, [Next]_vars
  PROVE  /\ ~NoneMissing => ~NoneMissing'
         /\ AllFound => AllFound'
<1> USE DEF NoneMissing, AllFound, deviceVars
<1>1. CASE UNCHANGED found
  BY <1>1
<1>2. ASSUME NEW result \in {"ok", "err"}, Lookup(result)
      PROVE  NoneMissing /\ ~AllFound
  BY <1>2 DEF Lookup, LookupsInOrder, PinStates
<1> QED
  BY <1>1, <1>2
  DEF Next, PlatProbe, ProbeStep, PlatSeen, WaitForPlat, WaitTimeout, GoOn,
      ThreadStep, Enter, Select, SelectNull, SelectMissing, Return, Ioctl, vars

LEMMA BusStep ==
  TypeOK /\ Progress /\ LookupsInOrder /\ ProbeFirst /\ BusOwed /\ [Next]_vars => BusOwed'
<1> SUFFICES ASSUME TypeOK, Progress, LookupsInOrder, ProbeFirst, BusOwed, [Next]_vars
             PROVE  BusOwed'
  OBVIOUS
<1>1. CASE ~NoneMissing
  BY <1>1, FoundForGood DEF NoneMissing, BusOwed
<1>2. CASE NoneMissing
  <2> SUFFICES ASSUME NEW p \in {"clk", "cs", "mi", "mo"}
               PROVE  level'[p] = Boot \/ Heading(p, 1)'
    BY DEF BusOwed
  <2>1. p \in Pins /\ (level[p] = Boot \/ Heading(p, 1))
    BY <1>2 DEF BusOwed, NoneMissing, Pins
  <2>2. ASSUME NEW t \in Threads, Select(t)
        PROVE  level'[p] = Boot \/ Heading(p, 1)'
    <3>1. pins[t] # <<>>
      BY <2>2 DEF Select
    <3>2. CASE Heading(p, 1) \/ p = pins[t][1]
      BY <2>1, <2>2, <3>2, SelectTowards1
    <3>3. CASE level[p] = Boot /\ p # pins[t][1]
      BY <2>1, <2>2, <3>1, <3>3, WantedIs DEF Select, TypeOK
    <3> QED
      BY <2>1, <3>2, <3>3
  <2>3. ASSUME NEW t \in Threads, SelectNull(t)
        PROVE  level'[p] = Boot
    BY <2>1, <2>3 DEF SelectNull
  <2>4. CASE /\ UNCHANGED level
             /\ \A t \in Threads, q \in Pins, v \in {0, 1} : Ahead(t, q, v) => Ahead(t, q, v)'
    BY <2>1, <2>4 DEF Heading
  <2> QED
    BY <1>2, <2>2, <2>3, <2>4, OtherSteps
<1> QED
  BY <1>1, <1>2

(* A new ioctl has everything it is for ahead of it.                       *)
LEMMA IoctlAhead ==
  ASSUME TypeOK, Progress, NEW c \in Callers, NEW which \in {"OPEN", "CLOSE"},
         Ioctl(c, which)
  PROVE  /\ which = "OPEN" => \A p \in Pins : Ahead(c, p, 1)'
         /\ which = "CLOSE" => Ahead(c, "down", 0)' /\ Ahead(c, "reset", 0)'
<1>1. c \in Threads
  BY DEF Threads
<1>2. pins'[c] = <<>> /\ todo'[c] = Calls(which)
  BY <1>1 DEF Ioctl, Progress, TypeOK, Script, Suffix
<1>3. /\ Among("down", PinsOf("down")) /\ Among("reset", PinsOf("reset"))
      /\ \A p \in {"clk", "cs", "mi", "mo"} : Among(p, PinsOf("spi"))
  BY PinsAre DEF Among
<1>4. ASSUME NEW i \in 1 .. Len(Calls(which)), NEW p \in Pins, NEW v \in {0, 1},
             Calls(which)[i].cmd = v, Among(p, PinsOf(Calls(which)[i].group))
      PROVE  Ahead(c, p, v)'
  BY <1>2, <1>4 DEF Ahead, Among, PinsOf
<1>5. ASSUME which = "OPEN", NEW p \in Pins
      PROVE  Ahead(c, p, 1)'
  <2>1. CASE p = "down"
    <3>1. Calls(which)[1].cmd = 1 /\ Calls(which)[1].group = "down"
      BY <1>5, CallsAre DEF Set
    <3> QED
      BY <1>3, <1>4, <1>5, <2>1, <3>1, CallsAre
  <2>2. CASE p = "reset"
    <3>1. Calls(which)[4].cmd = 1 /\ Calls(which)[4].group = "reset"
      BY <1>5, CallsAre DEF Set
    <3> QED
      BY <1>3, <1>4, <1>5, <2>2, <3>1, CallsAre
  <2>3. CASE p \in {"clk", "cs", "mi", "mo"}
    <3>1. Calls(which)[5].cmd = 1 /\ Calls(which)[5].group = "spi"
      BY <1>5, CallsAre DEF Set
    <3> QED
      BY <1>3, <1>4, <1>5, <2>3, <3>1, CallsAre
  <2> QED
    BY <2>1, <2>2, <2>3 DEF Pins
<1>6. ASSUME which = "CLOSE"
      PROVE  Ahead(c, "down", 0)' /\ Ahead(c, "reset", 0)'
  <2>1. /\ Calls(which)[1].cmd = 0 /\ Calls(which)[1].group = "down"
        /\ Calls(which)[2].cmd = 0 /\ Calls(which)[2].group = "reset"
    BY <1>6, CallsAre DEF Set
  <2>2. {"down", "reset"} \subseteq Pins /\ Len(Calls(which)) = 2
    BY <1>6, CallsAre DEF Pins
  <2> QED
    BY <1>3, <1>4, <2>1, <2>2
<1> QED
  BY <1>5, <1>6

LEMMA AgreedStep ==
  TypeOK /\ Progress /\ LookupsInOrder /\ ProbeFirst /\ Agreed /\ [Next]_vars => Agreed'
<1> SUFFICES ASSUME TypeOK, Progress, LookupsInOrder, ProbeFirst, Agreed, [Next]_vars
             PROVE  Agreed'
  OBVIOUS
<1>1. ASSUME NEW c \in Callers, NEW which \in {"OPEN", "CLOSE"}, Ioctl(c, which)
      PROVE  Agreed'
  <2>1. CASE want' = "mixed"
    BY <2>1 DEF Agreed
  <2>2. CASE want' # "mixed"
    <3>1. want' = which /\ AllFound /\ (Quiet \/ want = which)
      BY <1>1, <2>2 DEF Ioctl
    <3>2. AllFound'
      BY <3>1, FoundForGood
    <3>3. \A t \in Threads : op[t] \in {"none", which}
      BY <3>1 DEF Agreed, Quiet
    <3>4. \A t \in Threads : op'[t] \in {"none", which}
      BY <1>1, <3>3 DEF Ioctl, TypeOK
    <3>5. c \in Threads
      BY DEF Threads
    <3>6. /\ which = "OPEN" => \A p \in Pins : Heading(p, 1)'
          /\ which = "CLOSE" => Heading("down", 0)' /\ Heading("reset", 0)'
      BY <1>1, <3>5, IoctlAhead DEF Heading
    <3> QED
      BY <3>1, <3>2, <3>4, <3>6 DEF Agreed
  <2> QED
    BY <2>1, <2>2
<1>2. CASE UNCHANGED want /\ want \in {"OPEN", "CLOSE"}
  <2>1. AllFound /\ AllFound' /\ NoneMissing
    BY <1>2, FoundForGood DEF Agreed, AllFound, NoneMissing
  <2>2. \A t \in Threads : op'[t] \in {"none", want'}
    BY <1>2 DEF Agreed, ProbeFirst, TypeOK, Next, PlatProbe, Lookup, ProbeStep, PlatSeen,
       WaitForPlat, WaitTimeout, GoOn, ThreadStep, Enter, Select, SelectNull,
       SelectMissing, Return, Ioctl, vars, deviceVars, callVars
  <2>3. ASSUME NEW t \in Threads, Select(t)
        PROVE  Agreed'
    <3>1. pins[t] # <<>>
      BY <2>3 DEF Select
    <3>2. op[t] = want
      BY <3>1, Scripts, <1>2 DEF Agreed
    <3>3. want = "OPEN" => \A p \in Pins : Heading(p, 1)'
      BY <2>3, <3>2, SelectTowards1 DEF Agreed
    <3>4. want = "CLOSE" => Heading("down", 0)' /\ Heading("reset", 0)'
      BY <2>3, <3>1, <3>2, Scripts, SelectHeading DEF Agreed, Pins
    <3> QED
      BY <1>2, <2>1, <2>2, <3>3, <3>4 DEF Agreed
  <2>4. ASSUME NEW t \in Threads, SelectNull(t)
        PROVE  FALSE
    BY <2>1, <2>4, WantedIs DEF SelectNull, AllFound
  <2>5. CASE /\ UNCHANGED level
             /\ \A t \in Threads, q \in Pins, v \in {0, 1} : Ahead(t, q, v) => Ahead(t, q, v)'
    <3>1. \A p \in Pins, v \in {0, 1} : Heading(p, v) => Heading(p, v)'
      BY <2>5 DEF Heading
    <3> QED
      BY <1>2, <2>1, <2>2, <3>1 DEF Agreed, Pins
  <2> QED
    BY <2>1, <2>3, <2>4, <2>5, OtherSteps
<1>3. CASE UNCHANGED want /\ want \notin {"OPEN", "CLOSE"}
  BY <1>3 DEF Agreed
<1> QED
  BY <1>1, <1>2, <1>3
  DEF Next, PlatProbe, Lookup, ProbeStep, PlatSeen, WaitForPlat, WaitTimeout, GoOn,
      ThreadStep, Enter, Select, SelectNull, SelectMissing, Return, vars, historyVars

-----------------------------------------------------------------------------
(* An OPEN that runs alone                                                 *)

(* A pin that is done takes an OPEN that runs alone one step further.      *)
LEMMA AloneSelect ==
  ASSUME TypeOK, Progress, OpenAlone, NEW c \in Callers, Alone(c), Select(c)
  PROVE  /\ Len(todo'[c]) < 5 => level'["down"] = 1
         /\ Len(todo'[c]) = 3 /\ pins'[c] # <<>> =>
              \A p \in {"clk", "cs", "mi", "mo"} : Among(p, pins'[c]) \/ level'[p] = 0
         /\ Len(todo'[c]) = 2 => \A p \in {"clk", "cs", "mi", "mo"} : level'[p] = 0
<1>1. c \in Threads /\ pins[c] # <<>> /\ PinDone(c) /\ op[c] = "OPEN"
  BY DEF Threads, Select, Alone
<1>2. level' = [level EXCEPT ![pins[c][1]] = todo[c][1].cmd]
  BY <1>1, WantedIs DEF Select
<1>3. /\ pins'[c] = Tail(pins[c])
      /\ todo'[c] = IF Len(pins[c]) = 1 THEN Tail(todo[c]) ELSE todo[c]
  BY <1>1 DEF PinDone, TypeOK
<1>4. /\ Len(todo[c]) \in 1 .. 5 /\ Len(pins[c]) \in Nat \ {0}
      /\ Len(Tail(todo[c])) = Len(todo[c]) - 1
      /\ Len(Tail(pins[c])) = Len(pins[c]) - 1
      /\ \A j \in 1 .. Len(pins[c]) - 1 : Tail(pins[c])[j] = pins[c][j + 1]
  BY <1>1, InOpen, WantedIs, HeadTailProperties
<1>5. /\ Len(todo[c]) = 5 => todo[c][1] = Set("down", 1)
      /\ Len(todo[c]) = 4 => todo[c][1] = Set("reset", 0)
      /\ Len(todo[c]) = 3 => todo[c][1] = Set("spi", 0)
      /\ Len(todo[c]) = 2 => todo[c][1] = Set("reset", 1)
      /\ Len(todo[c]) = 1 => todo[c][1] = Set("spi", 1)
      /\ todo[c][1].group \in {"down", "reset"} =>
           pins[c][1] = todo[c][1].group /\ Len(pins[c]) = 1
      /\ todo[c][1].group = "spi" => pins[c][1] \in {"clk", "cs", "mi", "mo"}
  BY <1>1, InOpen, InScript
<1>6. \A p \in Pins : level'[p] = IF p = pins[c][1] THEN todo[c][1].cmd ELSE level[p]
  BY <1>2 DEF TypeOK
<1>7. CASE Len(todo[c]) = 5
  <2>1. todo[c][1].cmd = 1 /\ pins[c][1] = "down" /\ Len(pins[c]) = 1
    BY <1>5, <1>7 DEF Set
  <2>2. level'["down"] = 1
    BY <1>6, <2>1 DEF Pins
  <2>3. Len(todo'[c]) = 4
    BY <1>3, <1>4, <1>7, <2>1
  <2> QED
    BY <2>2, <2>3
<1>8. CASE Len(todo[c]) # 5
  <2>1. pins[c][1] # "down"
    BY <1>4, <1>5, <1>8 DEF Set
  <2>0. level["down"] = 1
    <3>1. Len(todo[c]) < 5
      BY <1>1, <1>8, InOpen, SmallLengths
    <3> QED
      BY <3>1 DEF OpenAlone
  <2>2. level'["down"] = 1
    BY <1>6, <2>0, <2>1 DEF Pins
  <2>3. CASE Len(todo[c]) = 4
    <3>1. Len(pins[c]) = 1
      BY <1>5, <2>3 DEF Set
    <3>2. Len(todo'[c]) = 3
      BY <1>3, <1>4, <2>3, <3>1
    <3>3. pins'[c] = <<>>
      BY <1>1, <1>3, <3>1, TailOfOne, WantedIs
    <3> QED
      BY <2>2, <3>2, <3>3
  <2>4. CASE Len(todo[c]) = 3
    <3>1. todo[c][1].cmd = 0
      BY <1>5, <2>4 DEF Set
    <3>2. ASSUME NEW p \in {"clk", "cs", "mi", "mo"}
          PROVE  level'[p] = 0 \/ \E j \in 2 .. Len(pins[c]) : pins[c][j] = p
      <4>1. level[p] = 0 \/ \E j \in 1 .. Len(pins[c]) : pins[c][j] = p
        BY <1>1, <2>4 DEF OpenAlone, Among
      <4> QED
        BY <1>4, <1>6, <3>1, <4>1 DEF Pins
    <3>3. CASE Len(pins[c]) = 1
      BY <1>3, <1>4, <2>2, <2>4, <3>2, <3>3
    <3>4. CASE Len(pins[c]) # 1
      <4>1. Len(todo'[c]) = 3
        BY <1>3, <2>4, <3>4
      <4>2. ASSUME NEW p \in {"clk", "cs", "mi", "mo"},
                   NEW j \in 2 .. Len(pins[c]), pins[c][j] = p
            PROVE  Among(p, pins'[c])
        <5>1. j - 1 \in 1 .. Len(pins'[c]) /\ pins'[c][j - 1] = p
          BY <1>3, <1>4, <4>2
        <5> QED
          BY <5>1 DEF Among
      <4> QED
        BY <2>2, <3>2, <4>1, <4>2
    <3> QED
      BY <3>3, <3>4
  <2>5. CASE Len(todo[c]) = 2
    <3>1. pins[c][1] = "reset" /\ Len(pins[c]) = 1
      BY <1>5, <2>5 DEF Set
    <3>2. Len(todo'[c]) = 1
      BY <1>3, <1>4, <2>5, <3>1
    <3> QED
      BY <2>2, <3>2
  <2>6. CASE Len(todo[c]) = 1
    <3>1. Len(todo'[c]) \in {0, 1}
      BY <1>3, <1>4, <2>6
    <3> QED
      BY <2>2, <3>1
  <2> QED
    BY <1>4, <1>8, <2>3, <2>4, <2>5, <2>6
<1> QED
  BY <1>7, <1>8

LEMMA AloneStep ==
  TypeOK /\ Progress /\ LookupsInOrder /\ ProbeFirst /\ OpenAlone /\ [Next]_vars => OpenAlone'
<1> SUFFICES ASSUME TypeOK, Progress, LookupsInOrder, ProbeFirst, OpenAlone, [Next]_vars,
                    NEW c \in Callers, Alone(c)'
             PROVE
    /\ AllFound'
    /\ \A t \in Threads \ {c} : op'[t] = "none"
    /\ Len(todo'[c]) < 5 => level'["down"] = 1
    /\ Len(todo'[c]) = 3 /\ pins'[c] # <<>> =>
         \A p \in {"clk", "cs", "mi", "mo"} : Among(p, pins'[c]) \/ level'[p] = 0
    /\ Len(todo'[c]) = 2 => \A p \in {"clk", "cs", "mi", "mo"} : level'[p] = 0
  BY DEF OpenAlone, Among
<1> DEFINE Goal ==
      /\ AllFound'
      /\ \A t \in Threads \ {c} : op'[t] = "none"
      /\ Len(todo'[c]) < 5 => level'["down"] = 1
      /\ Len(todo'[c]) = 3 /\ pins'[c] # <<>> =>
           \A p \in {"clk", "cs", "mi", "mo"} : Among(p, pins'[c]) \/ level'[p] = 0
      /\ Len(todo'[c]) = 2 => \A p \in {"clk", "cs", "mi", "mo"} : level'[p] = 0
<1>1. c \in Threads /\ op'[c] = "OPEN" /\ ~disturbed'[c]
  BY DEF Threads, Alone
<1>2. ASSUME NEW d \in Callers, NEW which \in {"OPEN", "CLOSE"}, Ioctl(d, which)
      PROVE  Goal
  <2>1. d = c
    <3>1. d # c => op'[c] = op[c]
      BY <1>1, <1>2 DEF Ioctl, TypeOK
    <3> QED
      BY <1>1, <1>2, <3>1 DEF Ioctl
  <2>2. Quiet /\ AllFound
    BY <1>1, <1>2, <2>1 DEF Ioctl
  <2>3. AllFound' /\ \A t \in Threads \ {c} : op'[t] = "none"
    BY <1>2, <2>1, <2>2, FoundForGood DEF Ioctl, Quiet, TypeOK
  <2>4. todo'[c] = Calls("OPEN")
    BY <1>1, <1>2, <2>1 DEF Ioctl, TypeOK
  <2> QED
    BY <2>3, <2>4, CallsAre
<1>3. CASE /\ op[c] = "OPEN" /\ ~disturbed[c]
           /\ \A d \in Callers, which \in {"OPEN", "CLOSE"} : ~Ioctl(d, which)
  <2>1. Alone(c) /\ AllFound /\ NoneMissing /\ \A t \in Threads \ {c} : op[t] = "none"
    BY <1>3 DEF OpenAlone, Alone, AllFound, NoneMissing
  <2>2. AllFound'
    BY <2>1, FoundForGood
  <2>3. \A t \in Threads \ {c} : todo[t] = <<>> /\ pins[t] = <<>>
    BY <2>1 DEF Progress, TypeOK, Script, Suffix
  <2>4. spi = "going"
    BY <1>3 DEF ProbeFirst
  <2>5. \A t \in Threads \ {c} : op'[t] = "none"
    BY <1>3, <2>1, <2>4
    DEF TypeOK, Next, PlatProbe, Lookup, ProbeStep, PlatSeen, WaitForPlat, WaitTimeout,
        GoOn, ThreadStep, Enter, Select, SelectNull, SelectMissing, Return, vars,
        deviceVars, callVars
  <2>6. CASE UNCHANGED <<todo, pins, level>>
    BY <1>3, <2>1, <2>2, <2>5, <2>6 DEF OpenAlone, Alone, Among
  <2>7. ASSUME NEW t \in Threads, Enter(t)
        PROVE  Goal
    <3>1. t = c
      BY <2>3, <2>7 DEF Enter
    <3>2. UNCHANGED <<level, todo>> /\ pins'[c] = PinsOf(todo[c][1].group)
      BY <2>1, <2>7, <3>1, NotRefused DEF TypeOK
    <3>3. Len(todo[c]) = 3 => todo[c][1] = Set("spi", 0)
      <4>1. Suffix(todo[c], Calls("OPEN")) /\ todo[c] # <<>> /\ todo[c] \in Seq(CallType)
        BY <1>1, <1>3, <2>7, <3>1, HeadCall DEF Progress, Script, Enter
      <4>2. todo[c][1] = Calls("OPEN")[Len(Calls("OPEN")) - Len(todo[c]) + 1]
        BY <4>1, CallsAre, SuffixStart
      <4>3. Len(Calls("OPEN")) = 5 /\ Calls("OPEN")[3] = Set("spi", 0)
        BY CallsAre
      <4>4. Len(todo[c]) = 3 => Len(Calls("OPEN")) - Len(todo[c]) + 1 = 3
        BY <4>3
      <4> QED
        BY <4>2, <4>3, <4>4
    <3>4. \A p \in {"clk", "cs", "mi", "mo"} : Among(p, PinsOf("spi"))
      BY PinsAre DEF Among
    <3>5. Len(todo[c]) = 3 => PinsOf(todo[c][1].group) = PinsOf("spi")
      BY <3>3 DEF Set
    <3>6. Len(todo[c]) = 3 => \A p \in {"clk", "cs", "mi", "mo"} : Among(p, pins'[c])
      BY <3>2, <3>4, <3>5
    <3> QED
      BY <1>3, <2>1, <2>2, <2>5, <3>2, <3>6 DEF OpenAlone, Alone
  <2>8. ASSUME NEW t \in Threads, Select(t)
        PROVE  Goal
    <3>1. t = c
      BY <2>3, <2>8 DEF Select
    <3> QED
      BY <2>1, <2>2, <2>5, <2>8, <3>1, AloneSelect
  <2>9. ASSUME NEW t \in Threads, SelectNull(t)
        PROVE  FALSE
    BY <2>1, <2>9, WantedIs DEF SelectNull, AllFound
  <2> QED
    BY <1>3, <2>4, <2>6, <2>7, <2>8, <2>9
    DEF Next, PlatProbe, Lookup, ProbeStep, PlatSeen, WaitForPlat, WaitTimeout,
        GoOn, ThreadStep, SelectMissing, Return, vars, callVars
<1>4. \/ \E d \in Callers, which \in {"OPEN", "CLOSE"} : Ioctl(d, which)
      \/ op[c] = "OPEN" /\ ~disturbed[c]
  BY <1>1
  DEF TypeOK, Next, PlatProbe, Lookup, ProbeStep, PlatSeen, WaitForPlat, WaitTimeout,
      GoOn, ThreadStep, Enter, Select, SelectNull, SelectMissing, Return, vars,
      deviceVars, callVars, historyVars
<1> QED
  BY <1>2, <1>3, <1>4

-----------------------------------------------------------------------------
(* Theorems                                                                *)

(* At every moment each thread is inside its script of setters, the pin    *)
(* states are found in their order, and what the ioctls owe the pins is    *)
(* still ahead of one of their threads.                                    *)
THEOREM Invariance == Spec => []Inv
<1>1. Init => Inv
  <2> SUFFICES ASSUME Init PROVE Inv
    OBVIOUS
  <2>1. TypeOK /\ Progress
    BY TypeInit, ProgressInit
  <2>2. LookupsInOrder
    BY DEF Init, LookupsInOrder, PinStates
  <2>3. ProbeFirst /\ Agreed /\ OpenAlone
    BY DEF Init, ProbeFirst, Quiet, Agreed, OpenAlone, Alone, Threads
  <2>4. BusOwed
    BY DEF Init, BusOwed, Pins
  <2> QED
    BY <2>1, <2>2, <2>3, <2>4 DEF Inv
<1>2. Inv /\ [Next]_vars => Inv'
  BY TypeStep, ProgressStep, LookupsStep, ProbeFirstStep, BusStep, AgreedStep, AloneStep
  DEF Inv
<1> QED
  BY <1>1, <1>2, PTL DEF Spec

(* A quiet moment has nothing ahead of it.                                 *)
LEMMA QuietReached ==
  ASSUME Inv, Quiet, NEW p \in Pins, NEW v \in {0, 1}, Heading(p, v)
  PROVE  level[p] = v
<1>1. \A t \in Threads : todo[t] = <<>>
  BY DEF Inv, Progress, Quiet, TypeOK, Script, Suffix
<1>2. \A t \in Threads : ~Ahead(t, p, v)
  BY <1>1 DEF Ahead
<1> QED
  BY <1>2 DEF Heading

(* However many OPENs, CLOSEs and the probe interleave pin by pin, no SPI  *)
(* pin is left a GPIO once no call is in flight.                           *)
THEOREM BusReturned == Spec => []BusGivenBack
<1>1. Inv => BusGivenBack
  <2> SUFFICES ASSUME Inv, Quiet, AllFound, NEW p \in {"clk", "cs", "mi", "mo"}
               PROVE  level[p] # 0
    BY DEF BusGivenBack, SpiPins
  <2>1. p \in Pins /\ (level[p] = Boot \/ Heading(p, 1))
    BY DEF Inv, BusOwed, AllFound, Pins
  <2> QED
    BY <2>1, QuietReached DEF Boot
<1> QED
  BY <1>1, Invariance, PTL

(* Once the ioctls in flight have all asked for the same and are over, the *)
(* chip is in the state they asked for, in whatever order the threads have *)
(* selected the pins.                                                      *)
THEOREM PowerReached == Spec => []PowerAsAsked
<1>1. Inv => PowerAsAsked
  <2> SUFFICES ASSUME Inv, Quiet PROVE PowerAsAsked
    BY DEF PowerAsAsked
  <2>1. {"down", "reset"} \subseteq Pins
    BY DEF Pins
  <2> QED
    BY <2>1, QuietReached DEF Inv, Agreed, PowerAsAsked
<1> QED
  BY <1>1, Invariance, PTL

(* An OPEN that nobody disturbs releases the reset with the power on and   *)
(* all SPI pins GPIOs, before it hands them to the SPI controller.         *)
THEOREM ResetLast == Spec => ResetReleasedLast
<1>1. Inv /\ [Next]_vars =>
        [\A c \in Callers :
           /\ op[c] = "OPEN" /\ ~disturbed[c]
           /\ level["reset"] = 0 /\ level'["reset"] = 1
           => level["down"] = 1 /\ \A i \in 1 .. Len(SpiPins) : level[SpiPins[i]] = 0]_vars
  <2> SUFFICES ASSUME Inv, [Next]_vars, NEW c \in Callers, Alone(c),
                      level["reset"] = 0, level'["reset"] = 1
               PROVE  /\ level["down"] = 1
                      /\ \A p \in {"clk", "cs", "mi", "mo"} : level[p] = 0
    BY DEF Alone, SpiPins
  <2>1. \A t \in Threads \ {c} : pins[t] = <<>>
    BY DEF Inv, OpenAlone, Progress, TypeOK, Script, Suffix
  <2>2. PICK t \in Threads : Select(t)
    BY DEF Next, PlatProbe, Lookup, ProbeStep, PlatSeen, WaitForPlat, WaitTimeout,
           GoOn, ThreadStep, Enter, SelectNull, SelectMissing, Return, Ioctl, vars
  <2>3. t = c /\ pins[c] # <<>> /\ c \in Threads /\ op[c] = "OPEN"
    BY <2>1, <2>2 DEF Select, Alone
  <2>4. level' = [level EXCEPT ![pins[c][1]] = todo[c][1].cmd]
    BY <2>2, <2>3, WantedIs DEF Select, Inv
  <2>5. pins[c][1] = "reset" /\ todo[c][1].cmd = 1
    BY <2>4 DEF Inv, TypeOK, Pins
  <2>6. /\ Len(todo[c]) \in 1 .. 5
        /\ Len(todo[c]) = 5 => todo[c][1] = Set("down", 1)
        /\ Len(todo[c]) = 4 => todo[c][1] = Set("reset", 0)
        /\ Len(todo[c]) = 3 => todo[c][1] = Set("spi", 0)
        /\ Len(todo[c]) = 1 => todo[c][1] = Set("spi", 1)
        /\ todo[c][1].group = "down" => pins[c][1] = "down"
        /\ todo[c][1].group = "spi" => pins[c][1] \in {"clk", "cs", "mi", "mo"}
    BY <2>3, InOpen, InScript DEF Inv
  <2>7. Len(todo[c]) \in 1 .. 5 /\ Len(todo[c]) \notin {1, 3, 4, 5}
    BY <2>5, <2>6 DEF Set
  <2>8. Len(todo[c]) = 2
    BY <2>7
  <2>9. Len(todo[c]) < 5 => level["down"] = 1
    BY DEF Inv, OpenAlone
  <2>10. \A p \in {"clk", "cs", "mi", "mo"} : level[p] = 0
    BY <2>8 DEF Inv, OpenAlone
  <2> QED
    BY <2>8, <2>9, <2>10
<1> QED
  BY <1>1, Invariance, PTL DEF Spec, ResetReleasedLast
=============================================================================
