---------------------------- MODULE SecurityPower ---------------------------
(***************************************************************************)
(* The pins of the chip: how the platform driver of security_se.c obtains  *)
(* their states from the device tree, how esp_probe waits for it, and how  *)
(* the ioctls ESP_IOC_OPEN_DEV and ESP_IOC_CLOSE_DEV of esp_common.c power *)
(* the chip up and down with them.                                         *)
(*                                                                         *)
(* A pin state <<p, cmd>> is what hct_security_set_reset(cmd), _set_down   *)
(* or _set_spi_mode selects for pin p; for the SPI pins cmd 0 makes the    *)
(* pin a GPIO and 1 a pin of the SPI controller.  A pin state is "null"    *)
(* until it is looked up, then "ok" or "err".                              *)
(*                                                                         *)
(* The threads are the platform probe, the SPI probe and the Callers of    *)
(* the ioctls.  Nothing in either file is a lock.  How the SPI probe goes  *)
(* on after the pins is not of interest here: the device can be opened     *)
(* once it is past them.                                                   *)
(***************************************************************************)
EXTENDS Naturals, Sequences

CONSTANTS
  Callers,   \* threads inside ioctl
  SpiProbe   \* the thread of esp_probe

ASSUME ProbeAssumption == SpiProbe \notin Callers

Threads == Callers \cup {SpiProbe}

SpiPins == <<"clk", "cs", "mi", "mo">>

Pins == {"down", "reset", "clk", "cs", "mi", "mo"}

VARIABLES
  plat,     \* hct_security_plat is not NULL
  found,    \* what is known of each pin state
  next,     \* the lookup that is next, or 0 once the platform probe is over
  spi,      \* where the SPI probe is: "start", "asleep", "going"
  op,       \* what a thread is doing
  todo,     \* the calls it has yet to finish, the current one first
  pins,     \* the pins the current call has yet to select
  level,    \* the state each pin was last switched to, or Boot
  oops,     \* threads that selected a state they do not have
  disturbed,  \* history: another ioctl was in flight during the thread's
              \* own, or a state had yet to be found when it began
  want      \* history: what the ioctls since the last quiet moment agree on,
            \* if every state had been found by then

deviceVars == <<plat, found, next, spi>>

callVars == <<op, todo, pins>>

historyVars == <<disturbed, want>>

vars == <<deviceVars, callVars, level, oops, historyVars>>

-----------------------------------------------------------------------------
(* The lookups of hct_security_get_gpio_info, in its order; the first is   *)
(* devm_pinctrl_get.                                                       *)
Pinctrl == <<"pinctrl", 0>>

Lookups ==
  << Pinctrl,
     <<"reset", 1>>, <<"reset", 0>>, <<"down", 1>>, <<"down", 0>>,
     <<"mi", 1>>, <<"mi", 0>>, <<"mo", 1>>, <<"mo", 0>>,
     <<"clk", 1>>, <<"clk", 0>>, <<"cs", 1>>, <<"cs", 0>>, <<"eint", 0>> >>

(* The level of a pin nothing has switched yet.                            *)
Boot == 2

PinStates == {Pinctrl, <<"eint", 0>>} \cup (Pins \X {0, 1})

(* A call of one of the setters; a setter refuses when one of the states   *)
(* of its pins is an error pointer, whichever it is about to select.       *)
Set(group, cmd) == [group |-> group, cmd |-> cmd]

PinsOf(group) == IF group = "spi" THEN SpiPins ELSE <<group>>

Refuses(group) ==
  \E i \in 1 .. Len(PinsOf(group)), cmd \in {0, 1} :
    found[<<PinsOf(group)[i], cmd>>] = "err"

\* Altered, for the checks: reset released before the pins are GPIOs, the
\* pins never given back to the SPI controller, and the power left on.
CallsReordered(which) ==
  IF which = "OPEN"
  THEN <<Set("down", 1), Set("reset", 0), Set("reset", 1), Set("spi", 0), Set("spi", 1)>>
  ELSE <<Set("down", 0), Set("reset", 0)>>

CallsWithoutSpi(which) ==
  IF which = "OPEN"
  THEN <<Set("down", 1), Set("reset", 0), Set("spi", 0), Set("reset", 1)>>
  ELSE <<Set("down", 0), Set("reset", 0)>>

CallsKeepPower(which) ==
  IF which = "OPEN"
  THEN <<Set("down", 1), Set("reset", 0), Set("spi", 0), Set("reset", 1), Set("spi", 1)>>
  ELSE <<Set("reset", 0)>>

(* esp_hw_power is hct_security_set_reset and a delay.                     *)
Calls(which) ==
  IF which = "OPEN"
  THEN <<Set("down", 1), Set("reset", 0), Set("spi", 0), Set("reset", 1), Set("spi", 1)>>
  ELSE <<Set("down", 0), Set("reset", 0)>>

-----------------------------------------------------------------------------
TypeOK ==
  /\ plat \in BOOLEAN
  /\ found \in [PinStates -> {"null", "ok", "err"}]
  /\ next \in 0 .. Len(Lookups)
  /\ spi \in {"start", "asleep", "going"}
  /\ op \in [Threads -> {"none", "PROBE", "OPEN", "CLOSE"}]
  /\ todo \in [Threads -> Seq([group : {"down", "reset", "spi"}, cmd : {0, 1}])]
  /\ pins \in [Threads -> Seq(Pins)]
  /\ level \in [Pins -> {0, 1, Boot}]
  /\ oops \subseteq Threads
  /\ disturbed \in [Callers -> BOOLEAN]
  /\ want \in {"none", "OPEN", "CLOSE", "mixed"}

Init ==
  /\ plat = FALSE
  /\ found = [s \in PinStates |-> "null"]
  /\ next = 1
  /\ spi = "start"
  /\ op = [t \in Threads |-> "none"]
  /\ todo = [t \in Threads |-> <<>>]
  /\ pins = [t \in Threads |-> <<>>]
  /\ level = [p \in Pins |-> Boot]
  /\ oops = {}
  /\ disturbed = [c \in Callers |-> FALSE]
  /\ want = "none"

-----------------------------------------------------------------------------
(* The platform probe                                                      *)

(* hct_security_plat_probe publishes the device, and                       *)
(* hct_security_get_gpio_info wakes the waiter, before any lookup.         *)
PlatProbe ==
  /\ ~plat
  /\ plat' = TRUE
  /\ UNCHANGED <<found, next, spi, callVars, level, oops, historyVars>>

(* A lookup that fails ends them: the states after it stay NULL, and the   *)
(* probe succeeds all the same.                                            *)
Lookup(result) ==
  /\ plat
  /\ next # 0
  /\ found' = [found EXCEPT ![Lookups[next]] = result]
  /\ next' = IF result = "err" \/ next = Len(Lookups) THEN 0 ELSE next + 1
  /\ UNCHANGED <<plat, spi, callVars, level, oops, historyVars>>

-----------------------------------------------------------------------------
(* The SPI probe: hct_waite_for_security_dts_paser, then                   *)
(* hct_security_set_spi_mode(1).                                           *)

GoOn ==
  /\ spi' = "going"
  /\ op' = [op EXCEPT ![SpiProbe] = "PROBE"]
  /\ todo' = [todo EXCEPT ![SpiProbe] = <<Set("spi", 1)>>]
  /\ UNCHANGED <<plat, found, next, pins, level, oops, historyVars>>

(* The device is there, or has come and woken the sleeper.                 *)
PlatSeen == spi \in {"start", "asleep"} /\ plat /\ GoOn

WaitForPlat ==
  /\ spi = "start"
  /\ ~plat
  /\ spi' = "asleep"
  /\ UNCHANGED <<plat, found, next, callVars, level, oops, historyVars>>

\* Altered, for the checks: the wait has no timeout.
WaitForPlatOnly == spi = "asleep" /\ plat /\ GoOn

(* After three seconds, or a signal, the probe goes on without it.         *)
WaitTimeout == spi = "asleep" /\ GoOn

-----------------------------------------------------------------------------
(* The setters, as any thread executes them                                *)

(* Enter the next call, or return from it at once.                         *)
Enter(t) ==
  /\ todo[t] # <<>>
  /\ pins[t] = <<>>
  /\ IF Refuses(Head(todo[t]).group)
     THEN /\ todo' = [todo EXCEPT ![t] = Tail(@)]
          /\ UNCHANGED pins
     ELSE /\ pins' = [pins EXCEPT ![t] = PinsOf(Head(todo[t]).group)]
          /\ UNCHANGED todo
  /\ UNCHANGED <<deviceVars, op, level, oops, historyVars>>

(* pinctrl_select_state for the next pin.                                  *)
Wanted(t) == <<Head(pins[t]), Head(todo[t]).cmd>>

Has(s) == found[Pinctrl] = "ok" /\ found[s] = "ok"

PinDone(t) ==
  /\ pins' = [pins EXCEPT ![t] = Tail(@)]
  /\ todo' = [todo EXCEPT ![t] = IF Len(pins[t]) = 1 THEN Tail(@) ELSE @]

Select(t) ==
  /\ pins[t] # <<>>
  /\ t \notin oops
  /\ Has(Wanted(t))
  /\ level' = [level EXCEPT ![Wanted(t)[1]] = Wanted(t)[2]]
  /\ PinDone(t)
  /\ UNCHANGED <<deviceVars, op, oops, historyVars>>

(* A NULL state is taken for the current one as long as none was selected, *)
(* unless the device tree has a default state.                             *)
SelectNull(t) ==
  /\ pins[t] # <<>>
  /\ t \notin oops
  /\ found[Pinctrl] = "ok"
  /\ found[Wanted(t)] = "null"
  /\ \A p \in Pins : level[p] = Boot
  /\ PinDone(t)
  /\ UNCHANGED <<deviceVars, op, level, oops, historyVars>>

(* Otherwise selecting a state that is not there ends the thread.          *)
SelectMissing(t) ==
  /\ pins[t] # <<>>
  /\ t \notin oops
  /\ ~Has(Wanted(t))
  /\ oops' = oops \cup {t}
  /\ UNCHANGED <<deviceVars, callVars, level, historyVars>>

Return(t) ==
  /\ op[t] # "none"
  /\ todo[t] = <<>>
  /\ op' = [op EXCEPT ![t] = "none"]
  /\ disturbed' = [c \in Callers |-> disturbed[c] /\ c # t]
  /\ UNCHANGED <<deviceVars, todo, pins, level, oops, want>>

-----------------------------------------------------------------------------
(* Every state was found.                                                  *)
AllFound == \A s \in PinStates : found[s] = "ok"

Quiet == \A t \in Threads : op[t] = "none"

(* ESP_IOC_OPEN_DEV and ESP_IOC_CLOSE_DEV.                                 *)
Ioctl(c, which) ==
  /\ spi = "going"
  /\ op[SpiProbe] = "none"
  /\ op[c] = "none"
  /\ op' = [op EXCEPT ![c] = which]
  /\ todo' = [todo EXCEPT ![c] = Calls(which)]
  /\ disturbed' = [d \in Callers |->
                   \/ disturbed[d]
                   \/ d = c /\ ~(Quiet /\ AllFound)
                   \/ d # c /\ op[d] # "none"]
  /\ want' = IF AllFound /\ (Quiet \/ want = which) THEN which ELSE "mixed"
  /\ UNCHANGED <<deviceVars, pins, level, oops>>

-----------------------------------------------------------------------------
ThreadStep(t) ==
  Enter(t) \/ Select(t) \/ SelectNull(t) \/ SelectMissing(t) \/ Return(t)

ProbeStep == PlatSeen \/ WaitForPlat \/ WaitTimeout

Next ==
  \/ PlatProbe
  \/ \E result \in {"ok", "err"} : Lookup(result)
  \/ ProbeStep
  \/ \E t \in Threads : ThreadStep(t)
  \/ \E c \in Callers, which \in {"OPEN", "CLOSE"} : Ioctl(c, which)

(* Threads that can go on do, and the wait for the platform probe ends in  *)
(* time; the platform probe itself need not come.                          *)
Fairness ==
  /\ WF_vars(ProbeStep)
  /\ \A t \in Threads : WF_vars(ThreadStep(t))

Spec == Init /\ [][Next]_vars /\ Fairness

-----------------------------------------------------------------------------
(* Properties                                                              *)

(* What the setters' checks for error pointers are there for, and what     *)
(* they do not achieve: a lookup that fails leaves the states after it     *)
(* NULL, which is not an error pointer.                                    *)
NeverSelectsMissing == oops = {}

(* When no call is in flight, no SPI pin is left a GPIO, however many      *)
(* threads ran OPEN and CLOSE at the same time, and even if some of the    *)
(* calls were made before the device tree was parsed: every OPEN gives all *)
(* four pins back, and the last to give one back comes after the last to   *)
(* take it.                                                                *)
BusGivenBack ==
  Quiet /\ AllFound => \A i \in 1 .. Len(SpiPins) : level[SpiPins[i]] # 0

(* Once the ioctls in flight agree and are over, the chip is in the state  *)
(* they ask for: after OPEN powered, out of reset and on the SPI bus,      *)
(* after CLOSE without power and in reset, however many threads ran the    *)
(* same sequence at the same time.                                         *)
PowerAsAsked ==
  Quiet =>
    /\ want = "OPEN" => \A p \in Pins : level[p] = 1
    /\ want = "CLOSE" => level["down"] = 0 /\ level["reset"] = 0

(* An OPEN that runs alone, with every state found, releases the chip from *)
(* reset with the power on and every SPI pin a GPIO, and hands the pins to *)
(* the SPI controller only afterwards.                                     *)
ResetReleasedLast ==
  [][\A c \in Callers :
       /\ op[c] = "OPEN" /\ ~disturbed[c]
       /\ level["reset"] = 0 /\ level'["reset"] = 1
       => level["down"] = 1 /\ \A i \in 1 .. Len(SpiPins) : level[SpiPins[i]] = 0]_vars

(* The SPI probe never hangs on the platform probe: it gets past the pins, *)
(* or fails to select one.                                                 *)
ProbeGoesOn ==
  <>(spi = "going" /\ (op[SpiProbe] = "none" \/ SpiProbe \in oops))
=============================================================================
