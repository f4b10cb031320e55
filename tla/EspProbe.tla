------------------------------ MODULE EspProbe ------------------------------
(***************************************************************************)
(* esp_probe, esp_remove, esp_open and esp_release of the ESP8266 driver:  *)
(* what the probe acquires, step by step, what it gives back when a step   *)
(* fails, and who can open the device meanwhile and afterwards.            *)
(*                                                                         *)
(* The driver core probes the device again after a failure (a rebind, a    *)
(* deferred probe) but never while it is bound.  What comes before the     *)
(* first allocation, the pins, is SecurityPower.                           *)
(***************************************************************************)
EXTENDS Naturals, Sequences

CONSTANT Files   \* open files of applications

VARIABLES
  at,        \* where the probe is: "idle", about to acquire, or undoing
  held,      \* what is acquired
  isok,      \* hct_security_probe_isok, the static variable of esp_common.c
  bound,     \* the device is bound to the driver
  removed,   \* history: esp_remove has run
  file       \* an application's file: the device esp_open found for it

vars == <<at, held, isok, bound, removed, file>>

-----------------------------------------------------------------------------
\* Altered, for the checks: the device can be opened before sysfs is there.
RungsCdevFirst ==
  <<"esp_dev", "spi_buffer", "irq", "class", "devno", "device", "cdev", "sysfs">>

(* What the probe acquires, in its order.  With the device goes its entry  *)
(* in device_list.                                                         *)
Rungs ==
  <<"esp_dev", "spi_buffer", "irq", "class", "devno", "device", "sysfs", "cdev">>

Resources == {Rungs[i] : i \in 1 .. Len(Rungs)}

After(r) ==
  LET i == CHOOSE j \in 1 .. Len(Rungs) : Rungs[j] = r
  IN  IF i = Len(Rungs) THEN "idle" ELSE Rungs[i + 1]

\* Altered, for the checks: a failure goes one label too high.
ErrorLabelTooHigh(r) ==
  CASE r = "esp_dev" -> "idle"
    [] r = "spi_buffer" -> "err_buf"
    [] r = "class" -> "err_class"
    [] r = "devno" -> "err_devno"
    [] r = "device" -> "err_device"
    [] OTHER -> "err_cdev"

(* Where a failing step goes.                                              *)
ErrorLabel(r) ==
  CASE r = "esp_dev" -> "idle"
    [] r = "spi_buffer" -> "err_buf"
    [] r = "class" -> "err_class"
    [] r = "devno" -> "err_devno"
    [] r = "device" -> "err_device"
    [] r = "sysfs" -> "err_sysfs"
    [] OTHER -> "err_cdev"

(* The labels fall through in this order.                                  *)
Labels ==
  <<"err_cdev", "err_sysfs", "err_device", "err_devno", "err_class", "err_buf">>

\* Altered, for the checks: without class_destroy.
UndoesKeepClass(label) ==
  CASE label = "err_cdev" -> "sysfs"
    [] label = "err_sysfs" -> "device"
    [] label = "err_device" -> "devno"
    [] label = "err_devno" -> "devno"
    [] label = "err_class" -> "spi_buffer"
    [] label = "err_buf" -> "esp_dev"

(* What a label gives back.  None gives back the interrupt.                *)
Undoes(label) ==
  CASE label = "err_cdev" -> "sysfs"
    [] label = "err_sysfs" -> "device"
    [] label = "err_device" -> "devno"
    [] label = "err_devno" -> "class"
    [] label = "err_class" -> "spi_buffer"
    [] label = "err_buf" -> "esp_dev"

LabelSet == {Labels[i] : i \in 1 .. Len(Labels)}

FallThrough(label) ==
  LET i == CHOOSE j \in 1 .. Len(Labels) : Labels[j] = label
  IN  IF i = Len(Labels) THEN "idle" ELSE Labels[i + 1]

-----------------------------------------------------------------------------
TypeOK ==
  /\ at \in {"idle"} \cup Resources \cup LabelSet
  /\ held \subseteq Resources
  /\ isok \in BOOLEAN
  /\ bound \in BOOLEAN
  /\ removed \in BOOLEAN
  /\ file \in [Files -> {"closed", "found", "open", "dangling"}]

Init ==
  /\ at = "idle"
  /\ held = {}
  /\ isok = FALSE
  /\ bound = FALSE
  /\ removed = FALSE
  /\ file = [f \in Files |-> "closed"]

(* kfree(esp_dev) under the feet of whoever has found it or has it open.   *)
Dangle ==
  file' = [f \in Files |-> IF file[f] \in {"found", "open"} THEN "dangling" ELSE file[f]]

-----------------------------------------------------------------------------
(* esp_probe; with isok set it returns at once.                            *)
Probe ==
  /\ at = "idle"
  /\ ~bound
  /\ ~isok
  /\ at' = Rungs[1]
  /\ UNCHANGED <<held, isok, bound, removed, file>>

(* A step succeeds; the last one makes the probe succeed.  An interrupt    *)
(* that is still held cannot be had again, but that is a failure nobody    *)
(* looks at.                                                               *)
Acquire ==
  /\ at \in Resources
  /\ held' = held \cup {at}
  /\ at' = After(at)
  /\ isok' = (isok \/ After(at) = "idle")
  /\ bound' = (After(at) = "idle")
  /\ UNCHANGED <<removed, file>>

(* A step fails.  What esp_init_interrupt returns is not looked at.        *)
Fail ==
  /\ at \in Resources
  /\ at' = IF at = "irq" THEN After(at) ELSE ErrorLabel(at)
  /\ UNCHANGED <<held, isok, bound, removed, file>>

Undo ==
  /\ at \in LabelSet
  /\ held' = held \ {Undoes(at)}
  /\ at' = FallThrough(at)
  /\ IF Undoes(at) = "esp_dev" THEN Dangle ELSE UNCHANGED file
  /\ UNCHANGED <<isok, bound, removed>>

\* Altered, for the checks: esp_remove lets the next probe begin.
RemoveResetsIsok ==
  /\ at = "idle"
  /\ bound
  /\ bound' = FALSE
  /\ isok' = FALSE
  /\ removed' = TRUE
  /\ held' = held \ {"esp_dev"}
  /\ Dangle
  /\ UNCHANGED at

(* esp_remove.  esp_dev->input is NULL, as nothing ever sets it: esp_dev   *)
(* is freed and that is all.                                               *)
Remove ==
  /\ at = "idle"
  /\ bound
  /\ bound' = FALSE
  /\ removed' = TRUE
  /\ held' = held \ {"esp_dev"}
  /\ Dangle
  /\ UNCHANGED <<at, isok>>

-----------------------------------------------------------------------------
(* esp_open finds the entry of the device in device_list; there is no way  *)
(* to it without the character device ...                                  *)
Open(f) ==
  /\ file[f] = "closed"
  /\ {"cdev", "device"} \subseteq held
  /\ file' = [file EXCEPT ![f] = IF "esp_dev" \in held THEN "found" ELSE "dangling"]
  /\ UNCHANGED <<at, held, isok, bound, removed>>

(* ... and keeps it after the list is unlocked.                            *)
Opened(f) ==
  /\ file[f] = "found"
  /\ file' = [file EXCEPT ![f] = "open"]
  /\ UNCHANGED <<at, held, isok, bound, removed>>

(* esp_release writes to the device it was opened for.                     *)
Release(f) ==
  /\ file[f] \in {"open", "dangling"}
  /\ file' = [file EXCEPT ![f] = "closed"]
  /\ UNCHANGED <<at, held, isok, bound, removed>>

-----------------------------------------------------------------------------
Next ==
  \/ Probe
  \/ Acquire
  \/ Fail
  \/ Undo
  \/ Remove
  \/ \E f \in Files : Open(f) \/ Opened(f) \/ Release(f)

Spec == Init /\ [][Next]_vars

-----------------------------------------------------------------------------
(* Properties                                                              *)

(* The error path gives back only what has been acquired and not yet given *)
(* back, whichever step failed.                                            *)
UndoesHeld == at \in LabelSet => Undoes(at) \in held

(* A probe acquires everything (but perhaps the interrupt) or gives        *)
(* everything back (but perhaps the interrupt), and isok tells which.      *)
AllOrNothing ==
  at = "idle" /\ ~removed =>
    IF isok THEN Resources \ {"irq"} \subseteq held ELSE held \subseteq {"irq"}

(* No step of a probe acquires what something else still holds, the        *)
(* interrupt aside: an earlier probe that failed has given everything back,*)
(* and after esp_remove, which gives back nothing but the device, there is *)
(* no probe any more, because isok is never reset.                         *)
AcquiresAnew == at \in Resources \ {"irq"} => at \notin held

(* Nobody has a freed device open, unless esp_remove has freed it: once    *)
(* the device can be opened the probe can no longer fail.                  *)
FilesLive == ~removed => \A f \in Files : file[f] # "dangling"
=============================================================================
