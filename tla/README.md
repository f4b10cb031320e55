# A TLA+ model of hidl

hidl is the software of an Android device with a small ESP8266 security chip:
a Linux kernel driver for the chip, legacy HAL libraries that call the driver,
and HIDL services that applications reach over binder.  This directory holds
TLA+ models of its parts, TLC runs over small instances and TLAPS proofs for
all instances.

Contents: [inventory](#inventory), [plan](#plan),
[modules and code](#modules-and-code), [runs](#runs), [fairness](#fairness),
[proofs](#proofs), [only model-checked](#only-model-checked),
[findings](#findings), [not modelled](#not-modelled).

## Inventory

The call path, from an application to the chip:

    application -- binder --> WifiProbePort / TalkiePort / GestureWake   (service process)
        --> wifi_probe / talkie / gesturewake legacy HAL                 (same process)
        --> ioctl on /dev/esp, /dev/talkie, ...                          (kernel)
        --> esp_common.c  -- SPI, interrupt line, pins (security_se.c) --> chip

and back: the chip raises its interrupt line, a tasklet wakes the thread that
sits in `ioctl(ESP_IOC_SPI_EINT)`, which reads the data with
`ESP_IOC_GET_DATA` and calls the application's callback.

| # | component | state | operations | hard behaviour | what makes it correct |
|---|---|---|---|---|---|
| 1 | interrupt path (`esp_common.c` 138-211) | `is_eint_timeout`, `flag_irq`, `flag_irq_timeout`, two wait queues, two tasklets, the line's disable depth | handler, two tasklets, two waits | handler, tasklets and waiting threads interleave; one flag per queue is shared by its threads; only one of the waits is timed | disable and enable pair up, no lost wake-up, no return on an old interrupt, the driver never goes deaf |
| 2 | command protocol (`esp_common.c` 213-384) | `dev_lock`, locals of `esp_spi_send` (retry, i, count), `is_eint_timeout` | `esp_spi_send`, `esp_spi_read`, `esp_spi_write`, `esp_spi_sync` | retries, timeouts, late answers, allocation failures, several commands at once, messages longer than a frame | retries as often as meant, message complete and in order, answers belong to commands, lock released, every command returns |
| 3 | ioctl dispatch and power (`esp_common.c` 469-592) | the pins | `esp_ioctl`, `esp_hw_power` | power sequences of several threads without a lock | pins and power as the callers asked |
| 4 | probe, remove, open, release (`esp_common.c` 658-921) | `esp_dev`, `device_list`, class, devno, cdev, sysfs group, irq, `hct_security_probe_isok` | `esp_probe`, `esp_remove`, `esp_open`, `esp_release` | each of a dozen steps may fail; remove against open files | what was acquired is released once, nothing freed is reachable |
| 5 | debug attribute, test timer (`esp_common.c` 386-460, 607-653) | `g_debug_level`, hrtimer | `esp_debug_show`, `_store`, timer | - | - |
| 6 | security platform driver (`security_se.c`) | `hct_security_plat`, 13 pin states, the wait queue `security_init_waiter` | platform probe, wait, setters | parsing races the SPI probe; a lookup fails; the wait times out | a pin state is used only once it is known |
| 7 | wifi_probe HAL (`libhardware/wifi_probe`) | static file descriptor, device record | open, close, start, stop, version, upgrade, data | legal calls in an unexpected order, failures half way | the descriptor used is the one opened; each descriptor closed once |
| 8 | `WifiProbePort` service | HAL device, callback, `destroyThread`, thread id | binder calls, listener thread, signal handler | start and stop against the listener thread; a signal between test and ioctl | a start listens, a stop is not lost and ends the listener, at most one more report after it |
| 9 | talkie HAL and `TalkiePort` | as 7 and 8 | speak enable and disable, speaker, listener | as 8 | as 8 |
| 10 | gesture wake HAL and `GestureWake` | as 7 and 8 | enable, listener | as 8 | as 8 |
| 11 | service mains | one binder thread each | register, join the pool | - | calls of clients are serialised |
| 12 | `.hal` definitions, makefiles, manifests, init scripts | - | - | - | - |

How they interact: 1 and 2 share `is_eint_timeout`, and 2 waits through 1.
3 is called with the same open file as 2.  4 creates what 2 and 3 use, waits
for 6 and switches its pins.  8-10 call 7 and its siblings from a binder thread
and a listener thread at once; both end up in `ioctl`, that is in 2 and 1.

What a test would hardly reach is listed line by line under `hazards` in
`PROJECT.json`.

## Plan

Written, in this order:

1. `EspInterrupt` - the interrupt path, the code everything else waits on.
2. `EspFragment`, `EspSpiSend` - the command protocol and its arithmetic, with
   the wait reduced to "may end at any time"; `EspCommand`, the abstract
   command it implements.
3. `EspDriver` - the composition of 1 and 2.
4. `SecurityPower` - pins, platform probe and the power ioctls.
5. `HidlListener` - the listener thread that `WifiProbePort`, `TalkiePort` and
   `GestureWake` share.
6. `EspProbe` - the resource ladder of `esp_probe`, `esp_remove`, `esp_open`,
   `esp_release`; `EspBringUp`, the interrupt at work while the ladder is
   climbed, fails and is repeated.
7. `HalDevice` - the static descriptor of the three legacy HALs and the calls
   of the services that open, close and use it.
8. `WifiProbeService` - the composition of 5 and 7 for one service.

Every component has its proofs, in a module of the same name with `_proofs`.

To come: the removal of the platform device under running ioctls, on an
instance that TLC can finish; the content of the gesture HAL's shared buffer.

## Modules and code

`EspInterrupt` (component 1).  Threads are `Listeners` (in `esp_wait_spi_eint`)
and `Senders` (in `esp_wait_spi_eint_timeout`).  A queue is `"event"` or
`"reply"`: its flag, its tasklet, its waiters.

| variable | code |
|---|---|
| `is_eint_timeout` | the global of that name |
| `edge`, `depth` | the latched rising edge and the disable depth of the irq, kept by the kernel |
| `scheduled`, `stage` | the tasklets: scheduled; past the flag; past the wake-up |
| `flag` | `flag_irq`, `flag_irq_timeout` |
| `wait` | a thread in `wait_event_interruptible[_timeout]`: not there, about to test, asleep |
| `fired` | history: the thread's tasklet has run since the wait began |

The handler, each of the three statements of a tasklet, and entry, test,
sleep, timeout and signal of a wait are actions.  Testing the condition and
falling asleep are one action, because the kernel's wait macro queues the
thread before it tests.  A thread can be woken by a tasklet and find the flag
reset by another thread of its queue that has begun to wait meanwhile; it then
sleeps again (`SleeperReleased` says that this is the only way).

`EspFragment` (component 2, arithmetic).  `FIFO_LEN`, `DATA_LEN`,
the number, offset and length of the frames of a message.

`EspSpiSend` (component 2).  `pc` is the place of a thread in `esp_spi_send`:
the write, the wait, the read, the acknowledgement of DATA_READ, the reset of
`is_eint_timeout`, the copy to the user.  A transfer is two actions, taking
`dev_lock` and transferring.  `retry` and `frag` are the loop variables; `rx`
is what was read last.  `upgraded` is history: the last command to begin was a
large message, which leaves `is_eint_timeout` at 1.  `SyncNoMemory` is the
-ENOMEM of `esp_spi_sync`, which all callers ignore.  The chip (external) holds
the frame it was sent last and its newest answer; it may answer, refuse or keep
silent.  `from` and `no` say which frame an answer belongs to; the driver never
sees them.

`EspCommand` (abstract) says what a caller sees of a command: rounds, as many
as its budget, ended by a success if it is of a kind that stops.  Threads do
not see each other.  `EspSpiSend!ImplementsCommand` maps `pc` to the phase, the
message to the kind and the loop variables to the rounds done; the transfers,
the lock, the waits and the chip stutter.

`EspDriver` (1 + 2).  Conjoins the actions of both: `WaitReturn`, `WaitTimeout`
and `WaitSignal` of the interrupt path are the ways `WaitOver` of the protocol
happens, `Answer` of the chip raises the line, `Begin` and `ResetMode` are the
`SetMode` of the interrupt path.  `disturbed` is a history variable: something
may have raised the line, or may yet raise it, that is not the answer to the
thread's frame.

`SecurityPower` (3, 6, and the beginning of `esp_probe`).  `found` has the pin
states (`NULL`, found, error pointer), filled in by `Lookup` in the order of
`hct_security_get_gpio_info`; a failing lookup ends the parsing, as in the
code.  `Enter` is the `IS_ERR` test of a setter, `Select` one
`pinctrl_select_state`, so the setters of two threads interleave pin by pin.
`SelectNull` and `SelectMissing` (external) are what pinctrl does with a state
that is not there: nothing, as long as NULL is its current state, or an oops.

`hct_security_plat_remove` is left out, see [not modelled](#not-modelled).

`HidlListener` (8, 9 and 10, the listener thread).  The binder thread takes a
call in two or three steps, a listener takes each turn of its loop in up to
five: the test of the flag, the entry of the ioctl (`Ask`, or `AskFails` if the
descriptor is not the device's), its return (`Get`), the test of the callback,
its use.  A signal that is pending when the ioctl is about to return with data
interrupts it first (`Get`'s guard).  The signal handler is a step of its own
that may come anywhere in the listener.

| variable | code |
|---|---|
| `service` | which of the three services; their code differs in a few lines, which the actions name |
| `device` | `mDevice != NULL` |
| `callback` | `mWifiProbeCallback`, `mTalkiePortCallback`, `mGestureWakeCallback` |
| `destroyThread`, `tid` | the globals of these names |
| `binder` | where the binder thread is: about to clear the flag, to create the thread, to signal it |
| `pc` | where a listener is in `thread_start`: the test of the flag, about to enter the ioctl, asleep in it, the test of the callback, its use |
| `pending` | listeners with a SIGUSR1 not delivered yet |
| `asked`, `stale`, `late` | history: the last call; whether a signal was outstanding when the flag was cleared; reports since the flag was set |

The callback is read twice, for the test and for the call.  That a `sp` is
assigned while another thread uses the object, which C++ leaves undefined, is
reduced to the case where the second read gives null.

`EspProbe` (4).  `at` is the step the probe is about to take or the label of
the error path it has come to; `held` is what is acquired.  Every step may
fail; the failure of `esp_init_interrupt` is ignored, as in the code, and the
interrupt is never given back.  `esp_open` finds the device under
`device_list_lock` and uses it afterwards, which are two steps, so the probe or
`esp_remove` may come between.

`EspBringUp` (1 + 4).  Conjoins `EspProbe` and `EspInterrupt`: the probe's
step `"irq"` is `InitInterrupt`, the `request_irq` that fails when an earlier
probe has left the interrupt requested, and the `enable_irq` that comes in any
case.  The chip may raise a requested line at any time, also when no device
exists; waits happen while a file is open.

`HalDevice` (7, 9 and 10, and the services' calls that reach the HAL).  `file`
says what each descriptor of the process names: nothing, the device, or another
file; `fd` is the HAL's static variable, `owned` what other threads hold.
`open_dev` of wifi_probe is two steps, the open and the ioctl.  Commands do not
change the state and are modelled by what they answer.  `told` and `orderly`
are history: what the last open or close has told the clients, and whether they
have opened only what was not open and closed only after an open.

`WifiProbeService` (5 over 7 of the plan, for `service = hal = "wifi_probe"`).
One binder thread makes the calls of both components.  `get_eint` loads the
static `fd` (`Load`, into `number`) and enters the ioctl later; the ioctl goes
to what the number names by then, so `Ask` needs it to be the device and
`AskFails` happens exactly when it is not.  Between the two steps clients may
close the device and open it under another number, and other threads may take
the old one.  A listener asleep in the device sleeps on when the descriptor is
closed, because the kernel keeps the file.  Two variables are history: `caught`
has the listeners that a close has caught so, `sure` those that have loaded
`fd` since the clients were told that the device is open, which they have not
closed since.  (The commands of `HalDevice` load `fd` and use it in one step:
they run in the binder thread, which alone writes and closes it.)  The service has found its HAL and
callbacks are not null here, and commands and queries, which change nothing,
are left out; the components have these cases.

The `MC*` modules extend a specification for TLC.  Definitions commented as
altered are slips a programmer could make; no specification uses them, they
exist to test that the properties can tell them from the code.

## Runs

| run | question | instance | answer |
|---|---|---|---|
| `interrupt` | Do handler, tasklets and waits fit together when threads share flags, and can the driver go deaf? | two listeners, two senders, `is_eint_timeout` arbitrary, written at any time | `IrqBalance`, `NoLostWakeup`, `NoStaleReturn`, `EdgeServed`, `SleeperReleased` hold |
| `send_safety` | What has a command sent when it returns, and what do callers see of it? | two senders, frames of 2, messages of 0-3 | `LockHolderTransfers`, `UpgradeComplete`, `FragmentsInOrder`, `AttemptBudget`, `AcknowledgedOnce`, `ReplyRouted`, `DeafOnlyAfterUpgrade` hold; `ImplementsCommand`: `EspCommand` is implemented |
| `send_live` | Does every command return when two contend? | two senders, empty messages and DATA_READ | `CommandReturns` |
| `driver` | Is a reported SUCCESS the answer to this command, do commands return, do listeners get their data? | one listener, one sender, messages of 0-2 | `SuccessIsFresh` under the conditions it names, `CommandReturns`, `ListenerServed` hold |
| `power` | What do unlocked power sequences leave behind, and can the SPI probe hang on the platform probe? | two threads in the ioctls, the SPI probe, the platform probe | `BusGivenBack`, `PowerAsAsked`, `ResetReleasedLast`, `ProbeGoesOn` hold |
| `listener` | What can a start and a stop rely on, in any order and however soon after each other, and do stopped listeners end? | two listener threads, one callback or none, each of the three services | `AtMostOneMore`, `StopHeard`, `StartedListens`, `InterruptedEnds`, `AllEnd` hold |
| `listener_null` | Does the test of the callback protect its use? | one listener thread | no, see [findings](#findings) |
| `bringup` | What is held after a failure at any step, what do open files refer to, and what does the interrupt do meanwhile? | two files, one listener, one sender, any number of probes | `UndoesHeld`, `AllOrNothing`, `AcquiresAnew`, `FilesLive`, `LineOwed`, `EdgeServed` hold |
| `hal` | For which sequences of calls does the static descriptor name the device? | five descriptors, the three HALs | for orderly ones: `DescriptorKept`, `ForeignKept` hold |
| `hal_answers` | Does a service without its HAL answer? | two descriptors | no, see [findings](#findings) |
| `service` | What do listeners notice of opens and closes under them, and whom does a close leave behind? | two listener threads, three descriptors, orderly clients | `FailuresHaveCause`, `ClosedReleases` hold |
| `power_missing` | Do the setters catch missing pin states? | as `power`, one thread in the ioctls | no, see [findings](#findings) |

Bounds.  Threads matter to the interrupt path only through the queue they wait
on, and two on each queue already share a flag in every way (one resets what
the other is about to test); two senders are enough for transfers to interleave
and for a command to overlap another.  With frames of 2 and messages up to 3,
there are small messages (0, 1), messages of one full frame and an empty one
(2) and of a full and a partial one (3); that the arithmetic is right for all
lengths is proved.  Two listener threads let one that a quick stop and start
has left behind live beside the one `tid` names; a thread that has ended stands
for a new one, so the number of starts has no bound.  (Three threads show the
same in close to five minutes; the safety properties are proved for any
number.)  In `EspBringUp` a second file is enough for one that stays open when
another is released; files do not disturb each other otherwise. In
`WifiProbeService` three descriptors, the standard one among them, let a
re-open get another number than the one a listener has loaded, while that one
is free or another thread's.  Its run is bounded to orderly clients by the
constraint `OrderlyClients`: both properties speak only of behaviours in which
clients are orderly throughout, `orderly` never becomes true again, and no step
that fairness demands makes it false, so none of these behaviours is cut.  Five
descriptors have room for the standard one, two of the device and two of other
threads.  The retry counter has the code's own bound of 3. Deadlock is checked
except where a thread that oopsed stops for good (`SecurityPower`) and where a
crash ends the process (`HidlListener`).

`SuccessIsFresh` deserves a word.  The driver never compares the id of an
answer with that of its command, so a SUCCESS is trustworthy only by timing.
The property lists what must not happen: another command, a data interrupt, an
answer or its interrupt still on the way when the command begins or a wait
gives up, a failed allocation.  Without its conditions on reads, disturbances
or lost frames TLC finds a command that reports another frame's success; the
one on overlapping commands is idle in this run, whose only sender is the
service's one binder thread.

`UpgradeComplete` exempts a message of which a write was skipped for want of
memory.  `FragmentsInOrder` does not: whatever the chip answers and whichever
writes are skipped, what it is given are fragments of the message, in order and
none twice.  That a skipped write or a refused fragment is not reported is the
code's behaviour and modelled as such.

`SleeperReleased` follows a sleeping listener in two stages.  Once the
listeners' tasklet is scheduled, the flag is set while it sleeps.  With the
flag set it returns, unless another listener is at the beginning of its wait,
has not been reached by the tasklet (`fired`) and has reset the flag the two
share.  A listener that was woken with it does not count: returning takes
nothing from the flag.  `ListenerServed` adds the part before: the edge must be
dispatched to the listeners' tasklet, which a command that begins first can
prevent, and a command that begins later cannot.  (`driver` has one listener,
so listeners that compete are the business of `interrupt`; an instance of
`driver` with two does not finish in five minutes.)

`AcquiresAnew` says why the static `isok` must not be reset: `esp_remove`
gives back the device structure only, and a probe after it would acquire the
class, the device number and the rest a second time.

`LineOwed` is what is left of `IrqBalance` when probes are repeated: after a
failed probe the interrupt is still requested and may be at work when the next
probe's `enable_irq` comes.  The line is then enabled while a tasklet still owes
its own `enable_irq`, and both tasklets may be active; `IrqBalance` fails in
`bringup`.  But `enable_irq` of an enabled line changes nothing, so the line is
never left disabled.

`DeafOnlyAfterUpgrade` bounds what the missing reset of `is_eint_timeout` after
a large message can do: with no command in flight, listeners are deaf only if
the last command to begin was a large one.

The services' promises are weak, and the properties say how weak.  A stop is
not waited for, so a listener may report once more (`AtMostOneMore`).  A start
soon after a stop may leave the old listener listening (the flag is cleared
before it is tested), or be undone by the old listener's signal (the flag is
set again): `StartedListens` holds if no signal is outstanding when the flag is
cleared.  A signal that comes just before the ioctl does not interrupt it, so a
listener ends at once only if it was asleep (`InterruptedEnds`), and otherwise
when the device next has something to tell (`AllEnd`).  Stopping and closing
is stronger: of the listeners, only those that the close has caught asleep may
stay behind (`ClosedReleases`), since the ioctl of any other fails at once and
its loop comes back to the flag; this takes orderly clients, because a close
that follows two opens leaves the first one's descriptor open, and a listener
that has loaded its number may still fall asleep in it.  Closing without
stopping leaves a listener that reports -1 over and over, as fast as it can.  A
listener may report a failure when orderly clients have the device open: it has
loaded a number before the last close, and enters its ioctl after the re-open
has got another.  What never happens is a failure of a listener that has loaded
the number since the device was opened and before it is closed
(`FailuresHaveCause`).

## Fairness

Weak fairness of what the kernel runs on its own: a pending interrupt on an
enabled line, a scheduled tasklet, a runnable thread, the expiry of a timed
wait (`wait_event_interruptible_timeout`, 200 jiffies; 3 s in
`hct_waite_for_security_dts_paser`), the delivery of a signal, the binder
thread within a call, a listener outside its ioctl.  `EspBringUp` assumes of
interrupts and waits what `EspInterrupt` does and nothing of probes and files;
`WifiProbeService` what `HidlListener` does, and that the second half of
`open_dev` follows the first.  Strong fairness of taking `dev_lock` in
`EspSpiSend` and `EspDriver`: the kernel's mutex is a queue, so a waiter gets
it in turn although it is taken and released repeatedly.  No fairness of the
chip, of a device having something to tell (`AllEnd` assumes it where it needs
it), of signals to the driver's threads, of a failing allocation, of the
platform probe or of an application's next call.

## Proofs

The modules `*_proofs` prove every invariant, action property and refinement
that a passing run checks, for all sets of threads, files, callbacks and
descriptors and for all lengths.  What is not a property of a run is the
theorems of the arithmetic, the components' properties stated for their
compositions, the types of `EspDriver`, and two inductive invariants that say
more than the properties drawn from them.

| theorem | statement |
|---|---|
| `EspInterrupt_proofs!TypeCorrect` | the types |
| `IrqBalanced` | `IrqBalance` is invariant; inductive as it stands once types are known |
| `WakeupsKept` | `NoLostWakeup`; needs `IrqBalance`, which keeps a tasklet from being scheduled a second time while it runs |
| `ReturnsFresh` | `NoStaleReturn`; the strengthening `FlagIsFresh` says that a set flag was set by a tasklet that ran after every present wait of the queue began, because each wait resets the flag on entry |
| `FragmentFits`, `FragmentsContiguous`, `LastFragment` | the frames of a message of any length: inside `txdata` and the message, without gap or overlap, ending it |
| `EspSpiSend_proofs!TypeCorrect` | the types; the retry counter never passes 0 |
| `LockReleased` | `LockHolderTransfers` |
| `RepliesRouted` | `ReplyRouted`; the strengthening `Alone` relates `overlap` to who else is in flight and to `is_eint_timeout` |
| `ReadsAcknowledged`, `AttemptsBudgeted` | `AcknowledgedOnce`, `AttemptBudget`; the strengthening `AttemptsLeft` counts the frames already sent at each place of the loop |
| `UpgradesComplete` | `UpgradeComplete`; the strengthening `Progress` says which frames have been sent after `frag` rounds, and the three theorems on fragments turn that into the message |
| `FragmentsOrdered` | `FragmentsInOrder`; the strengthening `Pieces` says that every frame sent so far is a fragment before the one the thread is at, or that one itself between its write and the end of its round, whether or not writes were skipped; so the next is beyond all of them |
| `DeafnessExplained` | `DeafOnlyAfterUpgrade`; the strengthening `ModeOwed` says that whoever set the variable to 1 is in flight and will reset it, unless the last to begin was a large message |
| `CommandImplemented` | `ImplementsCommand`, the refinement; it needs `Progress` (the rounds are what the loop variables say) and `Undecided` (inside the loop no round has succeeded that should have ended it) |
| `InterruptSafe`, `ProtocolSafe`, `CommandImplemented` (of `EspDriver_proofs`) | the safety properties of `EspInterrupt` and `EspSpiSend` and the implementation of `EspCommand`, of the driver composed of both |
| `EspDriver_proofs!TypeCorrect` | the types |
| `AnswersFresh` | `SuccessIsFresh`; the inductive invariant is `FreshInv`, see below |
| `ProbeCorrect` | the inductive invariant of the probe: `Ladder` (what is held at each step and each label, and that `isok` tells whether a probe has succeeded), `NoFileYet` (before that, no file is open) and `FilesLive` |
| `UndoneIsHeld`, `ProbeAtomic`, `ProbeAcquiresAnew`, `FilesKeepDevice` | `UndoesHeld`, `AllOrNothing`, `AcquiresAnew`, `FilesLive`, from it |
| `LineEnabledAgain` | `LineOwed`; inductive once the types are known, for the whole driver with its probes |
| `SecurityPower_proofs!Invariance` | the inductive invariant of the pins, see below |
| `BusReturned`, `PowerReached`, `ResetLast` | `BusGivenBack`, `PowerAsAsked`, `ResetReleasedLast`, from it |
| `HidlListener_proofs!TypeCorrect` | the types |
| `ReportsBounded` | `AtMostOneMore`; the strengthening `Finishing` says that a listener that has reported since the flag was set, with the flag still set, is back at the test |
| `StopsHeard`, `StartsListen` | `StopHeard`, `StartedListens`; the strengthening `Asking` relates the last call to where the binder thread is, to the flag and to the signals outstanding |
| `HalDevice_proofs!TypeCorrect` | the types |
| `DescriptorsKept`, `ForeignersKept` | `DescriptorKept`, `ForeignKept`; they need each other (what the others hold is not the device, so their closes do not close it) and that `fd` is -1 after a failed open, so the close that follows closes nothing; together `Keeping` |
| `ListenersSafe`, `DescriptorSafe` | the safety properties of both components, of the composed process |
| `FailuresCaused` | `FailuresHaveCause`; the strengthening `SureLoaded` says that while clients are orderly the number of every listener in `sure` is what `fd` is, since they do not open again before they close; with `Keeping` that number names the device, so its ioctl does not fail, however late it comes |

The compositions reuse the components' proofs.  These show their invariants
from `Steps == Init /\ [][Next]_vars`, without fairness (the lemmas
`TypeSteps`, `IrqSteps`, ...); the composition instantiates the proof module,
shows that its own behaviours are `Steps` of it, and cites the lemmas.  That
they are is plain from the way the actions are conjoined (the lemmas
`InterruptImplemented`, `ProtocolImplemented`, `ProbeImplemented`,
`ListenerImplemented`, `HalImplemented`); it is a step towards the theorems on
the compositions, not a result.

`SuccessIsFresh` is far from inductive: a command reads what the chip has
answered and what the interrupt path has passed on, and the driver compares
nothing.  `FreshInv` says of a command about which none of the conditions fails
(`Clean`) that while it waits, either the chip is busy with its newest frame
and no interrupt is on its way (`Working`), or the chip has answered that frame
and the one interrupt of that answer is either on its way or has been taken
(`Answered`); that it reads only after the latter; and that nothing is on its
way when it writes.  Two more parts say that such a command is alone in flight
(`Solo`), and that a sender waits only where `esp_spi_send` waits (`Waits`).
TLC checked `FreshInv` before it was proved, on the instance of `driver`, and
on the first 13 million states of one with two senders.

The power ioctls take no lock, so at any moment every thread may be in the
middle of another sequence of setters.  `Inv` of `SecurityPower_proofs` says
where: what a thread has still to do is a suffix of its script, and what it has
still to select is a suffix of the pins of the current setter (`Progress`).  A
pin is `Heading` for a level if it has it or some thread is still to give it
that level.  Every SPI pin is heading back to the controller as long as no pin
state failed (`BusOwed`: each sequence that takes the pins also returns them,
later), and every pin for what is asked while all ioctls ask for the same
(`Agreed`); when all calls are over, nobody is ahead, and what a pin was
heading for is what it has.  `OpenAlone` says how far an OPEN has come shows in
the pins, if nobody else is there; `LookupsInOrder` and `ProbeFirst` say that
no state goes missing after all were found, and that ioctls wait for the SPI
probe.

Assumptions: `ThreadsAssumption` (a thread is a listener or a sender),
`SendersAssumption` (`NoOne` is not a thread), `LengthAssumption` (`FIFO_LEN`
is positive, `DATA_LEN` a natural number), `ProbeAssumption` (the SPI probe is
no caller of an ioctl), `ThreadAssumption`, `CallbackAssumption` (no thread, no
callback are none of them), `DescriptorsAssumption` (descriptors are natural
numbers, 0 among them); `DriverAssumption` and `ServiceAssumption` are those of
the composed components.  All are evaluated by the runs.

What the models assume of the surroundings: the kernel serialises
`pinctrl_select_state` (`Select` is one step, also when two threads switch the
same pin).  `Init` of `EspInterrupt` takes `esp_init_interrupt` as over, so
`IrqBalance` presumes that no edge comes between its `request_irq` and its
`enable_irq` (`esp_common.c` 189-190); what an edge there leads to is in
`EspBringUp`, where `LineOwed` and `EdgeServed` hold and `IrqBalance` does not.

## Only model-checked

Liveness: `EdgeServed`, `SleeperReleased`, `CommandReturns`, `ListenerServed`,
`ProbeGoesOn`, `InterruptedEnds`, `AllEnd`, `ClosedReleases`.  It rests on
fairness and on what is enabled, which is out of the prover's reach; TLC checks
it on the instances of the runs, and nothing here says that it holds of larger
ones.  The three runs whose answer is no are counterexamples and need no proof.

## Findings

`power_missing`: the setters of `security_se.c` report a missing pin state
("... is error!!!") only if it is an error pointer.  A state that has not been
looked up, or that follows the first failing lookup, is NULL, passes the check
and goes to `pinctrl_select_state`.  The SPI probe gets there in two ways: it is
woken, and the device published, before the first lookup; and after three
seconds it goes on without either.

`listener_null`: `thread_start` calls the callback only if it is not null, but
reads it again for the call.  `wifi_probe_get_eint(false, nullptr)` stores the
null before it signals the thread; `talkie_speak_enable` and `readGesture` can
do the same while a listener runs.

`hal_answers`: `wifi_probe_get_version` and `wifi_probe_get_data` are declared
to generate a result, but return without one if the service has no HAL.

`HalDevice` also shows what is not a contradiction to anything written down: a
close before the first open closes descriptor 0, a second close whatever has
been given the number, a second open loses the first one's descriptor.  With
several clients, each orderly on its own, these sequences are ordinary.
`HidlListener` shows a talkie listener that cannot be stopped: without a HAL
`talkie_speak_enable` starts it, and `talkie_speak_disable` returns before it
signals it.

## Not modelled

- Messages longer than `DATA_LEN`: `esp_spi_send` copies whole `message_t`
  records and takes the length from them.
- The allocations of `esp_spi_send` itself, which nothing tests, and failing
  copies from and to the user.
- The checks of magic number, access and `private_data` in `esp_ioctl`, the unused `esp_read`, `esp_write`
  and `esp_poll`.
- The test timer (compiled with `TEST_DATA` only) and the debug attribute.
- `hct_security_plat_remove`: the driver is built in and its device does not go
  away by itself.  After an unbind the pin states are freed and the pointers to
  them stay; with what a freed state may do, and the second parsing after it,
  the instance with two callers is beyond TLC.  `hct_security_set_irq`, which
  nothing calls.
- In the services: the contents of messages and reports (so not that the
  gesture HAL's listeners share one static buffer), the destructors (the
  services never end), death of a client.
- The second part of `esp_remove`, for a device with an input device: nothing
  in the driver sets `esp_dev->input`.
- Memory ordering: each action is atomic, in the order of the statements.
- Everything the plan has still to come.
