# A TLA+ model of the drivers in meta-amd

meta-amd is a collection of Yocto layers for AMD boards. Most of it is build
metadata and patches to other people's programs. What it contributes as a
program of its own are kernel drivers and small test tools:

| short | board | layer |
|---|---|---|
| S | Steppe Eagle | `meta-steppeeagle` |
| A | Falcon x86 | `meta-amdfalconx86` |
| V | V1000 | `meta-v1000` |
| W | Snowy Owl | `meta-snowyowl` |

Each board carries its own copy of a driver. The copies differ in a few places,
some of which matter a great deal; the models say which copy they follow.

## 1. Inventory

**SPI controller driver** (`spi_amd.c`, four copies). *State*: the message
queue `msg_queue`, the thread and the message it holds, the stop flag, the
mapping of the registers, the BUSY bit of the hardware. *Operations*: probe,
remove, `amd_spi_master_transfer` (called by the SPI core's pump), the thread.
*Correct* when a message is executed once and in order and handed back, when
remove ends, and when no register is used after `iounmap`. *Hard*: the queue
has no lock; remove tears things down in an order of its own; both waits of the
thread depend on somebody waking it; nobody looks whether it could be created.

**spirom** (`spirom.c`, four copies), the character device `/dev/spirom0.0`.
*State*: `struct spirom_data` (`spi`, `users`, `buf_lock`, the completion
`done`), `device_list`, the module and its SPI device. *Operations*: open,
ioctl, release; probe, remove; `spirom_init`, `spirom_exit`. *Correct* when the
structure is freed once and only when nothing refers to it, and when the result
of an ioctl says what happened to its command. *Hard*: the message is on the
caller's stack, the caller leaves after one second and its next message lies in
the same place; the completion is shared, part of the structure and never reset;
remove has two critical sections; `spirom_init` goes on after a failure.

**Watchdog**, in two forms: a misc device with file operations of its own (S)
and a driver of the kernel's watchdog core (A, V, W). *State*: the status bits,
the heartbeat, the boot status, the CONTROL and COUNT registers. *Operations*:
open, write, ioctl, release, probe, remove, shutdown. *Correct* when the device
is opened once, an unexpected close costs a reset, a requested stop stops the
timer, nowayout is respected, and a reset by the watchdog is reported. *Hard*:
status bits are atomic one by one but not together; the registers are
read, modified and written.

**GPIO driver** (S, `gpio-amd.c`). *State*: the table `mask` of modes, the
registers of the pins, the IOMUX, what the GPIO library has given to whom, and
what the module and its platform device have registered. *Operations*: module
init and exit, probe and remove, the scan of the IOMUX, the mode parameters,
request, free, both directions, the ioctls of a debug device node. *Correct*
when a failed load takes everything back, when the firmware's choice of a pin's
function is respected, and when a pin's mode holds. *Hard*: the chip is
registered before the table has been filled in; some branches fill in the entry
of another pin; the debug node goes past the library.

**IMC mailbox** (`amd_imc`, a kernel patch in `common`): tells the integrated
microcontroller to stay away from the flash ROM while spirom or i2c-dev is open.
*State*: an index and a data port, two message registers. *Correct* when the
controller runs from its scratch RAM while somebody relies on it. *Hard*: no
lock and no count, two drivers that use it, and an exit routine that sends the
command to enter.

**Test tools**. `spirom-test` (four copies) erases, writes and reads the ROM, a
sequence of ioctls per command; *hard* because another process, or what a killed
one has left, comes in between. `watchdog-test` and `rtc-test` wait in loops that
a signal handler ends; *hard* because the handler runs between any two steps.
`gpio-test` (three forms) exports pins and unexports them at exit; *hard* because
what it remembers is not what it has exported. `smbus-test` reports an adapter
and a slave address; *hard* because the kernel keeps the address per open file.

How they interact: an ioctl on `/dev/spirom0.0` builds a message, which goes to
the SPI core's queue, from there by the core's pump to the controller's queue,
to the thread, to the hardware, and back by a callback to the completion the
ioctl waits for. Unregistering the controller unregisters its children and so
calls `spirom_remove`. The Linux kernel between them is not in the repository;
it is modelled from how the drivers use it and marked external in the map.

The hazards found on the way are in `PROJECT.json`, each at its line.

## 2. Plan

| step | module | subject | state |
|---|---|---|---|
| 1 | `SpiController` | controller driver and the SPI core it relies on | done |
| 2 | `SpiTransport` | composes it with spirom's ioctl path | done |
| 3 | `SpiromDevice` | life of spirom's structure, device and module | done |
| 4 | `AmdWdt` | watchdog of Steppe Eagle | done |
| 5 | `SpiromDeviceProofs` | type and memory safety of 3, for all constants | done |
| 6 | `SpiTransportProofs` | type correctness and safety of 2, for all constants | done |
| 7 | `SerialChannel`, `SpiTransportRefinement` | what the callers of `/dev/spirom` may rely on, and the proof that 2 implements it | done |
| 8 | `FlashRom`, `SpiromTest` | the ROM, and `spirom-test` over the promises of 7 | done |
| 9 | `GpioAmd`, `GpioTest` | GPIO driver, and `gpio-test` over it | done |
| 10 | `ImcMailbox`, `SmbusTest` | mailbox, `smbus-test` and a user of spirom over it | done |
| 11 | `WdtCore`, `WatchdogTest` | watchdog core form, and `watchdog-test` over it | done |
| 12 | `RtcTest`, `Programs` | `rtc-test`; 10 and 12 in one run | done |
| 13 | `ProgramsProofs` | the mailbox and `rtc-test`, for all constants | done |
| 14 | `AmdWdtProofs` | watchdog of Steppe Eagle, for all constants | done |
| 15 | `WatchdogTestProofs` | the watchdog core form and `watchdog-test`, for all constants | done |
| 16 | `GpioTestProofs` | GPIO driver and `gpio-test`, for all constants | done |
| 17 | `SpiromTestProofs` | `spirom-test` over the ROM, for all constants | done |
| 18 | places on the stack in 1, 2, 6 and 7, messages that outlive their structure in 3 and 5, the channel of 8 and 17 brought in line with them | | done |
| 19 | the safety halves of the liveness properties; that `FlashRom`'s channel is what `SerialChannel` allows | in the modules of 6, 14, 17 | next |

The abstract specification of the system is the *serial command channel*
(`SerialChannel`): one command at a time, executed in order and repeated only in
place of one whose call is over, and answers that mean what they say, but for
commands that are mixed up with an earlier one.

## 3. The modules

Names follow the code. One action is what the code does under one lock, or one
access to shared state; a call that may sleep is a step of its own.

**`SpiController`**. `coreQ`, `curMsg` and `running` are the SPI core's queue;
`msgQ`, `thread` and `held` the driver's; `ctl` is the progress of probe and
remove. The thread's states follow `amd_spi_thread`: wait, check the stop flag,
pick, program, poll, collect, finalize, complete. `spi_finalize_current_message`
is two steps because the core drops its lock before it calls the completion.
`WaitKind` selects S and A (untimed wait) or V and W (timed).
`amd_spi_pci_remove` is one step per line, as the order of its lines is what
matters. `kthread_run` may fail, which the code does not notice: the controller is
then bound with no thread. Messages are numbers in the order in which they were
built; a queue holds addresses, and `at[m]` is the message that is found today
where `m` was put. `loaded` is the command that was last written to the
controller's registers: a message whose call has returned has an empty list of
transfers, and then the thread starts that command once more.

**`SpiTransport`** extends it with the callers: `spirom_ioctl`,
`spirom_message`, `spirom_sync`. `done` counts the tokens of the completion;
`freed` holds the messages whose stack frame is gone. Using a freed message is
undefined: it either still finds the old bytes (a stack frame usually does) or
does damage, so the step chooses `oops`, which stands for a crash and for damaged
memory alike. `MessageBuild` puts a message on a fresh stack frame or on one where
somebody still expects an earlier one (`Abandoned`). In the second case the links
of the list are overwritten, which is damage while the list is still walked, and
whoever comes to the old address finds the new message: it is executed and given
a status in the other's place (`over` keeps these messages apart in the
properties). What the transfers contain is left out.

**`SpiromDevice`** is about memory. `heap` says for each structure whether it
is live; `attached`, `devList`, `drvdata`, `fdObj` are the references to it.
`spirom_remove` is two steps, `RemoveClear` and `RemoveFinish`. The module comes
in two forms, since A unregisters its SPI device on exit and the others do not.
A use of freed memory sets `corrupt` and ends the behaviour. `sending` are the
ioctls whose message the controller holds; one that returns before its message is
completed leaves its structure in `late`, since the message refers to the
completion in it, and `LateComplete` comes at any time until the controller's
thread ends. One removal runs at
a time: module exit, a failing init and the controller's removal all unbind the
device under its device lock, and the driver core waits. The calls to the IMC
at the end of open and release do not touch this state and are left out here.

**`SerialChannel`** is the abstract specification: how many commands have been
given, which one is in the controller and whether it is being executed, which
have been executed, what each call returned, and which are mixed up with an
earlier one. In `SpiTransport` the refinement mapping takes `submitted`, `loaded`,
the thread's states `poll` and `asleep`, `execLog`, `ret` and `over`; everything
between them (two queues, the pump, the places on the stack, the completion, the
timeout) stutters.

**`AmdWdt`** is S's watchdog. `status` holds the bits of the status word, each
bit operation is a step; a register operation under `wdt_lock` is a step. The
counter is reduced to `due`, whether it has run out since the last trigger; what
counts is who stops the timer, not how long it takes. Files may be shared (fork,
dup) and only the last close runs release. A reset or a shutdown starts the
machine anew with `FIRED` as the hardware leaves it.

**`WdtCore`** is the watchdog of A, V and W, and the part of the kernel's
watchdog core that calls it: `active` is WDOG_ACTIVE of the driver's static
structure, `magic` the flag that the magic character sets, `file` the one open file,
dead once the device has been taken away. As in the kernels of these boards (4.4
for A, 4.9 for V and W), a close uses `magic` up only when WDOG_ACTIVE is set, and an
open does not clear it; the registration does in 4.9, where the flag is no longer
part of the driver's structure. The core calls the driver under a lock
of its own; `amd_wdt_cleanup` stops the timer without it, so its two halves are
two steps. `board` selects when FIRED is read: A before the write that clears it,
V and W after. **`WatchdogTest`** puts the program on top: `handler` and `ping`
are what the signal handlers change, `told` is what exit has said, and `leftover`
(history) that the program found an earlier run's magic character when it opened
the device.

**`GpioAmd`** is S's driver. `have` and `held` are what the module and the probe
have registered, taken and given back in the code's order with a failure
possible at every one (`Stages`, `Resources`); `mask` is the table, `iomux` and
`outEn` the registers, `todo` the pins the scan has still to look at; a step of
the scan is one pin. `MaskEntry` and `Alternate` carry the errors of the table.
**`GpioTest`** is the program: `Exported` says which number reaches sysfs,
`Marked` what it remembers. S writes the text it was given, which the kernel
reads in octal after a 0 and in hexadecimal after 0x (`Readings`), while `atoi`
does not; a pin reached by the name of another belongs to `"astray"` until it is
marked in its own name. On A and V the pins belong to a driver of the kernel
that gives each to whoever asks first. `GetGpio` is `getgpiovalue` and
`getgpiomode`, which differ in the file they read; the word given to a set
command is chosen in the step that uses it.

**`ImcMailbox`** has one step per port access. `at` is how far each caller has
come, `alone` (history) whether somebody else has been inside meanwhile. It is
modelled as written: exit sends `ENTER`. **`SmbusTest`** is the program over
i2c-dev, whose open files have an address each, beside a process that opens and
closes spirom. `last` records what a successful transfer did and what the
program would have reported. A file for `writeblock` is a sequence of texts:
numbers, white space at its head, and what is neither; `BlockOf` follows `fscanf`,
which stays in front of a text it does not match and leaves the number as it was,
and cuts each number to a byte.

**`FlashRom`** is the ROM behind the ioctl: contents by unit, write enable latch,
the job in progress, and the channel as `SerialChannel` describes it: `last` is the
command in the controller, `pending` the processes whose ioctl has failed and whose
message is still in the queue, where `last` is executed once more when its turn
comes. A process with such a message, or one that inherits the stack of a process
that had, may build its next one over it (`Confused`): then its call may succeed
without, and its command be executed in the other's place. That the queue is
destroyed by it is left out: `SpiTransport` counts it as a crash.
**`SpiromTest`** is the program, one process per user; a step is one ioctl.

**`RtcTest`** is the program and the clock: `on` the interrupts, `data` whether a
read would return, `handler`, `loop` and `signal_recvd` what the handlers change.
**`Programs`** chooses one of `SmbusTest` and `RtcTest` at the start; they share
nothing.

**`SpiromDeviceProofs`**, **`SpiTransportProofs`**, **`SpiTransportRefinement`**,
**`ProgramsProofs`**, **`AmdWdtProofs`**, **`WatchdogTestProofs`**,
**`GpioTestProofs`** and **`SpiromTestProofs`** hold the theorems. **`MCGpio`**,
**`MCPrograms`** and **`MCSpiromTest`** are the instances for TLC that need values
a configuration file cannot write.

The operators called *faulty variant* are not part of a specification: each is a
definition of the model with a plausible mistake, and is used to see that the
property it stands for can fail.

## 4. The runs

| run | result | what it shows |
|---|---|---|
| `spi_transport` | holds | two callers, two commands, probe (with or without a thread) and remove at any time, messages built over those that timed out: the whole implements `SerialChannel`; who may hold a dead message, when the kernel may crash, no register after `iounmap`; every call returns, remove ends unless the bus is busy, accepted messages are completed |
| `spi_stop_untimed` | violated | S and A: `kthread_stop` waits for a thread that nobody wakes |
| `spi_busy_poll` | violated | all copies: a thread that saw the bus busy sleeps on when it is idle |
| `spirom_device` | holds | three files against every removal: reference count, no leak, no dangling reference but in the window of `spirom_remove`, and a complete list of the situations in which freed memory is used, a late completion among them |
| `spirom_close_race` | violated | a last close in that window frees a listed structure |
| `watchdog` | holds | two processes against load, unload, unbind and the timer: single open, magic close, nowayout, reported state, an unexpected close costs a reset |
| `wdt_single_open` | violated | `DEV_OPEN` is cleared after the device can be opened |
| `wdt_boot_status` | violated | `FIRED` is written back, and so cleared, before it is read |
| `wdt_core` | holds | `watchdog-test` over A's and V's driver, with signals, kills, unbinding and resets: what the core believes of the timer, that the ping loop can be left, that what exit announces happens unless an earlier run has left its magic character, that A reports a reset |
| `gpio` | holds | `gpio-test` on three boards beside another program, with numbers that are read in another base, the driver loaded, bound, scanned and failing at every stage: nothing left behind by a failure, the firmware's choice, the modes, what exit unexports |
| `spirom_test` | holds | two processes on one ROM with ioctls that fail and leave a message behind, over which the next may be built: what "completed successfully" means, that nothing else is changed, that waiting for WIP ends |
| `programs` | holds | the mailbox with two callers, what `smbus-test` reports of a transfer and which bytes of a file it sends; `rtc-test` with Ctrl+C between any two steps |

A property that holds names its exceptions. `CrashesExplained`,
`CorruptionExplained`, `LateOnlyAfterTimeout` and most properties of the test
tools are of the form "this goes wrong only there": the exceptions are the known
weak points of the code, and the run shows that there are no others.

The weak points that such exceptions name, besides the five findings:

* Command path: `kthread_run` is not checked, so without a thread messages are
  accepted, time out one by one, and remove stops an error code; the probe
  returns 0 on its failures. A message that timed out and is still queued makes the
  controller repeat its last command; a message built over it destroys the list
  (`list_head` is cleared, not unlinked), or is executed and answered in its place,
  so that a call may report a success without.
* spirom: a message that outlives its ioctl completes into `spirom_data`, which the
  last close and rmmod may have freed in the meantime (`late`).
* GPIO driver: requests made before the scan has reached a pin win over the
  firmware (`early`); the scan writes entry 68 for pin 69 and 86 for 130, and
  treats 77 like 72, 73 and 76 although a request gives it another function; a
  pin a program holds when its mode parameter is applied keeps its state
  (`skipped`); when `class_create` or `device_create` fails the module stays
  loaded with nothing registered, as the return value is still 0; the ioctls of
  the debug node work on a device that has not been probed.
* `gpio-test`: V and W number pins from 256 but remember them in a table of 256,
  so exit unexports none; A cuts numbers to two digits, and a command with a bad
  value ends after the export without a mark; S exports `012` as pin 10 and opens
  the file of pin 12.
* Watchdog core form: an unbinding while the timer runs leaves WDOG_ACTIVE set,
  so the next open starts nothing (`stale`); a file operation between the two
  halves of cleanup starts the timer again (`late`); V and W never report a
  reset, and A only on the first probe of a boot; the magic character outlives the
  close of a stopped watchdog, so a later run that sends none stops the timer at its
  end although it says the opposite (`leftover`).
* `watchdog-test` and `rtc-test`: a Ctrl+C between the installation of the handler
  and the assignment of the flag is lost (`lost`, `missed`). In `rtc-test` one
  between the test of the flag and `select` leads to a `read` that blocks (the
  comment beside it says otherwise) and is restarted after signals.
  `signal_recvd` outlives a command that has failed.
* `spirom-test`: WEL is tested and WIP is not, so a command given while the ROM
  is at work is reported a success and ignored; two processes clear each other's
  latch; a write that does not begin at a chunk wraps around at the end of a page.
* IMC: only the wrong command in `amd_imc_exit_scratch_ram` (the comment at line
  162 of the patch says exit, line 167 writes the command to enter) keeps the
  controller in its scratch RAM for the other users; and an open whose port
  accesses are disturbed by another caller may leave it in the ROM.
* `smbus-test`: each `setadapternum` leaves the file before it open; the new one
  has address 0 while the program reports the old address; register numbers are
  cut to a byte, and so are the numbers of a block; a text that is no number, or
  white space at the head of the file, fills the rest of a block.

### Bounds

* `MaxMsgs = 2`, two clients: a message that times out, and one that takes its
  token, finds it in the queue or is built over it; both may still be there when the
  controller goes. With three messages the invariants, `ImplementsChannel` and the
  inductive invariant hold too, which takes TLC too long for the run; the theorems
  are about any number. Reading a place that was left and not used again is taken
  to find the message as it was left.
* `Fds = 3`, `MaxObjs = 3`: two files on a structure that is being removed and
  one on its successor; three loads of the module.
* `MaxCount = 2`, two processes: requests 0 to 3 are below, in and above the
  register's range (0xffff in the code). Two processes can share a file or race.
* A watchdog driver unbound through sysfs is not bound again before the module
  is removed (`AmdWdt`); `MaxBinds = 2` in `WdtCore` and `GpioAmd`: a bind that
  finds what the one before has left.
* `Pins = {13, 77, 130}`: a pin that is not available, one whose function is
  wrong in the table, one whose entry is wrong and whose number has three digits
  (13 is what A makes of it). On S each of them is also reached as a hexadecimal
  number, which `atoi` takes for 0; no two are each other's octal reading, and the
  pins 10 and 12, where one is, have been checked apart.
  `Firmware = {0, 2}`: GPIO and alternate function for each. One pin is given the mode input, one output.
* ROM of 8 units, pages and sectors of 2, blocks of 4, a file of 2: a write past
  the end of the file and of the ROM, erases of several sectors (a write that crosses
  a page is left to the theorems); two commands on a range and any number of single ones, one ioctl that
  fails. The board is V, whose chunk is not the unit; S is left to the theorems.
* `BlockMax = 3` for 32, files of up to four texts, with a number over 8 bits, one
  that is no number and white space at the head; addresses in 7 bits, bound
  to a driver, and out of range; `MaxFiles = 2`, so that one file is leaked.

Deadlock is checked in the runs of the test tools, where somebody can always
start a program. It is not checked in the runs of the drivers: a system that
nobody uses may stop, and the models stop at a crash.

### Fairness

`SpiTransport`: a call that has entered the kernel is scheduled and its one
second timer fires; `buf_lock` serves its waiters (strong fairness on taking it:
the mutex queue is first in, first out); the kernel thread and the core's pump
are scheduled; a remove that has begun goes on; the hardware ends its command.
No fairness for user space: nobody has to call, load or unload.
`AmdWdt`: the timer counts, and a file operation that has begun ends, since none
of them sleeps. `WatchdogTest`: the timer counts, and the program in its ping loop
is a runnable process. `SpiromTest`: a process within a command runs, the ROM ends
its job and the controller's thread executes what it holds. `RtcTest`: a command
that has begun goes on where it does not block, and the clock ticks while its
interrupts are on. No user types anything, and no signal comes, by fairness.

## 5. The proofs

`SpiromDeviceProofs` proves the six properties of the run `spirom_device`, and
`AttachedIsBound`, for every finite set of files, every number of structures and both forms of the
module. `UsersCountFiles`, `FreedIsUnreferenced` and `NoLeak` are not inductive:
that the last close frees nothing that somebody needs depends on `users` being
the true count, on the removal being between its halves exactly when `rmObj` is
set, and on the list holding nothing but the bound structure and the one being
removed. `IInv` is their conjunction with these facts (`UnusedIsUntouched`,
`RemovalInProgress`, `BoundIsLive`, `FalconDevice`, `IoctlFiles`, `MessageLives`).
The last says that a message is with the controller only while its thread can
complete it, so a late completion needs a removal by the module. The count
needs the library's facts on cardinalities, brought in by `UsersTellOpeners`:
`users = 1` says that the closing file is the only one. There is a lemma per
handler, and `Invariance` combines them. The only assumption is
`SpiromDeviceAssumption` (a finite set of files).

`SpiTransportProofs` proves the safety invariants of the run `spi_transport`, and
the facts the refinement rests on, for every set of clients, every number of
messages and both forms of the thread. Its `IInv` has six parts. `CtlInv`:
before the master is registered the driver gets no message, and the registers are
unmapped only after the thread has left (so `RegistersMapped`). `CurrentInv`: the
current message is nowhere, in `msg_queue` or with the thread (so
`DriverHoldsCurrent`). `LockInv`: only the holder of `buf_lock` is past it, and
its message is the newest. `OrderInv`: what waits in the core's queue is newer
newer than the current message, which is newer than everything that has been in
the controller (so `ExecutedInOrder`); of messages that were built over others
only the order of building is known. `CommandInv`: the thread executes the message
it holds unless that is gone or another lies in its place, and what has status 0
was executed, built over another, or gone before (so `SuccessMeansExecuted`).
`CalmInv`: until the first timeout the message somebody waits for is in exactly
one place, or its token is there, and otherwise nothing is anywhere. A call that
returns too early, leaves a reference behind or builds its message over another
contradicts `CalmInv` unless a timeout came before: this gives `LateOnlyAfterTimeout`, and from it
`CrashesExplained`. The proofs assume nothing but `SpiControllerAssumption`, and
they hold without fairness.

`SpiTransportRefinement` proves that the same system implements `SerialChannel`.
The initial state maps to the initial state. A step that builds a message is
`Give`, the start of a command is `Load`, or `Repeat` when its message is gone, its
end is `Execute`, the return of a call is `Answer`, every other step stutters. That
the abstract guards hold in each is what `OrderInv`, `CommandInv` and `LockInv` say,
and `AnswerInv`, proved here: a message that is still on its way has no answer yet,
or one that says its caller does not know.

`AmdWdtProofs` proves the four safety properties of the run `watchdog` for every
set of processes and every width of COUNT. `StatusFollowsFiles` needs `OwnerInv`
(the bit stands for one file: an open on its way excludes every other, and only
the last who has a file releases it), which needs `PlaceInv` (who is in a file
operation has a file) and `NobodyYet` (what `LoadFinish` clears was never set).
`DriverMatchesTimer` needs how far the one SETTIMEOUT has come (`CountInv`), and
that rmmod finds nobody inside and lets nobody in (`NobodyAnyMore`).
`NoWayOutHolds` is an action property; it follows from `NoWayOutInv`: with
nowayout nobody is on a way that ends in a stopped timer.

`ProgramsProofs` proves the five safety properties of the run `programs` for
every set of adapters, addresses and registers and any number of files.
`MailInv` says of a call that has had the mailbox for itself how far it has brought the command (`Delivered`), and that EXIT is never in the
mailbox; `LoopInv` and `AlarmInv` say which interrupts may be on at each place
and what the flag means there; `FileInv` says that open files fill the
descriptors from below, and what the program knows of the one in use, from which
`TransferAsTold` follows with what `BlockOf` makes of a file of any length
(`BlockIsFile`). It assumes `SmbusAssumption`.

`WatchdogTestProofs` proves the four safety properties of the run `wdt_core` for
every width of COUNT and any number of probes, from `WdtCoreAssumption`.
`CoreKnowsTimer` follows from `TimerInv`, what is true of the timer in every state
of the driver and not only where the property looks; it needs `FileInv` (a file is
live only while the device is there) and, for what exit has announced (`ToldInv`),
`AskedInv`: of a live file WDOG_ACTIVE is what the program has last asked, and
`magic` is set if it has sent the character or found one that was left over. `ResetReported` needs what FIRED and `bootstatus` know before and
after the first probe (`BootInv`). `LoopCanBeLeft` is inductive as it stands.
`ResetComes` is the safety half of `ExitResets`: after an exit that announces a
reset, of a run that found no magic character, the timer runs, and every step that does not end the situation (the program
started again, the device taken away, a reboot) takes it closer to zero. What is
left to TLC is that the timer's step is taken.

`GpioTestProofs` proves the five safety properties of the run `gpio` for every
set of pins of the chip, every choice of the firmware, every list of mode
parameters and any number of probes, from `GpioAssumption` and
`BoardsAssumption`. `AllOrNothing` needs the order of the registrations
(`StageInv`): `have` and `held` are always the first so many of `Stages` and
`Resources`, which is why undoing them from a label down leaves nothing; `Counted`
brings in the library's facts on cardinalities. `MaskFollowsFirmware` is split
into what the IOMUX registers hold, pin by pin (`FirmwareInv`), and what the table
then says (`TableInv`); the first needs the scan's place in the list of pins, as an
entry means something only once the scan has been there. `ModesHold` looks at a
finished probe; `ModeInv` says the same of every moment, with the exception of the
one pin whose parameter has been entered and is not applied. It rests on
`ClaimInv`: who has a pin, and that the driver has the pin it is applying a
parameter to. `ExitFreesPins` is about the end; `ExportInv` says of every exported
pin that it went astray, is marked, belongs to the command being executed, or is
one of the unfindable ones.

`SpiromTestProofs` proves the three safety properties of the run `spirom_test` for
every ROM, number of processes, set of requests and number of failing ioctls, and
with both copies of the program. `FlowInv` says where each command is in its range:
what is left determines the address. `AskedInv` says of the job in the ROM and of
the command in the controller, which every message left behind repeats, that they
change only what was asked for, which gives `OthersUntouched`. `DoneInv` carries `SuccessMeansDone`: of a command
that is `Undisturbed` (nobody else changed the ROM, which was idle when it began) it
says that the ROM is `Calm`, so that the next command sent is obeyed and what others
have left in the queue does no harm, and how much
of the range is done (`Progress`), in terms of `Final`, the contents once the
present job is finished; the end of a job then changes nothing of it, and a success
is said only when there is no job. That a repeated command does nothing is `Settled`:
it has used its latch up (`Spent`), or the ROM is still at work on it. A chunk that is written must not wrap around in
its page, hence the lemmas on quotients and remainders at the beginning (`Unique`
to `OnPage`), which the provers do not find by themselves. It assumes
`FlashRomAssumption` and `SpiromTestAssumption`, which says that the ROM and its
pages hold whole chunks (16777216 and 256 bytes, chunks of 4 and 64), and that a
chip erase is one command.

The invariants of the last three modules have been checked by TLC on small
instances before they were proved. The type invariants of all of them are proved
in parts that are stated as definitions of their own (`LifeOK`, `PinsOK`, ...),
since a step touches few variables and the provers slow down with the rest.

Only model-checked: every liveness property (`IoctlReturns`, `StopReturns`,
`AcceptedIsCompleted`, `UnexpectedCloseResets`, `ExitResets`, `PollEnds`,
`CommandsEnd`), as the prover does not handle fairness or ENABLED. Every safety
and action property that a passing run checks is a theorem.

## 6. Not modelled

* Where opcode, address and data of a message lie in the controller's FIFO, and
  the transfers that `spirom_message` builds.
* What the driver does after a destroyed queue: the models stop there.
* In a file for `writeblock` one zero too many before a number (`00x5`), and a text
  that the end of the file cuts off, which counts as the end.
* Memory that `spirom_message` leaks when an allocation fails after the first.
* Levels, pull-ups and drive strength of pins; data read over the SMBus; the time,
  rate and epoch of the clock; commands of the test tools that only print.
* The search for the IMC at boot and for the watchdog's registers.
* The ends of input of V's `gpio-test` and `spirom-test`, which dereference a null
  pointer there: the program ends, as it does in the model.
* Recipes, configuration, udev and graphics scripts, and the patches to other
  projects: build metadata and third-party code without a state of this system.
