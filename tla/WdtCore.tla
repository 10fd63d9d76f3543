------------------------------ MODULE WdtCore ------------------------------
(***************************************************************************)
(* The watchdog driver of Falcon, V1000 and Snowy Owl (amd_wdt.c), which   *)
(* leaves the file operations to the watchdog core of the kernel: the core *)
(* calls the driver's start, stop, ping and set_timeout under a lock of    *)
(* its own that amd_wdt_init and amd_wdt_cleanup do not take.              *)
(*                                                                         *)
(* One file at a time can be open; it is that of module WatchdogTest.  A   *)
(* file that is open when the device is taken from the driver goes dead.   *)
(***************************************************************************)
EXTENDS Naturals

CONSTANTS
  Boards,     \* the copies of the driver: "A" (Falcon), "V" (the others)
  MaxCount,   \* the largest timeout, 0xffff in the code
  MaxBinds    \* bound: probes since power-on

ASSUME WdtCoreAssumption ==
  /\ Boards \subseteq {"A", "V"}
  /\ MaxCount \in Nat \ {0} /\ MaxBinds \in Nat

\* Timeouts asked for: one value stands for all that exceed 16 bits.
Requests == 0 .. MaxCount + 1

VARIABLES
  board, nowayout, heartbeat,  \* the copy, and the module parameters
  start,      \* START_STOP bit of the CONTROL register
  fired,      \* its FIRED bit; writing a one clears it
  count,      \* the COUNT register: the timeout
  left,       \* what is left of it
  drv,        \* out, setup, registered, stopped (amd_wdt_cleanup has begun)
  bootstatus, \* amd_wdt_dev.bootstatus has CARDRESET
  active,     \* WDOG_ACTIVE of amd_wdt_dev.status, which nothing initialises
  file,       \* the open file: none, live, dead
  magic,      \* WDOG_ALLOW_RELEASE: in amd_wdt_dev.status with the Falcon's 4.4
              \* kernel, of the registration with the 4.9 kernel of the others
  binds,
  wasReset,   \* (history) this boot follows a reset by the watchdog
  stale,      \* (history) the device was taken away while WDOG_ACTIVE was set
  late        \* (history) the timer was started between stop and unregister

registers == <<start, fired, count, left>>
params == <<board, nowayout, heartbeat>>
core == <<active, file, magic>>
life == <<drv, bootstatus, binds>>
history == <<wasReset, stale, late>>
wdt == <<params, registers, core, life, history>>

WdtInit ==
  /\ board \in Boards /\ nowayout \in BOOLEAN /\ heartbeat \in Requests
  /\ start = FALSE /\ fired = FALSE /\ count = MaxCount /\ left = MaxCount
  /\ drv = "out" /\ bootstatus = FALSE /\ binds = 0
  /\ active = FALSE /\ file = "none" /\ magic = FALSE
  /\ wasReset = FALSE /\ stale = FALSE /\ late = FALSE

\* What a boot leaves.
Booted(byWatchdog) ==
  /\ start' = FALSE /\ fired' = byWatchdog /\ count' = MaxCount /\ left' = MaxCount
  /\ drv' = "out" /\ bootstatus' = FALSE /\ binds' = 0
  /\ active' = FALSE /\ file' = "none" /\ magic' = FALSE
  /\ wasReset' = byWatchdog /\ stale' = FALSE /\ late' = FALSE
  /\ UNCHANGED params

----------------------------------------------------------------------------
(* Probe, remove and shutdown *)

\* Faulty variant: no copy looks at FIRED before it is cleared.
SetUpUnread ==
  /\ drv = "out" /\ binds < MaxBinds
  /\ drv' = "setup" /\ binds' = binds + 1
  /\ bootstatus' = FALSE /\ fired' = FALSE
  /\ UNCHANGED <<params, start, count, left, core, history>>

\* amd_wdt_setupdevice.  The copies differ in when FIRED is read: the Falcon
\* reads it before the write of CONTROL that clears it, the others after.
SetUp ==
  /\ drv = "out" /\ binds < MaxBinds
  /\ drv' = "setup" /\ binds' = binds + 1
  /\ bootstatus' = IF board = "A" THEN fired ELSE bootstatus
  /\ fired' = FALSE
  /\ UNCHANGED <<params, start, count, left, core, history>>

\* Faulty variant: zero is taken as it is.
ClampTooLarge(t) == IF t > MaxCount THEN MaxCount ELSE t

\* The limits of amd_wdt_set_timeout.
Clamp(t) == IF t < 1 THEN 1 ELSE IF t > MaxCount THEN MaxCount ELSE t

\* amd_wdt_init after it: the timer is stopped and given its timeout, and the
\* device is registered, or given back.  amd_wdt_dev.status is left as it was;
\* with a 4.9 kernel the magic character is not part of it.
Register ==
  /\ drv = "setup"
  /\ bootstatus' = IF board = "V" THEN fired ELSE bootstatus
  /\ fired' = FALSE /\ start' = FALSE
  /\ count' = Clamp(heartbeat) /\ left' = Clamp(heartbeat)
  /\ drv' \in {"registered", "out"}
  /\ magic' = (magic /\ board = "A") /\ late' = FALSE
  /\ UNCHANGED <<params, active, file, binds, wasReset, stale>>

\* amd_wdt_cleanup, for a device taken from the driver: the timer is stopped
\* first, past the core, ...
CleanupStop ==
  /\ drv = "registered"
  /\ drv' = "stopped"
  /\ IF nowayout
     THEN UNCHANGED registers
     ELSE start' = FALSE /\ fired' = FALSE /\ UNCHANGED <<count, left>>
  /\ UNCHANGED <<params, core, bootstatus, binds, history>>

\* ... then the device is unregistered, and an open file goes dead.
CleanupUnregister ==
  /\ drv = "stopped"
  /\ drv' = "out"
  /\ file' = IF file = "live" THEN "dead" ELSE file
  /\ stale' = active
  /\ UNCHANGED <<params, registers, active, magic, bootstatus, binds, wasReset, late>>

\* rmmod, with no file open: none can be opened once it has begun.
Unload ==
  /\ drv = "registered" /\ file = "none"
  /\ drv' = "out"
  /\ start' = (start /\ nowayout) /\ fired' = FALSE
  /\ active' = FALSE /\ magic' = FALSE /\ bootstatus' = FALSE /\ stale' = FALSE
  /\ UNCHANGED <<params, count, left, file, binds, wasReset, late>>

----------------------------------------------------------------------------
(* The driver's operations, under the core's lock *)

\* amd_wdt_start, amd_wdt_stop, amd_wdt_ping: each writes CONTROL back.
StartTimer == start' = TRUE /\ left' = count /\ fired' = FALSE /\ UNCHANGED count
StopTimer == start' = FALSE /\ fired' = FALSE /\ UNCHANGED <<count, left>>
PingTimer == left' = count /\ fired' = FALSE /\ UNCHANGED <<start, count>>

Serving == drv \in {"registered", "stopped"}

\* watchdog_start: an active device is not started again.
CoreStart ==
  /\ active' = TRUE
  /\ IF active THEN UNCHANGED registers ELSE StartTimer
  /\ late' = (late \/ (~ active /\ drv = "stopped"))

\* Faulty variant: WDOG_ACTIVE is left set.
CoreStopKeepsActive ==
  /\ UNCHANGED active
  /\ IF active /\ ~ nowayout THEN StopTimer ELSE UNCHANGED registers

\* watchdog_stop.
CoreStop ==
  IF active /\ ~ nowayout
  THEN active' = FALSE /\ StopTimer
  ELSE UNCHANGED <<active, registers>>

CorePing == IF active THEN PingTimer ELSE UNCHANGED registers

Open ==
  /\ Serving /\ file = "none"
  /\ file' = "live"
  /\ CoreStart
  /\ UNCHANGED <<params, magic, life, wasReset, stale>>

\* Faulty variant: the close of a file always stops the timer.
ReleaseStops ==
  /\ file # "none"
  /\ file' = "none"
  /\ IF file = "dead" THEN UNCHANGED <<active, magic, registers>>
     ELSE magic' = (magic /\ ~ active) /\ CoreStop
  /\ UNCHANGED <<params, life, history>>

\* The last close: an active watchdog is stopped if the magic character allows
\* it, which uses the character up; else the core pings and leaves the timer to
\* run.  The close of an inactive one keeps the character for the next file.
Release ==
  /\ file # "none"
  /\ file' = "none"
  /\ magic' = (magic /\ ~ (active /\ (file = "live" \/ board = "A")))
  /\ IF file = "live" /\ ~ (magic /\ ~ nowayout)
     THEN UNCHANGED active /\ CorePing
     ELSE IF file = "live" THEN CoreStop ELSE UNCHANGED <<active, registers>>
  /\ UNCHANGED <<params, life, history>>

\* A write of the magic character.
WriteMagic ==
  /\ file = "live" /\ magic' = TRUE
  /\ CorePing
  /\ UNCHANGED <<params, active, file, life, history>>

DisableCard ==
  /\ file = "live" /\ CoreStop
  /\ UNCHANGED <<params, file, magic, life, history>>

EnableCard ==
  /\ file = "live" /\ CoreStart
  /\ UNCHANGED <<params, file, magic, life, wasReset, stale>>

\* WDIOC_SETTIMEOUT: what is out of range is refused by the core.
SetTimeout(t) ==
  /\ file = "live"
  /\ IF t \in 1 .. MaxCount
     THEN /\ count' = t
          /\ IF active THEN left' = t /\ fired' = FALSE ELSE UNCHANGED <<left, fired>>
          /\ UNCHANGED start
     ELSE UNCHANGED registers
  /\ UNCHANGED <<params, core, life, history>>

----------------------------------------------------------------------------
(* The timer *)

Tick ==
  /\ start /\ left > 0
  /\ left' = left - 1
  /\ UNCHANGED <<params, start, fired, count, core, life, history>>
============================================================================
