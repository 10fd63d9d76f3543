-------------------------------- MODULE AmdWdt --------------------------------
(***************************************************************************)
(* The watchdog driver of Steppe Eagle (amd_wdt.c), which registers        *)
(* /dev/watchdog as a misc device and implements its file operations       *)
(* itself: open starts the timer, the magic character 'V' lets close stop  *)
(* it, and a timer that is not triggered in time resets the machine.       *)
(*                                                                         *)
(* A step is what the code does under wdt_lock, or one atomic operation on *)
(* the status word.  Processes may share an open file.                     *)
(***************************************************************************)
EXTENDS Naturals, FiniteSets

CONSTANTS
  Procs,      \* processes that use /dev/watchdog
  NoFile,     \* what a process has that does not have it open
  MaxCount    \* the largest value of the COUNT register, 0xffff in the code

ASSUME AmdWdtAssumption ==
  /\ NoFile \notin Procs
  /\ MaxCount \in Nat \ {0}

\* Values a caller may ask for: 0 and what exceeds 16 bits are out of range,
\* one value beyond MaxCount stands for all of those.
Requests == 0 .. MaxCount + 1

VARIABLES
  start,      \* START_STOP bit of the CONTROL register
  fired,      \* FIRED bit; writing a one clears it
  count,      \* what was last written to COUNT
  due,        \* the count has run out since the last trigger
  status,     \* bits of the static status word
  heartbeat,  \* static heartbeat
  bootstatus, \* static bootstatus has CARDRESET
  nowayout,   \* module parameter
  drv,        \* progress of amd_wdt_init and amd_wdt_cleanup
  how,        \* why it is not bound: "rmmod", or "unbind" with the module in
  file,       \* the open file each process has; a file is named by its opener
  pc,         \* where each process is
  arg,        \* its local t in amd_wdt_timer_set_heartbeat
  early,      \* history: an open got through before amd_wdt_init was done
  overlapped, \* history: two SETTIMEOUT ran at the same time
  wasReset,   \* history: the watchdog reset the machine before this load
  crashed     \* a register was used after iounmap

hwVars     == <<start, fired, count, due>>
staticVars == <<status, heartbeat, bootstatus>>
drvVars    == <<nowayout, drv, how>>
procVars   == <<file, pc, arg>>
histVars   == <<early, overlapped, wasReset>>
vars == <<hwVars, staticVars, drvVars, procVars, histVars, crashed>>

Bits == {"ACTIVE", "DEV_OPEN", "ALLOW_RELEASE", "NO_WAY_OUT"}

Steps ==
  {"idle", "openActivate", "openPing", "release", "releaseStop",
   "releasePing", "releaseClear", "scan", "ping", "disable",
   "disableThenEnable", "enable", "setCount", "setHeartbeat"}

TypeOK ==
  /\ start \in BOOLEAN /\ fired \in BOOLEAN
  /\ count \in 0 .. MaxCount /\ due \in BOOLEAN
  /\ status \in SUBSET Bits
  /\ heartbeat \in 0 .. MaxCount + 1
  /\ bootstatus \in BOOLEAN /\ nowayout \in BOOLEAN
  /\ drv \in {"out", "setup", "checked", "registered", "in",
              "stopped", "deregistered"}
  /\ how \in {"none", "rmmod", "unbind"}
  /\ file \in [Procs -> Procs \cup {NoFile}]
  /\ pc \in [Procs -> Steps]
  /\ arg \in [Procs -> 0 .. MaxCount]
  /\ early \in BOOLEAN /\ overlapped \in BOOLEAN /\ wasReset \in BOOLEAN
  /\ crashed \in BOOLEAN

\* What a boot leaves behind: no process, no module, a timer that is stopped.
Booted(byWatchdog) ==
  /\ start' = FALSE /\ fired' = byWatchdog /\ count' = 0 /\ due' = FALSE
  /\ status' = {} /\ heartbeat' = 0 /\ bootstatus' = FALSE
  /\ nowayout' = FALSE /\ drv' = "out" /\ how' = "none"
  /\ file' = [p \in Procs |-> NoFile]
  /\ pc' = [p \in Procs |-> "idle"]
  /\ arg' = [p \in Procs |-> 0]
  /\ early' = FALSE /\ overlapped' = FALSE /\ wasReset' = byWatchdog
  /\ UNCHANGED crashed

Init ==
  /\ start = FALSE /\ fired = FALSE /\ count = 0 /\ due = FALSE
  /\ status = {} /\ heartbeat = 0 /\ bootstatus = FALSE
  /\ nowayout = FALSE /\ drv = "out" /\ how = "none"
  /\ file = [p \in Procs |-> NoFile]
  /\ pc = [p \in Procs |-> "idle"]
  /\ arg = [p \in Procs |-> 0]
  /\ early = FALSE /\ overlapped = FALSE /\ wasReset = FALSE
  /\ crashed = FALSE

OpenFiles == {file[p] : p \in Procs} \ {NoFile}
Idle(p) == pc[p] = "idle"
GoTo(p, s) == pc' = [pc EXCEPT ![p] = s]
Mapped == drv # "out"
-----------------------------------------------------------------------------
(***************************************************************************)
(* The register operations.  They write back the FIRED bit they read,      *)
(* which clears it.                                                        *)
(***************************************************************************)

\* A handler that reaches the registers after iounmap crashes the kernel.
UseRegisters(action) ==
  IF Mapped THEN action /\ UNCHANGED crashed
  ELSE crashed' = TRUE /\ UNCHANGED <<hwVars, staticVars>>

Activate ==
  /\ start' = TRUE /\ fired' = FALSE
  /\ status' = status \cup {"ACTIVE"}
  /\ UNCHANGED <<count, due, heartbeat, bootstatus>>

Deactivate ==
  /\ start' = FALSE /\ fired' = FALSE
  /\ status' = status \ {"ACTIVE"}
  /\ UNCHANGED <<count, due, heartbeat, bootstatus>>

Keepalive ==
  /\ due' = FALSE /\ fired' = FALSE
  /\ UNCHANGED <<start, count, staticVars>>

WriteCount(t) ==
  /\ count' = t
  /\ UNCHANGED <<start, fired, due, staticVars>>

InRange(t) == t # 0 /\ t <= MaxCount

\* Faulty variant: only zero counts as out of range.
ClampZeroOnly(t) == IF t = 0 THEN MaxCount ELSE t

Clamp(t) == IF InRange(t) THEN t ELSE MaxCount
-----------------------------------------------------------------------------
(***************************************************************************)
(* File operations.                                                        *)
(***************************************************************************)

\* misc_open finds the device while it is registered; rmmod shuts it first.
Openable == drv \in {"registered", "in"} \/ (drv = "stopped" /\ how = "unbind")

\* Faulty variant: a test and a set where test_and_set_bit is needed.
OpenTwice(p) ==
  /\ Openable /\ Idle(p) /\ file[p] = NoFile
  /\ status' = status \cup {"DEV_OPEN"}
  /\ early' = (early \/ drv = "registered")
  /\ GoTo(p, "openActivate")
  /\ UNCHANGED <<hwVars, heartbeat, bootstatus, drvVars, file, arg,
                 overlapped, wasReset, crashed>>

\* test_and_set_bit(DEV_OPEN); with the bit already set open returns -EBUSY.
Open(p) ==
  /\ Openable /\ Idle(p) /\ file[p] = NoFile
  /\ "DEV_OPEN" \notin status
  /\ status' = status \cup {"DEV_OPEN"}
  /\ early' = (early \/ drv = "registered")
  /\ GoTo(p, "openActivate")
  /\ UNCHANGED <<hwVars, heartbeat, bootstatus, drvVars, file, arg,
                 overlapped, wasReset, crashed>>

OpenActivate(p) ==
  /\ pc[p] = "openActivate"
  /\ UseRegisters(Activate)
  /\ GoTo(p, "openPing")
  /\ UNCHANGED <<drvVars, file, arg, histVars>>

\* The new file gets its opener's name, or another if that is taken by an earlier file.
OpenPing(p) ==
  /\ pc[p] = "openPing"
  /\ UseRegisters(Keepalive)
  /\ \E f \in Procs \ OpenFiles :
       /\ p \notin OpenFiles => f = p
       /\ file' = [file EXCEPT ![p] = f]
  /\ GoTo(p, "idle")
  /\ UNCHANGED <<drvVars, arg, histVars>>

\* fork or dup: a process gets a share of a file another one has open.
Share(p, q) ==
  /\ Idle(q) /\ file[q] = NoFile /\ Idle(p) /\ file[p] # NoFile
  /\ file' = [file EXCEPT ![q] = file[p]]
  /\ UNCHANGED <<hwVars, staticVars, drvVars, pc, arg, histVars, crashed>>

\* close: only the last one runs amd_wdt_timer_release.
Close(p) ==
  /\ Idle(p) /\ file[p] # NoFile
  /\ IF \E q \in Procs \ {p} : file[q] = file[p]
       THEN file' = [file EXCEPT ![p] = NoFile] /\ UNCHANGED pc
       ELSE GoTo(p, "release") /\ UNCHANGED file
  /\ UNCHANGED <<hwVars, staticVars, drvVars, arg, histVars, crashed>>

\* test_and_clear_bit(ALLOW_RELEASE)
Release(p) ==
  /\ pc[p] = "release"
  /\ status' = status \ {"ALLOW_RELEASE"}
  /\ GoTo(p, IF "ALLOW_RELEASE" \in status THEN "releaseStop"
             ELSE "releasePing")
  /\ UNCHANGED <<hwVars, heartbeat, bootstatus, drvVars, file, arg,
                 histVars, crashed>>

\* Faulty variant: an unexpected close stops the timer as well.
ReleaseTimerAlwaysStops(p) ==
  /\ pc[p] \in {"releaseStop", "releasePing"}
  /\ UseRegisters(Deactivate)
  /\ GoTo(p, "releaseClear")
  /\ UNCHANGED <<drvVars, file, arg, histVars>>

ReleaseTimer(p) ==
  /\ \/ pc[p] = "releaseStop" /\ UseRegisters(Deactivate)
     \/ pc[p] = "releasePing" /\ UseRegisters(Keepalive)
  /\ GoTo(p, "releaseClear")
  /\ UNCHANGED <<drvVars, file, arg, histVars>>

ReleaseClear(p) ==
  /\ pc[p] = "releaseClear"
  /\ status' = status \ {"DEV_OPEN"}
  /\ file' = [file EXCEPT ![p] = NoFile]
  /\ GoTo(p, "idle")
  /\ UNCHANGED <<hwVars, heartbeat, bootstatus, drvVars, arg,
                 histVars, crashed>>

\* write: the magic character only counts without nowayout.
Write(p) ==
  /\ Idle(p) /\ file[p] # NoFile
  /\ IF nowayout
       THEN GoTo(p, "ping") /\ UNCHANGED status
       ELSE GoTo(p, "scan") /\ status' = status \ {"ALLOW_RELEASE"}
  /\ UNCHANGED <<hwVars, heartbeat, bootstatus, drvVars, file, arg,
                 histVars, crashed>>

\* The scan sees a 'V' or not, and reaches the end or stops at -EFAULT.
WriteScan(p) ==
  /\ pc[p] = "scan"
  /\ status' \in {status, status \cup {"ALLOW_RELEASE"}}
  /\ \E s \in {"ping", "idle"} : GoTo(p, s)
  /\ UNCHANGED <<hwVars, heartbeat, bootstatus, drvVars, file, arg,
                 histVars, crashed>>

Ping(p) ==
  /\ pc[p] = "ping"
  /\ UseRegisters(Keepalive)
  /\ GoTo(p, "idle")
  /\ UNCHANGED <<drvVars, file, arg, histVars>>

IoctlKeepalive(p) ==
  /\ Idle(p) /\ file[p] # NoFile
  /\ GoTo(p, "ping")
  /\ UNCHANGED <<hwVars, staticVars, drvVars, file, arg, histVars, crashed>>

\* WDIOC_SETOPTIONS with DISABLECARD, ENABLECARD or both; nowayout is not
\* looked at.
IoctlSetOptions(p) ==
  /\ Idle(p) /\ file[p] # NoFile
  /\ \E s \in {"disable", "disableThenEnable", "enable"} : GoTo(p, s)
  /\ UNCHANGED <<hwVars, staticVars, drvVars, file, arg, histVars, crashed>>

OptionDisable(p) ==
  /\ pc[p] \in {"disable", "disableThenEnable"}
  /\ UseRegisters(Deactivate)
  /\ GoTo(p, IF pc[p] = "disable" THEN "idle" ELSE "enable")
  /\ UNCHANGED <<drvVars, file, arg, histVars>>

OptionEnable(p) ==
  /\ pc[p] = "enable"
  /\ UseRegisters(Activate)
  /\ GoTo(p, "ping")
  /\ UNCHANGED <<drvVars, file, arg, histVars>>

InSetTimeout(p) == pc[p] \in {"setCount", "setHeartbeat"}

\* WDIOC_SETTIMEOUT: amd_wdt_timer_set_heartbeat, then keepalive.
IoctlSetTimeout(p) ==
  /\ Idle(p) /\ file[p] # NoFile
  /\ \E t \in Requests :
       /\ arg' = [arg EXCEPT ![p] = Clamp(t)]
       /\ heartbeat' = IF InRange(t) THEN heartbeat ELSE MaxCount
  /\ overlapped' = (overlapped \/ \E q \in Procs : InSetTimeout(q))
  /\ GoTo(p, "setCount")
  /\ UNCHANGED <<hwVars, status, bootstatus, drvVars, file,
                 early, wasReset, crashed>>

SetCount(p) ==
  /\ pc[p] = "setCount"
  /\ UseRegisters(WriteCount(arg[p]))
  /\ GoTo(p, "setHeartbeat")
  /\ UNCHANGED <<drvVars, file, arg, histVars>>

\* Faulty variant: heartbeat is only set when the value was out of range.
SetHeartbeatForgets(p) ==
  /\ pc[p] = "setHeartbeat"
  /\ arg' = [arg EXCEPT ![p] = 0]
  /\ GoTo(p, "ping")
  /\ UNCHANGED <<hwVars, staticVars, drvVars, file, histVars, crashed>>

SetHeartbeat(p) ==
  /\ pc[p] = "setHeartbeat"
  /\ heartbeat' = arg[p]
  /\ arg' = [arg EXCEPT ![p] = 0]
  /\ GoTo(p, "ping")
  /\ UNCHANGED <<hwVars, status, bootstatus, drvVars, file, histVars, crashed>>
-----------------------------------------------------------------------------
(***************************************************************************)
(* Loading, unloading, resetting.                                          *)
(***************************************************************************)

\* amd_wdt_setupdevice: maps the registers and sets the action bit in CONTROL
\* by reading and writing it, which writes FIRED back.  A driver
\* unbound by hand is not bound again here before it is removed and loaded.
LoadSetup ==
  /\ drv = "out" /\ how # "unbind"
  /\ drv' = "setup"
  /\ fired' = FALSE
  /\ nowayout' \in BOOLEAN /\ heartbeat' \in Requests /\ how' = "none"
  /\ UNCHANGED <<start, count, due, status, bootstatus, procVars, histVars,
                 crashed>>

\* amd_wdt_init reads FIRED into bootstatus, clears it and sets the timeout.
LoadCheck ==
  /\ drv = "setup"
  /\ bootstatus' = fired
  /\ fired' = FALSE
  /\ heartbeat' = Clamp(heartbeat)
  /\ count' = Clamp(heartbeat)
  /\ drv' = "checked"
  /\ UNCHANGED <<start, due, status, nowayout, how, procVars,
                 histVars, crashed>>

\* misc_register: from now on the device can be opened, or it fails.
LoadRegister ==
  /\ drv = "checked"
  /\ \/ drv' = "registered" /\ UNCHANGED <<how, wasReset>>
     \/ drv' = "out" /\ how' = "unbind" /\ wasReset' = FALSE
  /\ UNCHANGED <<hwVars, staticVars, nowayout, procVars, early, overlapped,
                 crashed>>

\* Then DEV_OPEN is cleared, whoever has set it meanwhile.
LoadFinish ==
  /\ drv = "registered"
  /\ status' = (status \ {"DEV_OPEN"})
                 \cup (IF nowayout THEN {"NO_WAY_OUT"} ELSE {})
  /\ drv' = "in"
  /\ UNCHANGED <<hwVars, heartbeat, bootstatus, nowayout, how, procVars,
                 histVars, crashed>>

\* rmmod needs the module unused; unbind through sysfs does not.
CanRemove(h) ==
  h = "rmmod" => \A p \in Procs : file[p] = NoFile /\ Idle(p)

\* Faulty variant: cleanup stops the timer whatever nowayout says.
RemoveIgnoresNoWayOut ==
  /\ drv = "in"
  /\ how' \in {h \in {"rmmod", "unbind"} : CanRemove(h)}
  /\ drv' = "stopped"
  /\ Deactivate
  /\ UNCHANGED <<nowayout, procVars, histVars, crashed>>

\* amd_wdt_cleanup: the timer is stopped first, unless nowayout ...
Remove ==
  /\ drv = "in"
  /\ how' \in {h \in {"rmmod", "unbind"} : CanRemove(h)}
  /\ drv' = "stopped"
  /\ IF nowayout THEN UNCHANGED <<hwVars, staticVars>> ELSE Deactivate
  /\ UNCHANGED <<nowayout, procVars, histVars, crashed>>

\* ... then the device is deregistered ...
Deregister ==
  /\ drv = "stopped"
  /\ drv' = "deregistered"
  /\ UNCHANGED <<hwVars, staticVars, nowayout, how, procVars, histVars,
                 crashed>>

\* The static variables go with the module.
ModuleGone ==
  /\ status' = {} /\ heartbeat' = 0 /\ bootstatus' = FALSE
  /\ early' = FALSE /\ overlapped' = FALSE

\* ... and the registers are unmapped.
Unmap ==
  /\ drv = "deregistered"
  /\ drv' = "out"
  /\ wasReset' = FALSE
  /\ IF how = "rmmod" THEN ModuleGone
     ELSE UNCHANGED <<staticVars, early, overlapped>>
  /\ UNCHANGED <<hwVars, nowayout, how, procVars, crashed>>

\* rmmod of a module that is not bound: there is nothing to clean up.
RemoveUnbound ==
  /\ drv = "out" /\ how = "unbind" /\ CanRemove("rmmod")
  /\ how' = "none"
  /\ ModuleGone
  /\ UNCHANGED <<hwVars, nowayout, drv, procVars, wasReset, crashed>>

\* The machine is shut down: amd_wdt_shutdown stops the timer.
Shutdown == drv = "in" /\ Booted(FALSE)

\* The timer counts while it is started, and resets the machine at zero.
Tick ==
  /\ start /\ ~due
  /\ due' = TRUE
  /\ UNCHANGED <<start, fired, count, staticVars, drvVars, procVars,
                 histVars, crashed>>

Expire == start /\ due /\ Booted(TRUE)
-----------------------------------------------------------------------------
FileStart(p) ==
  \/ Open(p) \/ Close(p) \/ Write(p)
  \/ IoctlKeepalive(p) \/ IoctlSetOptions(p) \/ IoctlSetTimeout(p)
  \/ \E q \in Procs : Share(p, q)

FileStep(p) ==
  \/ OpenActivate(p) \/ OpenPing(p)
  \/ Release(p) \/ ReleaseTimer(p) \/ ReleaseClear(p)
  \/ WriteScan(p) \/ Ping(p)
  \/ OptionDisable(p) \/ OptionEnable(p)
  \/ SetCount(p) \/ SetHeartbeat(p)

DriverStep ==
  \/ LoadSetup \/ LoadCheck \/ LoadRegister \/ LoadFinish
  \/ Remove \/ Deregister \/ Unmap \/ RemoveUnbound \/ Shutdown

Next ==
  /\ ~crashed
  /\ \/ \E p \in Procs : FileStart(p) \/ FileStep(p)
     \/ DriverStep
     \/ Tick \/ Expire

Spec == Init /\ [][Next]_vars

\* The timer is hardware and does not stop counting; what a process has begun
\* in the kernel never sleeps and so comes to its end.
FairSpec ==
  /\ Spec
  /\ WF_vars(~crashed /\ (Tick \/ Expire))
  /\ \A p \in Procs : WF_vars(~crashed /\ FileStep(p))
-----------------------------------------------------------------------------
(***************************************************************************)
(* Properties.                                                             *)
(***************************************************************************)

\* "/dev/watchdog can only be opened once".
SingleOpen == Cardinality(OpenFiles) <= 1

\* Which is so, except for an open that slipped in between misc_register and
\* the clear_bit(DEV_OPEN) at the end of amd_wdt_init.
SingleOpenAfterInit == ~early => SingleOpen

\* A magic character never survives the file it was written to: otherwise the
\* next user's crash would stop the timer silently.
MagicNeedsOpenFile ==
  "ALLOW_RELEASE" \in status => "DEV_OPEN" \in status \/ early

\* The driver reports a running timer only if the timer runs.
ActiveMeansRunning == "ACTIVE" \in status => start

\* "Stop the timer before we leave": once the module is removed without
\* nowayout, no timer is left to reset the machine.
RemovedIsStopped == drv = "out" /\ how = "rmmod" /\ ~nowayout => ~start

\* What GETTIMEOUT reports is what the hardware counts from, unless two
\* SETTIMEOUT overlapped.
HeartbeatMatchesCount ==
  drv = "in" /\ ~overlapped /\ (\A p \in Procs : ~InSetTimeout(p))
    => heartbeat = count

\* Registers are used after iounmap only if the driver was unbound by hand.
CrashOnlyAfterUnbind == crashed => how = "unbind"

\* The two status bits follow the files: one user at a time, and no magic character without one.
StatusFollowsFiles == SingleOpenAfterInit /\ MagicNeedsOpenFile

\* What the driver believes of its timer is so, with two processes in its calls at once and
\* through unload and unbind: running, count, stopped at the end, registers mapped when used.
DriverMatchesTimer ==
  ActiveMeansRunning /\ HeartbeatMatchesCount /\ RemovedIsStopped /\ CrashOnlyAfterUnbind

\* With nowayout a running timer is stopped by nothing but DISABLECARD (and
\* the end of the machine's life): not by close, not by removing the module.
NoWayOutHolds ==
  [][nowayout /\ start /\ ~start' =>
       \/ \E p \in Procs : /\ pc[p] \in {"disable", "disableThenEnable"}
                         /\ pc'[p] # pc[p]
       \/ drv' = "out"]_vars

\* A file closed without the magic character costs a reset ("Unexpected close,
\* not stopping watchdog!"): the timer goes on and fires, unless somebody opens
\* the device again, another file is open, or the driver is removed.
UnexpectedCloseResets ==
  \A p \in Procs :
    (pc[p] = "releasePing" /\ start /\ drv = "in") ~>
      \/ drv # "in"
      \/ \E q \in Procs : pc[q] = "openActivate"
      \/ \E q \in Procs \ {p} : file[q] # NoFile

\* "Check to see if last reboot was due to watchdog timeout".
ResetIsReported == drv = "in" /\ wasReset => bootstatus
=============================================================================
