---------------------------- MODULE WatchdogTest ----------------------------
(***************************************************************************)
(* The program watchdog-test over the driver of module WdtCore.  It keeps  *)
(* /dev/watchdog open, and its command ping triggers the timer once a      *)
(* second until a Ctrl+C: the signal handler for that is installed for the *)
(* loop and takes itself away again.  Signals come between any two steps,  *)
(* the program may be killed, and the timer may reset the machine.         *)
(***************************************************************************)
EXTENDS WdtCore

VARIABLES
  wpc,       \* out, prompt, and in ping: armed, loop, sleep
  handler,   \* of SIGINT: prompt (sighandler), ping (pinghandler)
  ping,      \* the flag of the loop
  lost,      \* (history) a Ctrl+C in this loop came before ping was set
  sent,      \* (history) this run has written the magic character
  off,       \* (history) the last option this run has set is DISABLECARD
  leftover,  \* (history) the magic character of an earlier run was still there
             \* when this one opened the device
  told       \* (history) what the program has said at its end: none, reset, stop

program == <<wpc, handler, ping, lost>>
memory == <<sent, off, leftover, told>>
vars == <<wdt, program, memory>>

Init ==
  /\ WdtInit
  /\ wpc = "out" /\ handler = "prompt" /\ ping = FALSE /\ lost = FALSE
  /\ sent = FALSE /\ off = FALSE /\ leftover = FALSE /\ told = "none"

----------------------------------------------------------------------------
\* main: /dev/watchdog is opened, or the program ends.
Run ==
  /\ wpc = "out" /\ Open
  /\ wpc' = "prompt" /\ handler' = "prompt" /\ ping' = FALSE /\ lost' = FALSE
  /\ sent' = FALSE /\ off' = FALSE /\ leftover' = magic /\ told' = "none"

\* The commands that change the state of the timer.
Command ==
  /\ wpc = "prompt"
  /\ \/ DisableCard /\ off' = TRUE /\ UNCHANGED sent
     \/ EnableCard /\ off' = FALSE /\ UNCHANGED sent
     \/ WriteMagic /\ sent' = TRUE /\ UNCHANGED off
     \/ (\E t \in Requests : SetTimeout(t)) /\ UNCHANGED <<sent, off>>
  /\ UNCHANGED <<program, leftover, told>>

\* ping: the handler first, ...
PingArm ==
  /\ wpc = "prompt" /\ wpc' = "armed" /\ handler' = "ping" /\ lost' = FALSE
  /\ UNCHANGED <<wdt, ping, memory>>

\* ... then the flag.
PingSet ==
  /\ wpc = "armed" /\ wpc' = "loop" /\ ping' = TRUE
  /\ UNCHANGED <<wdt, handler, lost, memory>>

PingTest ==
  /\ wpc = "loop"
  /\ IF ping /\ file = "live"
     THEN wpc' = "sleep" /\ CorePing
     ELSE wpc' = "prompt" /\ UNCHANGED registers
  /\ UNCHANGED <<params, core, life, history, handler, ping, lost, memory>>

PingWake ==
  /\ wpc = "sleep" /\ wpc' = "loop"
  /\ UNCHANGED <<wdt, handler, ping, lost, memory>>

\* Faulty variant: pinghandler leaves the flag as it is.
CtrlCForgets ==
  /\ wpc # "out"
  /\ handler' = "prompt"
  /\ lost' = (lost \/ (handler = "ping" /\ wpc = "armed"))
  /\ wpc' = IF wpc = "sleep" THEN "loop" ELSE wpc
  /\ UNCHANGED <<wdt, ping, memory>>

\* SIGINT: sighandler prints the prompt, pinghandler ends the loop.
CtrlC ==
  /\ wpc # "out"
  /\ IF handler = "ping"
     THEN /\ ping' = FALSE /\ handler' = "prompt"
          /\ lost' = (lost \/ wpc = "armed")
     ELSE UNCHANGED <<ping, handler, lost>>
  /\ wpc' = IF wpc = "sleep" THEN "loop" ELSE wpc
  /\ UNCHANGED <<wdt, memory>>

\* exit, with its words about what becomes of the machine; they do not count
\* when the device has been, or is being, taken away.
Exit ==
  /\ wpc = "prompt" /\ wpc' = "out"
  /\ told' = IF file = "dead" \/ stale \/ drv = "stopped" THEN "none"
             ELSE IF sent \/ off THEN "stop" ELSE "reset"
  /\ Release
  /\ UNCHANGED <<handler, ping, lost, sent, off, leftover>>

\* The program is killed: the kernel closes its file.
Killed ==
  /\ wpc # "out" /\ wpc' = "out"
  /\ Release
  /\ UNCHANGED <<handler, ping, lost, memory>>

\* The driver's side; what was said no longer counts once it is taken away.
Driver ==
  /\ SetUp \/ Register \/ CleanupStop \/ CleanupUnregister \/ Unload
  /\ told' = IF drv = "registered" THEN "none" ELSE told
  /\ UNCHANGED <<program, sent, off, leftover>>

Timer == Tick /\ UNCHANGED <<program, memory>>

Reboots ==
  /\ wpc' = "out" /\ handler' = "prompt" /\ ping' = FALSE /\ lost' = FALSE
  /\ sent' = FALSE /\ off' = FALSE /\ leftover' = FALSE /\ told' = "none"

Expire == start /\ left = 0 /\ Booted(TRUE) /\ Reboots

\* An orderly reboot: amd_wdt_shutdown stops the timer of a bound device,
\* whatever nowayout says; without a driver the reset of the machine does.
Shutdown ==
  /\ drv \in {"registered", "out"} /\ binds > 0
  /\ Booted(FALSE) /\ Reboots

Next ==
  \/ Run \/ Command \/ PingArm \/ PingSet \/ PingTest \/ PingWake
  \/ CtrlC \/ Exit \/ Killed
  \/ Driver \/ Timer \/ Expire \/ Shutdown

Spec == Init /\ [][Next]_vars

\* The timer is hardware; the program in its loop is a runnable process.
FairSpec ==
  /\ Spec
  /\ WF_vars(Timer \/ Expire)
  /\ WF_vars(PingSet \/ PingTest \/ PingWake)
----------------------------------------------------------------------------
(* Properties *)

\* The types of the variables; the timeout stays within what the register and
\* the core take, whatever heartbeat the module was loaded with.
TypeOK ==
  /\ board \in {"A", "V"} /\ nowayout \in BOOLEAN /\ heartbeat \in Requests
  /\ start \in BOOLEAN /\ fired \in BOOLEAN
  /\ count \in 1 .. MaxCount /\ left \in 0 .. MaxCount
  /\ drv \in {"out", "setup", "registered", "stopped"}
  /\ bootstatus \in BOOLEAN /\ binds \in 0 .. MaxBinds
  /\ active \in BOOLEAN /\ file \in {"none", "live", "dead"} /\ magic \in BOOLEAN
  /\ wasReset \in BOOLEAN /\ stale \in BOOLEAN /\ late \in BOOLEAN
  /\ wpc \in {"out", "prompt", "armed", "loop", "sleep"}
  /\ handler \in {"prompt", "ping"} /\ ping \in BOOLEAN /\ lost \in BOOLEAN
  /\ sent \in BOOLEAN /\ off \in BOOLEAN /\ leftover \in BOOLEAN
  /\ told \in {"none", "reset", "stop"}

\* What the core believes about the timer is so while the device is
\* registered, unless it was taken away before while it was active: then
\* amd_wdt_dev.status outlives the timer, and the next open starts nothing.
\* And a timer that nobody can trigger runs only under nowayout, or when it
\* was started after amd_wdt_cleanup had stopped it.
CoreKnowsTimer ==
  /\ drv = "registered" /\ start # active => stale
  /\ drv = "out" /\ start => nowayout \/ late
  /\ told = "stop" /\ ~ nowayout => ~ start

\* "Check to see if last reboot was due to watchdog timeout": the first probe
\* of a boot on the Falcon reports a reset by the watchdog, and no other.
ResetReported ==
  board = "A" /\ drv = "registered" /\ binds = 1 => bootstatus = wasReset

\* "press Ctrl+C to stop": the loop can be ended as long as no Ctrl+C has come
\* between the installation of the handler and the setting of the flag, which
\* loses the signal and the handler with it.
LoopCanBeLeft ==
  wpc \in {"armed", "loop", "sleep"} =>
    handler = "ping" \/ (~ ping /\ wpc # "armed") \/ lost

\* "If the Watchdog Timer was not disabled, and you did not send the magic
\* character, Watchdog Timer is still ticking, and your system will reboot
\* soon": after such an exit the machine is reset, unless the program is
\* started again or the device is taken away.  The exception: an earlier run
\* sent the magic character and ended with the watchdog disabled, which keeps
\* the character; then the exit stops the timer.
ExitResets == told = "reset" /\ ~ leftover ~> told # "reset"
============================================================================
