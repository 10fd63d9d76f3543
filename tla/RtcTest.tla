------------------------------ MODULE RtcTest ------------------------------
(***************************************************************************)
(* The program rtc-test over the kernel's real time clock.  The commands   *)
(* updateinton and periodicinton wait for interrupts until a Ctrl+C, the   *)
(* command setwakealarm until the alarm or a Ctrl+C.  Each installs its    *)
(* own handler of SIGINT, and the handler runs between any two steps of    *)
(* the program, which has to find out afterwards what has happened.        *)
(***************************************************************************)
EXTENDS Naturals

VARIABLES
  rpc,          \* where the program is
  waits,        \* what the loop waits for: update or periodic
  handler,      \* of SIGINT: prompt (sighandler), update, periodic or alarm
  loop,         \* the flag of the loop
  signal_recvd, \* the flag of the alarm handler
  on,           \* the clock's interrupts that are on: update, periodic, alarm
  data,         \* an interrupt has come that nobody has read
  fired,        \* (history) the alarm has gone off since setwakealarm set it
  ctrl,         \* (history) the handler of this command has run for a Ctrl+C
  missed,       \* (history) ... where the loop does not see that it has run
  before,       \* (history) signal_recvd as setwakealarm found it
  failed,       \* (history) a call to the driver has failed
  said          \* (history) what the command has said: none, received, aborting

clock == <<on, data, fired>>
told == <<ctrl, missed, before, said>>
rtc == <<rpc, waits, handler, loop, signal_recvd, clock, told, failed>>

Looping == {"arm", "enter", "test", "sleep", "select", "read"}

RtcTypeOK ==
  /\ rpc \in Looping \cup {"out", "prompt", "off", "set", "poll", "clean", "clear"}
  /\ waits \in {"update", "periodic"}
  /\ handler \in {"prompt", "update", "periodic", "alarm"}
  /\ {loop, signal_recvd, data, fired, ctrl, missed, before, failed} \subseteq BOOLEAN
  /\ on \subseteq {"update", "periodic", "alarm"}
  /\ said \in {"none", "received", "aborting"}

RtcInit ==
  /\ rpc = "out" /\ waits = "update" /\ handler = "prompt"
  /\ loop = FALSE /\ signal_recvd = FALSE
  /\ on = {} /\ data = FALSE /\ fired = FALSE
  /\ ctrl = FALSE /\ missed = FALSE /\ before = FALSE /\ failed = FALSE /\ said = "none"

\* main, up to the prompt.
RtcRun ==
  /\ rpc = "out" /\ rpc' = "prompt"
  /\ handler' = "prompt" /\ loop' = FALSE /\ signal_recvd' = FALSE
  /\ ctrl' = FALSE /\ missed' = FALSE /\ before' = FALSE /\ failed' = FALSE /\ said' = "none"
  /\ UNCHANGED <<waits, clock>>

\* exit, or a kill at any time: closing the file turns off what its reader waited for, and
\* leaves the alarm.
RtcExit ==
  /\ rpc # "out" /\ rpc' = "out"
  /\ on' = on \cap {"alarm"} /\ data' = FALSE
  /\ UNCHANGED <<waits, handler, loop, signal_recvd, fired, told, failed>>

----------------------------------------------------------------------------
(* Waiting for update or periodic interrupts. *)

\* updateinton turns the interrupt on, then installs its handler; ...
UpdateOn ==
  /\ rpc = "prompt" /\ waits' = "update"
  /\ ctrl' = FALSE /\ missed' = FALSE
  /\ \/ rpc' = "arm" /\ on' = on \cup {"update"} /\ UNCHANGED failed
     \/ UNCHANGED <<rpc, on>> /\ failed' = TRUE
  /\ said' = "none"
  /\ UNCHANGED <<handler, loop, signal_recvd, data, fired, before>>

\* ... periodicinton installs the handler, and leaves it if the interrupt cannot be had.
PeriodicArm ==
  /\ rpc = "prompt" /\ waits' = "periodic" /\ rpc' = "arm" /\ handler' = "periodic"
  /\ ctrl' = FALSE /\ missed' = FALSE /\ said' = "none"
  /\ UNCHANGED <<loop, signal_recvd, clock, before, failed>>

Arm ==
  /\ rpc = "arm"
  /\ \/ /\ waits = "update" /\ handler' = "update" /\ rpc' = "enter"
        /\ UNCHANGED <<on, failed>>
     \/ /\ waits = "periodic" /\ UNCHANGED handler
        /\ \/ rpc' = "enter" /\ on' = on \cup {"periodic"} /\ UNCHANGED failed
           \/ rpc' = "prompt" /\ UNCHANGED on /\ failed' = TRUE
  /\ UNCHANGED <<waits, loop, signal_recvd, data, fired, told>>

EnterLoop ==
  /\ rpc = "enter" /\ rpc' = "test" /\ loop' = TRUE
  /\ UNCHANGED <<waits, handler, signal_recvd, clock, told, failed>>

TestLoop ==
  /\ rpc = "test" /\ rpc' = IF loop THEN "sleep" ELSE "off"
  /\ UNCHANGED <<waits, handler, loop, signal_recvd, clock, told, failed>>

Select ==
  /\ rpc = "sleep" /\ rpc' = "select"
  /\ UNCHANGED <<waits, handler, loop, signal_recvd, clock, told, failed>>

\* select returns with data, or after five seconds in which no interrupt has come.
Selected ==
  /\ rpc = "select" /\ (data \/ on \cap {"update", "periodic"} = {}) /\ rpc' = "read"
  /\ UNCHANGED <<waits, handler, loop, signal_recvd, clock, told, failed>>

\* The read waits for data, whatever the comment beside it says; it may fail.
Read ==
  /\ rpc = "read" /\ data
  /\ \/ data' = FALSE /\ UNCHANGED <<loop, failed>>
     \/ loop' = FALSE /\ failed' = TRUE /\ UNCHANGED data
  /\ rpc' = "test"
  /\ UNCHANGED <<waits, handler, signal_recvd, on, fired, told>>

\* Faulty variant: the loop leaves it to the handler to turn the interrupt off.
LoopOffSkipped ==
  /\ rpc = "off" /\ rpc' = "prompt"
  /\ UNCHANGED <<waits, handler, loop, signal_recvd, clock, told, failed>>

\* After the loop the interrupt is turned off, if the driver does it.
LoopOff ==
  /\ rpc = "off" /\ rpc' = "prompt"
  /\ \/ on' = on \ {waits} /\ UNCHANGED failed
     \/ failed' = TRUE /\ UNCHANGED on
  /\ UNCHANGED <<waits, handler, loop, signal_recvd, data, fired, told>>

\* updateintoff, periodicintoff and wakealarmoff.
TurnOff ==
  /\ rpc = "prompt"
  /\ \/ \E i \in {"update", "periodic", "alarm"} : on' = on \ {i} /\ UNCHANGED failed
     \/ failed' = TRUE /\ UNCHANGED on
  /\ UNCHANGED <<rpc, waits, handler, loop, signal_recvd, data, fired, told>>

----------------------------------------------------------------------------
(* The alarm. *)

\* setwakealarm: the handler first, ...
AlarmArm ==
  /\ rpc = "prompt" /\ rpc' = "set" /\ handler' = "alarm"
  /\ ctrl' = FALSE /\ before' = signal_recvd /\ said' = "none"
  /\ UNCHANGED <<waits, loop, signal_recvd, clock, missed, failed>>

\* ... then the alarm; the command ends with the handler installed if it is refused.
AlarmSet ==
  /\ rpc = "set"
  /\ \/ rpc' = "poll" /\ on' = on \cup {"alarm"} /\ fired' = FALSE /\ UNCHANGED failed
     \/ rpc' = "prompt" /\ failed' = TRUE /\ UNCHANGED <<on, fired>>
  /\ UNCHANGED <<waits, handler, loop, signal_recvd, data, told>>

\* The alarm is read until it is off; the flag tells why.
AlarmPoll ==
  /\ rpc = "poll"
  /\ \/ /\ "alarm" \notin on /\ rpc' = "clean"
        /\ said' = IF signal_recvd THEN "aborting" ELSE "received"
        /\ UNCHANGED failed
     \/ rpc' = "prompt" /\ failed' = TRUE /\ UNCHANGED said
  /\ UNCHANGED <<waits, handler, loop, signal_recvd, clock, ctrl, missed, before>>

\* Faulty variant: the flag is left to whoever calls the handler.
AlarmHandlerSilent ==
  \/ /\ on' = on \ {"alarm"} /\ handler' = "prompt"
     /\ UNCHANGED <<signal_recvd, failed>>
  \/ failed' = TRUE /\ UNCHANGED <<signal_recvd, on, handler>>

\* alarminthandler: the flag, the alarm off, the prompt's handler; it stops at a failure.
AlarmHandler ==
  /\ signal_recvd' = TRUE
  /\ \/ on' = on \ {"alarm"} /\ handler' = "prompt" /\ UNCHANGED failed
     \/ failed' = TRUE /\ UNCHANGED <<on, handler>>

\* The command calls the handler itself, ...
AlarmClean ==
  /\ rpc = "clean" /\ rpc' = "clear" /\ AlarmHandler
  /\ UNCHANGED <<waits, loop, data, fired, told>>

\* ... and takes the flag back.
AlarmClear ==
  /\ rpc = "clear" /\ rpc' = "prompt" /\ signal_recvd' = FALSE
  /\ UNCHANGED <<waits, handler, loop, clock, told, failed>>

----------------------------------------------------------------------------
(* Ctrl+C, and the clock. *)

\* Faulty variant: the handler turns the interrupt off and keeps the loop going.
LoopHandlerKeeps ==
  /\ \/ on' = on \ {handler} /\ UNCHANGED failed
     \/ failed' = TRUE /\ UNCHANGED on
  /\ handler' = "prompt" /\ UNCHANGED <<loop, signal_recvd>>

\* updateinthandler and periodicinthandler.
LoopHandler ==
  /\ loop' = FALSE
  /\ \/ on' = on \ {handler} /\ UNCHANGED failed
     \/ failed' = TRUE /\ UNCHANGED on
  /\ handler' = "prompt" /\ UNCHANGED signal_recvd

\* A handler runs where the program is; select is interrupted, a read is begun again.
CtrlC ==
  /\ rpc # "out" /\ handler # "prompt"
  /\ \/ handler = "alarm" /\ AlarmHandler /\ UNCHANGED <<rpc, loop>>
     \/ /\ handler # "alarm" /\ LoopHandler
        /\ rpc' = IF rpc = "select" THEN "off" ELSE rpc
  /\ ctrl' = TRUE
  /\ missed' = (missed \/ rpc \in {"arm", "enter", "sleep"} \/ (rpc = "read" /\ ~data))
  /\ UNCHANGED <<waits, data, fired, before, said>>

\* With the prompt's handler a Ctrl+C ends a select all the same.
CtrlCPrompt ==
  /\ rpc = "select" /\ handler = "prompt" /\ rpc' = "off" /\ loop' = FALSE
  /\ UNCHANGED <<waits, handler, signal_recvd, clock, told, failed>>

Tick ==
  /\ on \cap {"update", "periodic"} # {} /\ data' = TRUE
  /\ UNCHANGED <<rpc, waits, handler, loop, signal_recvd, on, fired, told, failed>>

AlarmFires ==
  /\ "alarm" \in on /\ on' = on \ {"alarm"} /\ fired' = TRUE /\ data' = TRUE
  /\ UNCHANGED <<rpc, waits, handler, loop, signal_recvd, told, failed>>

RtcProgram ==
  \/ Arm \/ EnterLoop \/ TestLoop \/ Select \/ Selected \/ Read \/ LoopOff
  \/ AlarmSet \/ AlarmPoll \/ AlarmClean \/ AlarmClear

RtcNext ==
  \/ RtcRun \/ RtcExit \/ UpdateOn \/ PeriodicArm \/ TurnOff \/ AlarmArm
  \/ RtcProgram \/ CtrlC \/ CtrlCPrompt \/ Tick \/ AlarmFires

\* A command that has begun goes on, and the clock runs.
RtcFairness == WF_rtc(RtcProgram) /\ WF_rtc(Tick) /\ WF_rtc(AlarmFires)

----------------------------------------------------------------------------
(* Properties. *)

\* At the prompt no interrupt that a command of this run turned on is left on, wherever the
\* Ctrl+C came, unless a call to the driver has failed.  (An alarm left by an earlier run is
\* none of this run's.)
NothingLeftOn == rpc = "prompt" /\ ~failed => on \cap {"update", "periodic"} = {}

\* setwakealarm says "Received" only of an alarm that has gone off, and "Aborting" only after a
\* Ctrl+C in this command or a flag that an earlier, failed command has left behind.
AlarmToldTruly ==
  /\ said = "received" => fired
  /\ said = "aborting" => ctrl \/ before
  /\ before => failed

\* A Ctrl+C in updateinton or periodicinton brings the program back to the prompt, unless it
\* came before the loop had begun, or between its test and the wait: then the program reads
\* from a clock whose interrupts are off, and no Ctrl+C helps.  setwakealarm comes back by
\* itself, since the alarm goes off at last.
CommandsEnd ==
  /\ (rpc \in Looping \cup {"off"} /\ ctrl /\ ~missed) ~> (rpc \in {"prompt", "out"})
  /\ (rpc \in {"set", "poll", "clean", "clear"}) ~> (rpc \in {"prompt", "out"})
=============================================================================
