------------------------- MODULE WatchdogTestProofs -------------------------
(***************************************************************************)
(* What holds of watchdog-test over the driver that leaves its file to the *)
(* watchdog core, for every width of the COUNT register and any number of  *)
(* probes.  No fairness is used; of the reset that follows an exit without *)
(* the magic character the safety half is proved (ResetIsComing).          *)
(***************************************************************************)
EXTENDS WatchdogTest, TLAPS

\* The program runs while it has its file, and says something only at its end.
\* A file is live only while the device is there.
FileInv ==
  /\ (wpc = "out") <=> (file = "none")
  /\ wpc # "out" => told = "none"
  /\ file = "live" => Serving

\* What the program has last asked of the live file is so, and the core has a magic character
\* if this run has sent one or found one that an earlier run had left.
AskedInv ==
  /\ file = "live" =>
       /\ magic <=> sent \/ leftover
       /\ ~ nowayout => (off <=> ~ active)
       /\ nowayout => active

\* Where nobody can trigger the timer it does not run, and WDOG_ACTIVE is
\* clear there unless it was left over.
TimerInv ==
  /\ drv \in {"out", "setup"} /\ active => stale
  /\ drv \in {"out", "setup", "stopped"} /\ start => nowayout \/ late
  /\ drv = "registered" /\ start # active => stale

\* What is true of the timer after an exit.
ToldInv ==
  /\ told = "stop" /\ ~ nowayout => ~ start
  /\ told = "reset" => drv = "registered"
  /\ told = "reset" /\ ~ leftover => start

\* Until the first probe of a boot FIRED says what the boot followed, after it
\* bootstatus does.
BootInv ==
  /\ binds = 0 => drv = "out" /\ file = "none" /\ fired = wasReset
  /\ board = "A" /\ drv \in {"setup", "registered"} /\ binds = 1 => bootstatus = wasReset

IInv == TypeOK /\ FileInv /\ AskedInv /\ TimerInv /\ ToldInv /\ BootInv /\ LoopCanBeLeft
----------------------------------------------------------------------------
(* Lemmas: one for each part of the invariant, with one step for each group *)
(* of actions.                                                             *)

\* TypeOK in parts, as the provers take them: the flags of the timer, of the boot, of the core
\* and of the program, and the other variables.
TimerFlags == start \in BOOLEAN /\ fired \in BOOLEAN
BootFlags == nowayout \in BOOLEAN /\ bootstatus \in BOOLEAN /\ wasReset \in BOOLEAN
CoreFlags == active \in BOOLEAN /\ magic \in BOOLEAN /\ stale \in BOOLEAN /\ late \in BOOLEAN
ProgramFlags ==
  /\ ping \in BOOLEAN /\ lost \in BOOLEAN
  /\ sent \in BOOLEAN /\ off \in BOOLEAN /\ leftover \in BOOLEAN

FlagsOK == TimerFlags /\ BootFlags /\ CoreFlags /\ ProgramFlags

ValuesOK ==
  /\ board \in {"A", "V"} /\ heartbeat \in Requests
  /\ count \in 1 .. MaxCount /\ left \in 0 .. MaxCount
  /\ drv \in {"out", "setup", "registered", "stopped"} /\ binds \in 0 .. MaxBinds
  /\ file \in {"none", "live", "dead"}
  /\ wpc \in {"out", "prompt", "armed", "loop", "sleep"}
  /\ handler \in {"prompt", "ping"} /\ told \in {"none", "reset", "stop"}

\* The driver's limits give a timeout that the register takes.
LEMMA ClampInRange == \A t \in Requests : Clamp(t) \in 1 .. MaxCount
BY WdtCoreAssumption DEF Requests, Clamp

\* The flags of the timer stay flags.
LEMMA TimerFlagsStep == FlagsOK /\ Next => TimerFlags'
<1> SUFFICES ASSUME FlagsOK, Next PROVE TimerFlags'
  OBVIOUS
<1> USE DEF FlagsOK, TimerFlags, BootFlags, CoreFlags, ProgramFlags, wdt, registers, params, core,
        life, history, program, memory
<1>1. CASE Run
  BY <1>1 DEF Run, Open, CoreStart, StartTimer
<1>2. CASE Command
  BY <1>2 DEF Command, DisableCard, EnableCard, WriteMagic, SetTimeout, CoreStart, CoreStop,
             CorePing, StartTimer, StopTimer, PingTimer
<1>3. CASE PingArm \/ PingSet \/ PingWake
  BY <1>3 DEF PingArm, PingSet, PingWake
<1>4. CASE PingTest
  BY <1>4 DEF PingTest, CorePing, PingTimer
<1>5. CASE CtrlC
  BY <1>5 DEF CtrlC
<1>6. CASE Exit \/ Killed
  BY <1>6 DEF Exit, Killed, Release, CoreStop, CorePing, StopTimer, PingTimer
<1>7. CASE Driver
  BY <1>7 DEF Driver, SetUp, Register, CleanupStop, CleanupUnregister, Unload, StopTimer
<1>8. CASE Timer \/ Expire \/ Shutdown
  BY <1>8 DEF Timer, Expire, Shutdown, Tick, Booted, Reboots
<1> QED
  BY <1>1, <1>2, <1>3, <1>4, <1>5, <1>6, <1>7, <1>8 DEF Next

\* The flags of the probe and of the boot stay flags.
LEMMA BootFlagsStep == FlagsOK /\ Next => BootFlags'
<1> SUFFICES ASSUME FlagsOK, Next PROVE BootFlags'
  OBVIOUS
<1> USE DEF FlagsOK, TimerFlags, BootFlags, CoreFlags, ProgramFlags, wdt, registers, params, core,
        life, history, program, memory
<1>1. CASE Run
  BY <1>1 DEF Run, Open, CoreStart, StartTimer
<1>2. CASE Command
  BY <1>2 DEF Command, DisableCard, EnableCard, WriteMagic, SetTimeout, CoreStart, CoreStop,
             CorePing, StartTimer, StopTimer, PingTimer
<1>3. CASE PingArm \/ PingSet \/ PingWake
  BY <1>3 DEF PingArm, PingSet, PingWake
<1>4. CASE PingTest
  BY <1>4 DEF PingTest, CorePing, PingTimer
<1>5. CASE CtrlC
  BY <1>5 DEF CtrlC
<1>6. CASE Exit \/ Killed
  BY <1>6 DEF Exit, Killed, Release, CoreStop, CorePing, StopTimer, PingTimer
<1>7. CASE Driver
  BY <1>7 DEF Driver, SetUp, Register, CleanupStop, CleanupUnregister, Unload, StopTimer
<1>8. CASE Timer \/ Expire \/ Shutdown
  BY <1>8 DEF Timer, Expire, Shutdown, Tick, Booted, Reboots
<1> QED
  BY <1>1, <1>2, <1>3, <1>4, <1>5, <1>6, <1>7, <1>8 DEF Next

\* The flags of the core stay flags.
LEMMA CoreFlagsStep == FlagsOK /\ Next => CoreFlags'
<1> SUFFICES ASSUME FlagsOK, Next PROVE CoreFlags'
  OBVIOUS
<1> USE DEF FlagsOK, TimerFlags, BootFlags, CoreFlags, ProgramFlags, wdt, registers, params, core,
        life, history, program, memory
<1>1. CASE Run
  BY <1>1 DEF Run, Open, CoreStart, StartTimer
<1>2. CASE Command
  BY <1>2 DEF Command, DisableCard, EnableCard, WriteMagic, SetTimeout, CoreStart, CoreStop,
             CorePing, StartTimer, StopTimer, PingTimer
<1>3. CASE PingArm \/ PingSet \/ PingWake
  BY <1>3 DEF PingArm, PingSet, PingWake
<1>4. CASE PingTest
  BY <1>4 DEF PingTest, CorePing, PingTimer
<1>5. CASE CtrlC
  BY <1>5 DEF CtrlC
<1>6. CASE Exit \/ Killed
  BY <1>6 DEF Exit, Killed, Release, CoreStop, CorePing, StopTimer, PingTimer
<1>7. CASE Driver
  BY <1>7 DEF Driver, SetUp, Register, CleanupStop, CleanupUnregister, Unload, StopTimer
<1>8. CASE Timer \/ Expire \/ Shutdown
  BY <1>8 DEF Timer, Expire, Shutdown, Tick, Booted, Reboots
<1> QED
  BY <1>1, <1>2, <1>3, <1>4, <1>5, <1>6, <1>7, <1>8 DEF Next

\* The flags of the program stay flags.
LEMMA ProgramFlagsStep == FlagsOK /\ Next => ProgramFlags'
<1> SUFFICES ASSUME FlagsOK, Next PROVE ProgramFlags'
  OBVIOUS
<1> USE DEF FlagsOK, TimerFlags, BootFlags, CoreFlags, ProgramFlags, wdt, registers, params, core,
        life, history, program, memory
<1>1. CASE Run
  BY <1>1 DEF Run, Open, CoreStart, StartTimer
<1>2. CASE Command
  BY <1>2 DEF Command, DisableCard, EnableCard, WriteMagic, SetTimeout, CoreStart, CoreStop,
             CorePing, StartTimer, StopTimer, PingTimer
<1>3. CASE PingArm \/ PingSet \/ PingWake
  BY <1>3 DEF PingArm, PingSet, PingWake
<1>4. CASE PingTest
  BY <1>4 DEF PingTest, CorePing, PingTimer
<1>5. CASE CtrlC
  BY <1>5 DEF CtrlC
<1>6. CASE Exit \/ Killed
  BY <1>6 DEF Exit, Killed, Release, CoreStop, CorePing, StopTimer, PingTimer
<1>7. CASE Driver
  BY <1>7 DEF Driver, SetUp, Register, CleanupStop, CleanupUnregister, Unload, StopTimer
<1>8. CASE Timer \/ Expire \/ Shutdown
  BY <1>8 DEF Timer, Expire, Shutdown, Tick, Booted, Reboots
<1> QED
  BY <1>1, <1>2, <1>3, <1>4, <1>5, <1>6, <1>7, <1>8 DEF Next

LEMMA FlagsStep == FlagsOK /\ Next => FlagsOK'
BY TimerFlagsStep, BootFlagsStep, CoreFlagsStep, ProgramFlagsStep DEF FlagsOK

\* The other variables keep their types.
LEMMA ValuesStep == ValuesOK /\ Next => ValuesOK'
<1> SUFFICES ASSUME ValuesOK, Next PROVE ValuesOK'
  OBVIOUS
<1> USE WdtCoreAssumption, ClampInRange DEF ValuesOK, Requests, wdt, registers, params, core,
        life, history, program, memory
<1>1. CASE Run
  BY <1>1 DEF Run, Open, CoreStart, StartTimer
<1>2. CASE Command
  BY <1>2 DEF Command, DisableCard, EnableCard, WriteMagic, SetTimeout, CoreStart, CoreStop,
              CorePing, StartTimer, StopTimer, PingTimer
<1>3. CASE PingArm \/ PingSet \/ PingWake
  BY <1>3 DEF PingArm, PingSet, PingWake
<1>4. CASE PingTest
  BY <1>4 DEF PingTest, CorePing, PingTimer
<1>5. CASE CtrlC
  BY <1>5 DEF CtrlC
<1>6. CASE Exit
  BY <1>6 DEF Exit, Release, CoreStop, CorePing, StopTimer, PingTimer
<1>7. CASE Killed
  BY <1>7 DEF Killed, Release, CoreStop, CorePing, StopTimer, PingTimer
<1>8. CASE Driver
  BY <1>8 DEF Driver, SetUp, Register, CleanupStop, CleanupUnregister, Unload
<1>9. CASE Timer
  BY <1>9 DEF Timer, Tick
<1>10. CASE Expire \/ Shutdown
  BY <1>10 DEF Expire, Shutdown, Booted, Reboots
<1> QED
  BY <1>1, <1>2, <1>3, <1>4, <1>5, <1>6, <1>7, <1>8, <1>9, <1>10
     DEF Next

\* The program has its file as long as it runs.
LEMMA FileStep == TypeOK /\ FileInv /\ Next => FileInv'
<1> SUFFICES ASSUME TypeOK /\ FileInv, Next PROVE FileInv'
  OBVIOUS
<1> USE DEF TypeOK, FileInv, Serving,
     wdt, registers, params, core, life, history, program, memory
<1>1. CASE Run
  BY <1>1 DEF Run, Open, CoreStart, StartTimer
<1>2. CASE Command
  BY <1>2 DEF Command, DisableCard, EnableCard, WriteMagic, SetTimeout, CoreStart, CoreStop,
              CorePing, StartTimer, StopTimer, PingTimer
<1>3. CASE PingArm \/ PingSet \/ PingWake
  BY <1>3 DEF PingArm, PingSet, PingWake
<1>4. CASE PingTest
  BY <1>4 DEF PingTest, CorePing, PingTimer
<1>5. CASE CtrlC
  BY <1>5 DEF CtrlC
<1>6. CASE Exit
  BY <1>6 DEF Exit, Release, CoreStop, CorePing, StopTimer, PingTimer
<1>7. CASE Killed
  BY <1>7 DEF Killed, Release, CoreStop, CorePing, StopTimer, PingTimer
<1>8. CASE Driver
  BY <1>8 DEF Driver, SetUp, Register, CleanupStop, CleanupUnregister, Unload
<1>9. CASE Timer
  BY <1>9 DEF Timer, Tick
<1>10. CASE Expire \/ Shutdown
  BY <1>10 DEF Expire, Shutdown, Booted, Reboots
<1> QED
  BY <1>1, <1>2, <1>3, <1>4, <1>5, <1>6, <1>7, <1>8, <1>9, <1>10
     DEF Next

\* What the program has asked of the timer is so.
LEMMA AskedStep == TypeOK /\ FileInv /\ AskedInv /\ Next => AskedInv'
<1> SUFFICES ASSUME TypeOK /\ FileInv /\ AskedInv, Next PROVE AskedInv'
  OBVIOUS
<1> USE DEF TypeOK, FileInv, AskedInv, Serving,
     wdt, registers, params, core, life, history, program, memory
<1>1. CASE Run
  BY <1>1 DEF Run, Open, CoreStart, StartTimer
<1>2. CASE Command
  BY <1>2 DEF Command, DisableCard, EnableCard, WriteMagic, SetTimeout, CoreStart, CoreStop,
              CorePing, StartTimer, StopTimer, PingTimer
<1>3. CASE PingArm \/ PingSet \/ PingWake
  BY <1>3 DEF PingArm, PingSet, PingWake
<1>4. CASE PingTest
  BY <1>4 DEF PingTest, CorePing, PingTimer
<1>5. CASE CtrlC
  BY <1>5 DEF CtrlC
<1>6. CASE Exit
  BY <1>6 DEF Exit, Release, CoreStop, CorePing, StopTimer, PingTimer
<1>7. CASE Killed
  BY <1>7 DEF Killed, Release, CoreStop, CorePing, StopTimer, PingTimer
<1>8. CASE Driver
  BY <1>8 DEF Driver, SetUp, Register, CleanupStop, CleanupUnregister, Unload
<1>9. CASE Timer
  BY <1>9 DEF Timer, Tick
<1>10. CASE Expire \/ Shutdown
  BY <1>10 DEF Expire, Shutdown, Booted, Reboots
<1> QED
  BY <1>1, <1>2, <1>3, <1>4, <1>5, <1>6, <1>7, <1>8, <1>9, <1>10
     DEF Next

\* The core and the timer part only where TimerInv says.
LEMMA TimerStep == TypeOK /\ FileInv /\ TimerInv /\ Next => TimerInv'
<1> SUFFICES ASSUME TypeOK /\ FileInv /\ TimerInv, Next PROVE TimerInv'
  OBVIOUS
<1> USE DEF TypeOK, FileInv, TimerInv, Serving,
     wdt, registers, params, core, life, history, program, memory
<1>1. CASE Run
  BY <1>1 DEF Run, Open, CoreStart, StartTimer
<1>2. CASE Command
  BY <1>2 DEF Command, DisableCard, EnableCard, WriteMagic, SetTimeout, CoreStart, CoreStop,
              CorePing, StartTimer, StopTimer, PingTimer
<1>3. CASE PingArm \/ PingSet \/ PingWake
  BY <1>3 DEF PingArm, PingSet, PingWake
<1>4. CASE PingTest
  BY <1>4 DEF PingTest, CorePing, PingTimer
<1>5. CASE CtrlC
  BY <1>5 DEF CtrlC
<1>6. CASE Exit
  BY <1>6 DEF Exit, Release, CoreStop, CorePing, StopTimer, PingTimer
<1>7. CASE Killed
  BY <1>7 DEF Killed, Release, CoreStop, CorePing, StopTimer, PingTimer
<1>8. CASE Driver
  <2>1. CASE SetUp /\ UNCHANGED <<program, sent, off>>
    BY <2>1 DEF SetUp
  <2>2. CASE Register /\ UNCHANGED <<program, sent, off>>
    BY <2>2 DEF Register
  <2>3. CASE CleanupStop /\ UNCHANGED <<program, sent, off>>
    BY <2>3 DEF CleanupStop
  <2>4. CASE CleanupUnregister /\ UNCHANGED <<program, sent, off>>
    BY <2>4 DEF CleanupUnregister
  <2>5. CASE Unload /\ UNCHANGED <<program, sent, off>>
    BY <2>5 DEF Unload
  <2> QED
    BY <1>8, <2>1, <2>2, <2>3, <2>4, <2>5 DEF Driver
<1>9. CASE Timer
  BY <1>9 DEF Timer, Tick
<1>10. CASE Expire \/ Shutdown
  BY <1>10 DEF Expire, Shutdown, Booted, Reboots
<1> QED
  BY <1>1, <1>2, <1>3, <1>4, <1>5, <1>6, <1>7, <1>8, <1>9, <1>10
     DEF Next

\* What the program says at its end stays so.
LEMMA ToldStep == TypeOK /\ FileInv /\ AskedInv /\ TimerInv /\ ToldInv /\ Next => ToldInv'
<1> SUFFICES ASSUME TypeOK /\ FileInv /\ AskedInv /\ TimerInv /\ ToldInv, Next PROVE ToldInv'
  OBVIOUS
<1> USE DEF TypeOK, FileInv, AskedInv, TimerInv, ToldInv, Serving,
     wdt, registers, params, core, life, history, program, memory
<1>1. CASE Run
  BY <1>1 DEF Run, Open, CoreStart, StartTimer
<1>2. CASE Command
  BY <1>2 DEF Command, DisableCard, EnableCard, WriteMagic, SetTimeout, CoreStart, CoreStop,
              CorePing, StartTimer, StopTimer, PingTimer
<1>3. CASE PingArm \/ PingSet \/ PingWake
  BY <1>3 DEF PingArm, PingSet, PingWake
<1>4. CASE PingTest
  BY <1>4 DEF PingTest, CorePing, PingTimer
<1>5. CASE CtrlC
  BY <1>5 DEF CtrlC
<1>6. CASE Exit
  <2>1. CASE told' = "none"
    BY <2>1
  <2>2. CASE told' # "none"
    <3>1. file = "live" /\ ~ stale /\ drv = "registered"
      <4>1. ASSUME file = "dead" \/ stale \/ drv = "stopped" PROVE told' = "none"
        BY <1>6, <4>1 DEF Exit
      <4>2. wpc # "out"
        BY <1>6 DEF Exit
      <4> QED
        BY <2>2, <4>1, <4>2
    <3>2. /\ start <=> active
          /\ magic <=> sent \/ leftover
          /\ UNCHANGED <<nowayout, drv, leftover>>
      BY <1>6, <3>1 DEF Exit, Release
    <3>3. CASE told' = "stop"
      <4>1. sent \/ off
        BY <1>6, <3>1, <3>3 DEF Exit
      <4> QED
        BY <1>6, <3>1, <3>2, <3>3, <4>1 DEF Exit, Release, CoreStop, CorePing, StopTimer,
           PingTimer
    <3>4. CASE told' = "reset"
      <4>1. ~ sent /\ ~ off
        BY <1>6, <3>1, <3>4 DEF Exit
      <4> QED
        BY <1>6, <3>1, <3>2, <3>4, <4>1 DEF Exit, Release, CorePing, PingTimer
    <3> QED
      BY <1>6, <3>1, <3>3, <3>4 DEF Exit
  <2> QED
    BY <2>1, <2>2
<1>7. CASE Killed
  BY <1>7 DEF Killed, Release, CoreStop, CorePing, StopTimer, PingTimer
<1>8. CASE Driver
  BY <1>8 DEF Driver, SetUp, Register, CleanupStop, CleanupUnregister, Unload
<1>9. CASE Timer
  BY <1>9 DEF Timer, Tick
<1>10. CASE Expire \/ Shutdown
  BY <1>10 DEF Expire, Shutdown, Booted, Reboots
<1> QED
  BY <1>1, <1>2, <1>3, <1>4, <1>5, <1>6, <1>7, <1>8, <1>9, <1>10
     DEF Next

\* FIRED is read into bootstatus before it is lost.
LEMMA BootStep == TypeOK /\ FileInv /\ BootInv /\ Next => BootInv'
<1> SUFFICES ASSUME TypeOK /\ FileInv /\ BootInv, Next PROVE BootInv'
  OBVIOUS
<1> USE DEF TypeOK, FileInv, BootInv, Serving,
     wdt, registers, params, core, life, history, program, memory
<1>1. CASE Run
  BY <1>1 DEF Run, Open, CoreStart, StartTimer
<1>2. CASE Command
  BY <1>2 DEF Command, DisableCard, EnableCard, WriteMagic, SetTimeout, CoreStart, CoreStop,
              CorePing, StartTimer, StopTimer, PingTimer
<1>3. CASE PingArm \/ PingSet \/ PingWake
  BY <1>3 DEF PingArm, PingSet, PingWake
<1>4. CASE PingTest
  BY <1>4 DEF PingTest, CorePing, PingTimer
<1>5. CASE CtrlC
  BY <1>5 DEF CtrlC
<1>6. CASE Exit
  BY <1>6 DEF Exit, Release, CoreStop, CorePing, StopTimer, PingTimer
<1>7. CASE Killed
  BY <1>7 DEF Killed, Release, CoreStop, CorePing, StopTimer, PingTimer
<1>8. CASE Driver
  BY <1>8 DEF Driver, SetUp, Register, CleanupStop, CleanupUnregister, Unload
<1>9. CASE Timer
  BY <1>9 DEF Timer, Tick
<1>10. CASE Expire \/ Shutdown
  BY <1>10 DEF Expire, Shutdown, Booted, Reboots
<1> QED
  BY <1>1, <1>2, <1>3, <1>4, <1>5, <1>6, <1>7, <1>8, <1>9, <1>10
     DEF Next

\* The handler and the flag of the loop.
LEMMA LoopStep == TypeOK /\ LoopCanBeLeft /\ Next => LoopCanBeLeft'
<1> SUFFICES ASSUME TypeOK /\ LoopCanBeLeft, Next PROVE LoopCanBeLeft'
  OBVIOUS
<1> USE DEF TypeOK, LoopCanBeLeft,
     wdt, registers, params, core, life, history, program, memory
<1>1. CASE Run
  BY <1>1 DEF Run, Open, CoreStart, StartTimer
<1>2. CASE Command
  BY <1>2 DEF Command, DisableCard, EnableCard, WriteMagic, SetTimeout, CoreStart, CoreStop,
              CorePing, StartTimer, StopTimer, PingTimer
<1>3. CASE PingArm \/ PingSet \/ PingWake
  BY <1>3 DEF PingArm, PingSet, PingWake
<1>4. CASE PingTest
  BY <1>4 DEF PingTest, CorePing, PingTimer
<1>5. CASE CtrlC
  BY <1>5 DEF CtrlC
<1>6. CASE Exit
  BY <1>6 DEF Exit, Release, CoreStop, CorePing, StopTimer, PingTimer
<1>7. CASE Killed
  BY <1>7 DEF Killed, Release, CoreStop, CorePing, StopTimer, PingTimer
<1>8. CASE Driver
  BY <1>8 DEF Driver, SetUp, Register, CleanupStop, CleanupUnregister, Unload
<1>9. CASE Timer
  BY <1>9 DEF Timer, Tick
<1>10. CASE Expire \/ Shutdown
  BY <1>10 DEF Expire, Shutdown, Booted, Reboots
<1> QED
  BY <1>1, <1>2, <1>3, <1>4, <1>5, <1>6, <1>7, <1>8, <1>9, <1>10
     DEF Next

----------------------------------------------------------------------------
(* Together. *)

\* TypeOK is its two parts.
LEMMA TypeParts == TypeOK <=> FlagsOK /\ ValuesOK
BY DEF TypeOK, FlagsOK, TimerFlags, BootFlags, CoreFlags, ProgramFlags, ValuesOK

\* The invariant holds at the start.
LEMMA InitIInv == Init => IInv
<1> SUFFICES ASSUME Init PROVE IInv
  OBVIOUS
<1> USE DEF Init, WdtInit
<1>1. FlagsOK
  BY DEF FlagsOK, TimerFlags, BootFlags, CoreFlags, ProgramFlags
<1>2. ValuesOK
  BY WdtCoreAssumption DEF ValuesOK, Requests
<1>3. FileInv /\ AskedInv /\ ToldInv /\ LoopCanBeLeft
  BY DEF FileInv, AskedInv, ToldInv, LoopCanBeLeft, Serving
<1>4. TimerInv
  BY DEF TimerInv
<1>5. BootInv
  BY DEF BootInv
<1> QED
  BY <1>1, <1>2, <1>3, <1>4, <1>5, TypeParts DEF IInv

\* Every step keeps it.
LEMMA StepIInv == IInv /\ [Next]_vars => IInv'
<1> SUFFICES ASSUME IInv, [Next]_vars PROVE IInv'
  OBVIOUS
<1>1. TypeOK /\ FileInv /\ AskedInv /\ TimerInv /\ ToldInv /\ BootInv /\ LoopCanBeLeft
  BY DEF IInv
<1>2. CASE Next
  <2>1. TypeOK'
    BY <1>1, <1>2, TypeParts, FlagsStep, ValuesStep DEF TypeOK, FlagsOK, TimerFlags,
       BootFlags, CoreFlags, ProgramFlags, ValuesOK
  <2>2. FileInv' /\ AskedInv' /\ TimerInv'
    BY <1>1, <1>2, FileStep, AskedStep, TimerStep
  <2>3. ToldInv' /\ BootInv' /\ LoopCanBeLeft'
    BY <1>1, <1>2, ToldStep, BootStep, LoopStep
  <2> QED
    BY <2>1, <2>2, <2>3 DEF IInv
<1>3. CASE UNCHANGED vars
  <2> USE <1>1, <1>3 DEF vars, wdt, registers, params, core, life, history, program, memory
  <2>1. TypeOK'
    BY DEF TypeOK
  <2>2. FileInv' /\ AskedInv'
    BY DEF FileInv, AskedInv, Serving
  <2>3. TimerInv' /\ ToldInv'
    BY DEF TimerInv, ToldInv
  <2>4. BootInv' /\ LoopCanBeLeft'
    BY DEF BootInv, LoopCanBeLeft
  <2> QED
    BY <2>1, <2>2, <2>3, <2>4 DEF IInv
<1> QED
  BY <1>2, <1>3

\* The inductive invariant, for every width of COUNT and any number of probes.
THEOREM Invariance == Spec => []IInv
BY InitIInv, StepIInv, PTL DEF Spec

\* Types: the COUNT register holds a timeout from 1 to its largest value, whatever heartbeat the
\* module was loaded with and whatever timeouts are asked for.
THEOREM TypeCorrect == Spec => []TypeOK
<1>1. IInv => TypeOK
  BY DEF IInv
<1> QED
  BY Invariance, <1>1, PTL

\* While the device is registered the core's WDOG_ACTIVE and the timer agree, unless the device
\* was taken away before while it was active; without a device the timer runs only under
\* nowayout or after a late start; after an exit that was to stop it, it is stopped.
THEOREM CoreIsRight == Spec => []CoreKnowsTimer
<1>1. IInv => CoreKnowsTimer
  BY DEF IInv, TimerInv, ToldInv, CoreKnowsTimer
<1> QED
  BY Invariance, <1>1, PTL

\* The first probe of a boot on the Falcon reports a reset by the watchdog, and no other.
THEOREM ResetIsReported == Spec => []ResetReported
<1>1. IInv => ResetReported
  BY DEF IInv, BootInv, ResetReported
<1> QED
  BY Invariance, <1>1, PTL

\* A Ctrl+C ends the loop of ping, unless one came before ping was set.
THEOREM LoopEnds == Spec => []LoopCanBeLeft
<1>1. IInv => LoopCanBeLeft
  BY DEF IInv
<1> QED
  BY Invariance, <1>1, PTL

\* Once the program has said that the machine will be reset, the timer runs, unless an earlier
\* run's magic character was left when this one opened the device, and no step gives
\* it more time: each one takes it closer to zero, or starts the program again, takes the
\* device away or reboots.  This is what ExitResets needs besides the fairness of the timer.
ResetIsComing ==
  /\ [](told = "reset" /\ ~ leftover => start)
  /\ [][told = "reset" /\ told' = "reset" => left' < left]_vars

\* The step of it.
LEMMA OnlyTicks == IInv /\ [Next]_vars => [told = "reset" /\ told' = "reset" => left' < left]_vars
<1> SUFFICES ASSUME IInv, Next, told = "reset", told' = "reset" PROVE left' < left
  OBVIOUS
<1>1. wpc = "out" /\ drv = "registered" /\ left \in 0 .. MaxCount
  BY DEF IInv, TypeOK, FileInv, ToldInv
<1>2. Timer
  <2>1. ~ (Command \/ PingArm \/ PingSet \/ PingTest \/ PingWake \/ CtrlC \/ Exit \/ Killed)
    BY <1>1 DEF Command, PingArm, PingSet, PingTest, PingWake, CtrlC, Exit, Killed
  <2>2. ~ (Run \/ Driver \/ Expire \/ Shutdown)
    BY <1>1 DEF Run, Driver, Expire, Shutdown, Reboots
  <2> QED
    BY <2>1, <2>2 DEF Next
<1>3. left' = left - 1
  BY <1>2 DEF Timer, Tick
<1> QED
  BY <1>1, <1>3, WdtCoreAssumption

\* The safety half of the reset after an exit.
THEOREM ResetComes == Spec => ResetIsComing
<1>1. IInv => (told = "reset" /\ ~ leftover => start)
  BY DEF IInv, ToldInv
<1> QED
  BY Invariance, <1>1, OnlyTicks, PTL DEF Spec, ResetIsComing
=============================================================================
