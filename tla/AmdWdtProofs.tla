---------------------------- MODULE AmdWdtProofs ----------------------------
(***************************************************************************)
(* What holds of Steppe Eagle's watchdog driver for every set of           *)
(* processes and every width of the COUNT register.  No fairness is used.  *)
(***************************************************************************)
EXTENDS AmdWdt, FiniteSetTheorems, TLAPS

\* TypeOK in two parts, as the provers take them.
FlagsOK ==
  /\ start \in BOOLEAN /\ fired \in BOOLEAN /\ due \in BOOLEAN
  /\ bootstatus \in BOOLEAN /\ nowayout \in BOOLEAN
  /\ early \in BOOLEAN /\ overlapped \in BOOLEAN /\ wasReset \in BOOLEAN /\ crashed \in BOOLEAN

ValuesOK ==
  /\ count \in 0 .. MaxCount /\ heartbeat \in 0 .. MaxCount + 1
  /\ status \in SUBSET Bits
  /\ drv \in {"out", "setup", "checked", "registered", "in", "stopped", "deregistered"}
  /\ how \in {"none", "rmmod", "unbind"}
  /\ file \in [Procs -> Procs \cup {NoFile}]
  /\ pc \in [Procs -> Steps]
  /\ arg \in [Procs -> 0 .. MaxCount]

Opening(p) == pc[p] \in {"openActivate", "openPing"}
Closing(p) == pc[p] \in {"release", "releaseStop", "releasePing", "releaseClear"}
Unused == \A p \in Procs : Idle(p) /\ file[p] = NoFile

\* Who may be inside: nobody before the device can be opened, ...
NobodyYet ==
  \/ drv \in {"setup", "checked"}
  \/ drv = "out" /\ how # "unbind"
  \/ drv = "registered" /\ ~early
  => Unused /\ status = {}

\* ... and nobody once rmmod has begun, which then leaves a stopped timer behind.
NobodyAnyMore ==
  drv \in {"stopped", "deregistered"} => how # "none" /\ (how = "rmmod" => Unused)

StoppedForGood ==
  drv \in {"stopped", "deregistered", "out"} /\ how = "rmmod" /\ ~nowayout => ~start

LifeInv ==
  NobodyYet /\ NobodyAnyMore /\ StoppedForGood /\ CrashOnlyAfterUnbind /\ ActiveMeansRunning

\* A process in a file operation has its file, and one that opens has none yet.
PlaceInv ==
  \A p \in Procs : IF Idle(p) THEN TRUE
                   ELSE IF Opening(p) THEN file[p] = NoFile ELSE file[p] # NoFile

\* DEV_OPEN stands for one file: that of an open on its way, or one that is shared, and closed
\* only by the last who has it.
OwnerInv ==
  ~early =>
    \A p \in Procs :
      /\ Opening(p) \/ file[p] # NoFile => "DEV_OPEN" \in status
      /\ Opening(p) => \A q \in Procs \ {p} : file[q] = NoFile /\ ~Opening(q)
      /\ file[p] # NoFile => \A q \in Procs : file[q] \in {NoFile, file[p]}
      /\ Closing(p) => \A q \in Procs \ {p} : file[q] = NoFile
      /\ Closing(p) /\ pc[p] # "release" => "ALLOW_RELEASE" \notin status

\* With nowayout no process is on a way that ends in a stopped timer.
NoWayOutInv ==
  nowayout => /\ "ALLOW_RELEASE" \notin status
              /\ \A p \in Procs : pc[p] \notin {"scan", "releaseStop"}

\* What the one process in SETTIMEOUT has done so far.
CountInv ==
  ~overlapped =>
    /\ \A p, q \in Procs : InSetTimeout(p) /\ InSetTimeout(q) => p = q
    /\ \A p \in Procs : pc[p] = "setHeartbeat" /\ Mapped => count = arg[p]
    /\ drv \in {"checked", "registered", "in"} /\ (\A p \in Procs : ~InSetTimeout(p))
         => heartbeat = count

IInv ==
  /\ TypeOK /\ LifeInv /\ PlaceInv /\ OwnerInv /\ MagicNeedsOpenFile /\ NoWayOutInv /\ CountInv
----------------------------------------------------------------------------
(* Steps.  There is one step of a proof for each group of actions. *)

\* A count that is asked for is brought into the range of the register.
LEMMA ClampInRange == \A t \in Requests : Clamp(t) \in 0 .. MaxCount
BY AmdWdtAssumption DEF Requests, Clamp, InRange

\* The flags stay flags.
LEMMA FlagsStep == FlagsOK /\ Next => FlagsOK'
<1> SUFFICES ASSUME FlagsOK, Next PROVE FlagsOK'
  OBVIOUS
<1> USE AmdWdtAssumption DEF FlagsOK, hwVars, staticVars, drvVars, procVars, histVars, GoTo, Idle
<1>1. ASSUME NEW p \in Procs, Open(p) PROVE FlagsOK'
  BY <1>1, Zenon DEF Open
<1>2. ASSUME NEW p \in Procs, Close(p) PROVE FlagsOK'
  BY <1>2, Zenon DEF Close
<1>3. ASSUME NEW p \in Procs, Write(p) PROVE FlagsOK'
  BY <1>3, Zenon DEF Write
<1>4. ASSUME NEW p \in Procs, IoctlKeepalive(p) \/ IoctlSetOptions(p) PROVE FlagsOK'
  BY <1>4, Zenon DEF IoctlKeepalive, IoctlSetOptions
<1>5. ASSUME NEW p \in Procs, IoctlSetTimeout(p) PROVE FlagsOK'
  BY <1>5, Zenon DEF IoctlSetTimeout
<1>6. ASSUME NEW p \in Procs, NEW q \in Procs, Share(p, q) PROVE FlagsOK'
  BY <1>6, Zenon DEF Share
<1>7. ASSUME NEW p \in Procs, OpenActivate(p) PROVE FlagsOK'
  BY <1>7, Zenon DEF OpenActivate, UseRegisters, Activate
<1>8. ASSUME NEW p \in Procs, OpenPing(p) PROVE FlagsOK'
  BY <1>8, Zenon DEF OpenPing, UseRegisters, Keepalive
<1>9. ASSUME NEW p \in Procs, Release(p) \/ ReleaseTimer(p) \/ ReleaseClear(p) PROVE FlagsOK'
  BY <1>9, Zenon DEF Release, ReleaseTimer, ReleaseClear, UseRegisters, Keepalive, Deactivate
<1>10. ASSUME NEW p \in Procs, WriteScan(p) \/ Ping(p) PROVE FlagsOK'
  BY <1>10, Zenon DEF WriteScan, Ping, UseRegisters, Keepalive
<1>11. ASSUME NEW p \in Procs, OptionDisable(p) \/ OptionEnable(p) PROVE FlagsOK'
  BY <1>11, Zenon DEF OptionDisable, OptionEnable, UseRegisters, Activate, Deactivate
<1>12. ASSUME NEW p \in Procs, SetCount(p) \/ SetHeartbeat(p) PROVE FlagsOK'
  BY <1>12, Zenon DEF SetCount, SetHeartbeat, UseRegisters, WriteCount
<1>13. CASE LoadSetup
  BY <1>13, Zenon DEF LoadSetup
<1>14. CASE LoadCheck
  BY <1>14, Zenon DEF LoadCheck
<1>15. CASE LoadRegister \/ LoadFinish
  BY <1>15, Zenon DEF LoadRegister, LoadFinish
<1>16. CASE Remove
  BY <1>16, Zenon DEF Remove, CanRemove, Deactivate
<1>17. CASE Deregister
  BY <1>17, Zenon DEF Deregister
<1>18. CASE Unmap \/ RemoveUnbound
  BY <1>18, Zenon DEF Unmap, RemoveUnbound, CanRemove, ModuleGone
<1>19. CASE Tick
  BY <1>19, Zenon DEF Tick
<1>20. CASE Shutdown \/ Expire
  BY <1>20, Zenon DEF Shutdown, Expire, Booted
<1> QED
  BY <1>1, <1>2, <1>3, <1>4, <1>5, <1>6, <1>7, <1>8, <1>9, <1>10,
     <1>11, <1>12, <1>13, <1>14, <1>15, <1>16, <1>17, <1>18, <1>19, <1>20
     DEF Next, FileStart, FileStep, DriverStep

\* The other variables keep their types.
LEMMA ValuesStep == ValuesOK /\ Next => ValuesOK'
<1> SUFFICES ASSUME ValuesOK, Next PROVE ValuesOK'
  OBVIOUS
<1> USE AmdWdtAssumption, ClampInRange DEF ValuesOK, Steps, Bits, Requests, hwVars, staticVars,
     drvVars, procVars, histVars, GoTo, Idle
<1>1. ASSUME NEW p \in Procs, Open(p) PROVE ValuesOK'
  BY <1>1 DEF Open
<1>2. ASSUME NEW p \in Procs, Close(p) PROVE ValuesOK'
  BY <1>2 DEF Close
<1>3. ASSUME NEW p \in Procs, Write(p) PROVE ValuesOK'
  BY <1>3 DEF Write
<1>4. ASSUME NEW p \in Procs, IoctlKeepalive(p) \/ IoctlSetOptions(p) PROVE ValuesOK'
  BY <1>4 DEF IoctlKeepalive, IoctlSetOptions
<1>5. ASSUME NEW p \in Procs, IoctlSetTimeout(p) PROVE ValuesOK'
  BY <1>5 DEF IoctlSetTimeout
<1>6. ASSUME NEW p \in Procs, NEW q \in Procs, Share(p, q) PROVE ValuesOK'
  BY <1>6 DEF Share
<1>7. ASSUME NEW p \in Procs, OpenActivate(p) PROVE ValuesOK'
  BY <1>7 DEF OpenActivate, UseRegisters, Activate
<1>8. ASSUME NEW p \in Procs, OpenPing(p) PROVE ValuesOK'
  BY <1>8 DEF OpenPing, UseRegisters, Keepalive
<1>9. ASSUME NEW p \in Procs, Release(p) \/ ReleaseTimer(p) \/ ReleaseClear(p) PROVE ValuesOK'
  BY <1>9 DEF Release, ReleaseTimer, ReleaseClear, UseRegisters, Keepalive, Deactivate
<1>10. ASSUME NEW p \in Procs, WriteScan(p) \/ Ping(p) PROVE ValuesOK'
  BY <1>10 DEF WriteScan, Ping, UseRegisters, Keepalive
<1>11. ASSUME NEW p \in Procs, OptionDisable(p) \/ OptionEnable(p) PROVE ValuesOK'
  BY <1>11 DEF OptionDisable, OptionEnable, UseRegisters, Activate, Deactivate
<1>12. ASSUME NEW p \in Procs, SetCount(p) \/ SetHeartbeat(p) PROVE ValuesOK'
  <2>1. arg[p] \in 0 .. MaxCount /\ 0 \in 0 .. MaxCount
    OBVIOUS
  <2>2. CASE SetCount(p)
    BY <1>12, <2>1, <2>2 DEF SetCount, UseRegisters, WriteCount
  <2>3. CASE SetHeartbeat(p)
    BY <1>12, <2>1, <2>3 DEF SetHeartbeat
  <2> QED
    BY <1>12, <2>2, <2>3
<1>13. CASE LoadSetup
  BY <1>13 DEF LoadSetup
<1>14. CASE LoadCheck
  BY <1>14 DEF LoadCheck
<1>15. CASE LoadRegister \/ LoadFinish
  BY <1>15 DEF LoadRegister, LoadFinish
<1>16. CASE Remove
  BY <1>16 DEF Remove, CanRemove, Deactivate
<1>17. CASE Deregister
  BY <1>17 DEF Deregister
<1>18. CASE Unmap \/ RemoveUnbound
  <2>1. CASE Unmap
    <3>1. heartbeat' \in 0 .. MaxCount + 1 /\ status' \in SUBSET Bits
      <4>1. CASE how = "rmmod"
        BY <2>1, <4>1 DEF Unmap, ModuleGone
      <4>2. CASE how # "rmmod"
        BY <2>1, <4>2 DEF Unmap
      <4> QED
        BY <4>1, <4>2
    <3> QED
      BY <2>1, <3>1 DEF Unmap
  <2>2. CASE RemoveUnbound
    BY <1>18, <2>2 DEF RemoveUnbound, ModuleGone
  <2> QED
    BY <1>18, <2>1, <2>2
<1>19. CASE Tick
  BY <1>19 DEF Tick
<1>20. CASE Shutdown \/ Expire
  BY <1>20 DEF Shutdown, Expire, Booted
<1> QED
  BY <1>1, <1>2, <1>3, <1>4, <1>5, <1>6, <1>7, <1>8, <1>9, <1>10,
     <1>11, <1>12, <1>13, <1>14, <1>15, <1>16, <1>17, <1>18, <1>19, <1>20
     DEF Next, FileStart, FileStep, DriverStep

\* A file comes with the end of open and goes with the end of release.
LEMMA PlaceStep == TypeOK /\ PlaceInv /\ Next => PlaceInv'
<1> SUFFICES ASSUME TypeOK /\ PlaceInv, Next PROVE PlaceInv'
  OBVIOUS
<1> USE AmdWdtAssumption, ClampInRange DEF TypeOK, Steps, Bits, hwVars, staticVars, drvVars,
     procVars, histVars, GoTo, Idle, PlaceInv, Opening
<1>1. ASSUME NEW p \in Procs, Open(p) PROVE PlaceInv'
  BY <1>1 DEF Open
<1>2. ASSUME NEW p \in Procs, Close(p) PROVE PlaceInv'
  BY <1>2 DEF Close
<1>3. ASSUME NEW p \in Procs, Write(p) PROVE PlaceInv'
  BY <1>3 DEF Write
<1>4. ASSUME NEW p \in Procs, IoctlKeepalive(p) \/ IoctlSetOptions(p) PROVE PlaceInv'
  BY <1>4 DEF IoctlKeepalive, IoctlSetOptions
<1>5. ASSUME NEW p \in Procs, IoctlSetTimeout(p) PROVE PlaceInv'
  BY <1>5 DEF IoctlSetTimeout
<1>6. ASSUME NEW p \in Procs, NEW q \in Procs, Share(p, q) PROVE PlaceInv'
  BY <1>6 DEF Share
<1>7. ASSUME NEW p \in Procs, OpenActivate(p) PROVE PlaceInv'
  BY <1>7 DEF OpenActivate, UseRegisters, Activate
<1>8. ASSUME NEW p \in Procs, OpenPing(p) PROVE PlaceInv'
  BY <1>8 DEF OpenPing, UseRegisters, Keepalive
<1>9. ASSUME NEW p \in Procs, Release(p) \/ ReleaseTimer(p) \/ ReleaseClear(p) PROVE PlaceInv'
  BY <1>9 DEF Release, ReleaseTimer, ReleaseClear, UseRegisters, Keepalive, Deactivate
<1>10. ASSUME NEW p \in Procs, WriteScan(p) \/ Ping(p) PROVE PlaceInv'
  BY <1>10 DEF WriteScan, Ping, UseRegisters, Keepalive
<1>11. ASSUME NEW p \in Procs, OptionDisable(p) \/ OptionEnable(p) PROVE PlaceInv'
  BY <1>11 DEF OptionDisable, OptionEnable, UseRegisters, Activate, Deactivate
<1>12. ASSUME NEW p \in Procs, SetCount(p) \/ SetHeartbeat(p) PROVE PlaceInv'
  BY <1>12 DEF SetCount, SetHeartbeat, UseRegisters, WriteCount
<1>13. CASE LoadSetup
  BY <1>13 DEF LoadSetup
<1>14. CASE LoadCheck
  BY <1>14 DEF LoadCheck
<1>15. CASE LoadRegister \/ LoadFinish
  BY <1>15 DEF LoadRegister, LoadFinish
<1>16. CASE Remove
  BY <1>16 DEF Remove, CanRemove, Deactivate
<1>17. CASE Deregister
  BY <1>17 DEF Deregister
<1>18. CASE Unmap \/ RemoveUnbound
  BY <1>18 DEF Unmap, RemoveUnbound, CanRemove, ModuleGone
<1>19. CASE Tick
  BY <1>19 DEF Tick
<1>20. CASE Shutdown \/ Expire
  BY <1>20 DEF Shutdown, Expire, Booted
<1> QED
  BY <1>1, <1>2, <1>3, <1>4, <1>5, <1>6, <1>7, <1>8, <1>9, <1>10,
     <1>11, <1>12, <1>13, <1>14, <1>15, <1>16, <1>17, <1>18, <1>19, <1>20
     DEF Next, FileStart, FileStep, DriverStep

\* Nobody gets in before the registration is done or after rmmod has begun.
LEMMA LifeStep == ~crashed /\ TypeOK /\ LifeInv /\ Next => LifeInv'
<1> SUFFICES ASSUME ~crashed /\ TypeOK /\ LifeInv, Next PROVE LifeInv'
  OBVIOUS
<1> USE AmdWdtAssumption DEF TypeOK, Steps, Bits, hwVars, staticVars, drvVars, procVars,
     histVars, GoTo, Idle, LifeInv, NobodyYet, NobodyAnyMore, StoppedForGood, Unused, Openable,
     Mapped, CrashOnlyAfterUnbind, ActiveMeansRunning
<1>1. ASSUME NEW p \in Procs, Open(p) PROVE LifeInv'
  BY <1>1 DEF Open
<1>2. ASSUME NEW p \in Procs, Close(p) PROVE LifeInv'
  BY <1>2 DEF Close
<1>3. ASSUME NEW p \in Procs, Write(p) PROVE LifeInv'
  BY <1>3 DEF Write
<1>4. ASSUME NEW p \in Procs, IoctlKeepalive(p) \/ IoctlSetOptions(p) PROVE LifeInv'
  BY <1>4 DEF IoctlKeepalive, IoctlSetOptions
<1>5. ASSUME NEW p \in Procs, IoctlSetTimeout(p) PROVE LifeInv'
  BY <1>5 DEF IoctlSetTimeout
<1>6. ASSUME NEW p \in Procs, NEW q \in Procs, Share(p, q) PROVE LifeInv'
  BY <1>6 DEF Share
<1>7. ASSUME NEW p \in Procs, OpenActivate(p) PROVE LifeInv'
  BY <1>7 DEF OpenActivate, UseRegisters, Activate
<1>8. ASSUME NEW p \in Procs, OpenPing(p) PROVE LifeInv'
  BY <1>8 DEF OpenPing, UseRegisters, Keepalive
<1>9. ASSUME NEW p \in Procs, Release(p) \/ ReleaseTimer(p) \/ ReleaseClear(p) PROVE LifeInv'
  BY <1>9 DEF Release, ReleaseTimer, ReleaseClear, UseRegisters, Keepalive, Deactivate
<1>10. ASSUME NEW p \in Procs, WriteScan(p) \/ Ping(p) PROVE LifeInv'
  BY <1>10 DEF WriteScan, Ping, UseRegisters, Keepalive
<1>11. ASSUME NEW p \in Procs, OptionDisable(p) \/ OptionEnable(p) PROVE LifeInv'
  BY <1>11 DEF OptionDisable, OptionEnable, UseRegisters, Activate, Deactivate
<1>12. ASSUME NEW p \in Procs, SetCount(p) \/ SetHeartbeat(p) PROVE LifeInv'
  BY <1>12 DEF SetCount, SetHeartbeat, UseRegisters, WriteCount
<1>13. CASE LoadSetup
  BY <1>13 DEF LoadSetup
<1>14. CASE LoadCheck
  BY <1>14 DEF LoadCheck
<1>15. CASE LoadRegister \/ LoadFinish
  <2>1. CASE LoadRegister
    <3>1. NobodyYet'
      BY <2>1 DEF LoadRegister
    <3>2. NobodyAnyMore'
      BY <2>1 DEF LoadRegister
    <3>3. StoppedForGood'
      BY <2>1 DEF LoadRegister
    <3>4. CrashOnlyAfterUnbind'
      BY <2>1 DEF LoadRegister
    <3>5. ActiveMeansRunning'
      BY <2>1, Zenon DEF LoadRegister
    <3> QED
      BY <3>1, <3>2, <3>3, <3>4, <3>5
  <2>2. CASE LoadFinish
    <3>1. NobodyYet'
      BY <2>2 DEF LoadFinish
    <3>2. NobodyAnyMore'
      BY <2>2 DEF LoadFinish
    <3>3. StoppedForGood'
      BY <2>2 DEF LoadFinish
    <3>4. CrashOnlyAfterUnbind'
      BY <2>2 DEF LoadFinish
    <3>5. ActiveMeansRunning'
      BY <2>2, Zenon DEF LoadFinish
    <3> QED
      BY <3>1, <3>2, <3>3, <3>4, <3>5
  <2> QED
    BY <1>15, <2>1, <2>2
<1>16. CASE Remove
  <2>1. NobodyYet'
    BY <1>16 DEF Remove, CanRemove, Deactivate
  <2>2. NobodyAnyMore'
    BY <1>16 DEF Remove, CanRemove, Deactivate
  <2>3. StoppedForGood'
    BY <1>16 DEF Remove, CanRemove, Deactivate
  <2>4. CrashOnlyAfterUnbind'
    BY <1>16 DEF Remove, CanRemove, Deactivate
  <2>5. ActiveMeansRunning'
    BY <1>16, Zenon DEF Remove, CanRemove, Deactivate
  <2> QED
    BY <2>1, <2>2, <2>3, <2>4, <2>5
<1>17. CASE Deregister
  BY <1>17 DEF Deregister
<1>18. CASE Unmap \/ RemoveUnbound
  <2>1. CASE Unmap
    <3>1. NobodyYet'
      BY <2>1 DEF Unmap, ModuleGone
    <3>2. NobodyAnyMore'
      BY <2>1 DEF Unmap, ModuleGone
    <3>3. StoppedForGood'
      BY <2>1 DEF Unmap, ModuleGone
    <3>4. CrashOnlyAfterUnbind'
      BY <2>1 DEF Unmap, ModuleGone
    <3>5. ActiveMeansRunning'
      BY <2>1, Zenon DEF Unmap, ModuleGone
    <3> QED
      BY <3>1, <3>2, <3>3, <3>4, <3>5
  <2>2. CASE RemoveUnbound
    <3>1. NobodyYet'
      BY <2>2 DEF RemoveUnbound, CanRemove, ModuleGone
    <3>2. NobodyAnyMore'
      BY <2>2 DEF RemoveUnbound, CanRemove, ModuleGone
    <3>3. StoppedForGood'
      BY <2>2 DEF RemoveUnbound, CanRemove, ModuleGone
    <3>4. CrashOnlyAfterUnbind'
      BY <2>2 DEF RemoveUnbound, CanRemove, ModuleGone
    <3>5. ActiveMeansRunning'
      BY <2>2, Zenon DEF RemoveUnbound, CanRemove, ModuleGone
    <3> QED
      BY <3>1, <3>2, <3>3, <3>4, <3>5
  <2> QED
    BY <1>18, <2>1, <2>2
<1>19. CASE Tick
  BY <1>19 DEF Tick
<1>20. CASE Shutdown \/ Expire
  <2>1. CASE Shutdown
    <3>1. NobodyYet'
      BY <2>1 DEF Shutdown, Booted
    <3>2. NobodyAnyMore'
      BY <2>1 DEF Shutdown, Booted
    <3>3. StoppedForGood'
      BY <2>1 DEF Shutdown, Booted
    <3>4. CrashOnlyAfterUnbind'
      BY <2>1 DEF Shutdown, Booted
    <3>5. ActiveMeansRunning'
      BY <2>1, Zenon DEF Shutdown, Booted
    <3> QED
      BY <3>1, <3>2, <3>3, <3>4, <3>5
  <2>2. CASE Expire
    <3>1. NobodyYet'
      BY <2>2 DEF Expire, Booted
    <3>2. NobodyAnyMore'
      BY <2>2 DEF Expire, Booted
    <3>3. StoppedForGood'
      BY <2>2 DEF Expire, Booted
    <3>4. CrashOnlyAfterUnbind'
      BY <2>2 DEF Expire, Booted
    <3>5. ActiveMeansRunning'
      BY <2>2, Zenon DEF Expire, Booted
    <3> QED
      BY <3>1, <3>2, <3>3, <3>4, <3>5
  <2> QED
    BY <1>20, <2>1, <2>2
<1> QED
  BY <1>1, <1>2, <1>3, <1>4, <1>5, <1>6, <1>7, <1>8, <1>9, <1>10,
     <1>11, <1>12, <1>13, <1>14, <1>15, <1>16, <1>17, <1>18, <1>19, <1>20
     DEF Next, FileStart, FileStep, DriverStep

\* test_and_set_bit lets one file in at a time, and the last close ends it.
LEMMA OwnerStep == TypeOK /\ LifeInv /\ PlaceInv /\ OwnerInv /\ Next => OwnerInv'
<1> SUFFICES ASSUME TypeOK /\ LifeInv /\ PlaceInv /\ OwnerInv, Next PROVE OwnerInv'
  OBVIOUS
<1> USE AmdWdtAssumption DEF TypeOK, Steps, Bits, hwVars, staticVars, drvVars, procVars,
     histVars, GoTo, Idle, LifeInv, NobodyYet, NobodyAnyMore, StoppedForGood, Unused, PlaceInv,
     OwnerInv, Opening, Closing, OpenFiles
<1>1. ASSUME NEW p \in Procs, Open(p) PROVE OwnerInv'
  BY <1>1 DEF Open
<1>2. ASSUME NEW p \in Procs, Close(p) PROVE OwnerInv'
  BY <1>2 DEF Close
<1>3. ASSUME NEW p \in Procs, Write(p) PROVE OwnerInv'
  BY <1>3 DEF Write
<1>4. ASSUME NEW p \in Procs, IoctlKeepalive(p) \/ IoctlSetOptions(p) PROVE OwnerInv'
  BY <1>4 DEF IoctlKeepalive, IoctlSetOptions
<1>5. ASSUME NEW p \in Procs, IoctlSetTimeout(p) PROVE OwnerInv'
  BY <1>5 DEF IoctlSetTimeout
<1>6. ASSUME NEW p \in Procs, NEW q \in Procs, Share(p, q) PROVE OwnerInv'
  BY <1>6 DEF Share
<1>7. ASSUME NEW p \in Procs, OpenActivate(p) PROVE OwnerInv'
  BY <1>7 DEF OpenActivate, UseRegisters, Activate
<1>8. ASSUME NEW p \in Procs, OpenPing(p) PROVE OwnerInv'
  BY <1>8 DEF OpenPing, UseRegisters, Keepalive
<1>9. ASSUME NEW p \in Procs, Release(p) \/ ReleaseTimer(p) \/ ReleaseClear(p) PROVE OwnerInv'
  BY <1>9 DEF Release, ReleaseTimer, ReleaseClear, UseRegisters, Keepalive, Deactivate
<1>10. ASSUME NEW p \in Procs, WriteScan(p) \/ Ping(p) PROVE OwnerInv'
  BY <1>10 DEF WriteScan, Ping, UseRegisters, Keepalive
<1>11. ASSUME NEW p \in Procs, OptionDisable(p) \/ OptionEnable(p) PROVE OwnerInv'
  BY <1>11 DEF OptionDisable, OptionEnable, UseRegisters, Activate, Deactivate
<1>12. ASSUME NEW p \in Procs, SetCount(p) \/ SetHeartbeat(p) PROVE OwnerInv'
  BY <1>12 DEF SetCount, SetHeartbeat, UseRegisters, WriteCount
<1>13. CASE LoadSetup
  BY <1>13 DEF LoadSetup
<1>14. CASE LoadCheck
  BY <1>14 DEF LoadCheck
<1>15. CASE LoadRegister \/ LoadFinish
  BY <1>15 DEF LoadRegister, LoadFinish
<1>16. CASE Remove
  BY <1>16 DEF Remove, CanRemove, Deactivate
<1>17. CASE Deregister
  BY <1>17 DEF Deregister
<1>18. CASE Unmap \/ RemoveUnbound
  BY <1>18 DEF Unmap, RemoveUnbound, CanRemove, ModuleGone
<1>19. CASE Tick
  BY <1>19 DEF Tick
<1>20. CASE Shutdown \/ Expire
  BY <1>20 DEF Shutdown, Expire, Booted
<1> QED
  BY <1>1, <1>2, <1>3, <1>4, <1>5, <1>6, <1>7, <1>8, <1>9, <1>10,
     <1>11, <1>12, <1>13, <1>14, <1>15, <1>16, <1>17, <1>18, <1>19, <1>20
     DEF Next, FileStart, FileStep, DriverStep

\* The magic character goes before DEV_OPEN does.
LEMMA MagicStep ==
  TypeOK /\ LifeInv /\ PlaceInv /\ OwnerInv /\ MagicNeedsOpenFile /\ Next
  => MagicNeedsOpenFile'
<1> SUFFICES ASSUME TypeOK /\ LifeInv /\ PlaceInv /\ OwnerInv /\ MagicNeedsOpenFile, Next
    PROVE MagicNeedsOpenFile'
  OBVIOUS
<1> USE AmdWdtAssumption DEF TypeOK, Steps, Bits, hwVars, staticVars, drvVars, procVars,
     histVars, GoTo, Idle, LifeInv, NobodyYet, NobodyAnyMore, StoppedForGood, Unused, PlaceInv,
     OwnerInv, Opening, Closing, MagicNeedsOpenFile
<1>1. ASSUME NEW p \in Procs, Open(p) PROVE MagicNeedsOpenFile'
  BY <1>1 DEF Open
<1>2. ASSUME NEW p \in Procs, Close(p) PROVE MagicNeedsOpenFile'
  BY <1>2 DEF Close
<1>3. ASSUME NEW p \in Procs, Write(p) PROVE MagicNeedsOpenFile'
  BY <1>3 DEF Write
<1>4. ASSUME NEW p \in Procs, IoctlKeepalive(p) \/ IoctlSetOptions(p) PROVE MagicNeedsOpenFile'
  BY <1>4 DEF IoctlKeepalive, IoctlSetOptions
<1>5. ASSUME NEW p \in Procs, IoctlSetTimeout(p) PROVE MagicNeedsOpenFile'
  BY <1>5 DEF IoctlSetTimeout
<1>6. ASSUME NEW p \in Procs, NEW q \in Procs, Share(p, q) PROVE MagicNeedsOpenFile'
  BY <1>6 DEF Share
<1>7. ASSUME NEW p \in Procs, OpenActivate(p) PROVE MagicNeedsOpenFile'
  BY <1>7 DEF OpenActivate, UseRegisters, Activate
<1>8. ASSUME NEW p \in Procs, OpenPing(p) PROVE MagicNeedsOpenFile'
  BY <1>8 DEF OpenPing, UseRegisters, Keepalive
<1>9. ASSUME NEW p \in Procs, Release(p) \/ ReleaseTimer(p) \/ ReleaseClear(p)
      PROVE MagicNeedsOpenFile'
  BY <1>9 DEF Release, ReleaseTimer, ReleaseClear, UseRegisters, Keepalive, Deactivate
<1>10. ASSUME NEW p \in Procs, WriteScan(p) \/ Ping(p) PROVE MagicNeedsOpenFile'
  BY <1>10 DEF WriteScan, Ping, UseRegisters, Keepalive
<1>11. ASSUME NEW p \in Procs, OptionDisable(p) \/ OptionEnable(p) PROVE MagicNeedsOpenFile'
  BY <1>11 DEF OptionDisable, OptionEnable, UseRegisters, Activate, Deactivate
<1>12. ASSUME NEW p \in Procs, SetCount(p) \/ SetHeartbeat(p) PROVE MagicNeedsOpenFile'
  BY <1>12 DEF SetCount, SetHeartbeat, UseRegisters, WriteCount
<1>13. CASE LoadSetup
  BY <1>13 DEF LoadSetup
<1>14. CASE LoadCheck
  BY <1>14 DEF LoadCheck
<1>15. CASE LoadRegister \/ LoadFinish
  BY <1>15 DEF LoadRegister, LoadFinish
<1>16. CASE Remove
  BY <1>16 DEF Remove, CanRemove, Deactivate
<1>17. CASE Deregister
  BY <1>17 DEF Deregister
<1>18. CASE Unmap \/ RemoveUnbound
  BY <1>18 DEF Unmap, RemoveUnbound, CanRemove, ModuleGone
<1>19. CASE Tick
  BY <1>19 DEF Tick
<1>20. CASE Shutdown \/ Expire
  BY <1>20 DEF Shutdown, Expire, Booted
<1> QED
  BY <1>1, <1>2, <1>3, <1>4, <1>5, <1>6, <1>7, <1>8, <1>9, <1>10,
     <1>11, <1>12, <1>13, <1>14, <1>15, <1>16, <1>17, <1>18, <1>19, <1>20
     DEF Next, FileStart, FileStep, DriverStep

\* The parameter changes only while nobody is inside, and keeps the magic character out.
LEMMA NoWayOutStep == TypeOK /\ LifeInv /\ NoWayOutInv /\ Next => NoWayOutInv'
<1> SUFFICES ASSUME TypeOK /\ LifeInv /\ NoWayOutInv, Next PROVE NoWayOutInv'
  OBVIOUS
<1> USE AmdWdtAssumption DEF TypeOK, Steps, Bits, hwVars, staticVars, drvVars, procVars,
     histVars, GoTo, Idle, LifeInv, NobodyYet, NobodyAnyMore, StoppedForGood, Unused, NoWayOutInv
<1>1. ASSUME NEW p \in Procs, Open(p) PROVE NoWayOutInv'
  BY <1>1 DEF Open
<1>2. ASSUME NEW p \in Procs, Close(p) PROVE NoWayOutInv'
  BY <1>2 DEF Close
<1>3. ASSUME NEW p \in Procs, Write(p) PROVE NoWayOutInv'
  BY <1>3 DEF Write
<1>4. ASSUME NEW p \in Procs, IoctlKeepalive(p) \/ IoctlSetOptions(p) PROVE NoWayOutInv'
  BY <1>4 DEF IoctlKeepalive, IoctlSetOptions
<1>5. ASSUME NEW p \in Procs, IoctlSetTimeout(p) PROVE NoWayOutInv'
  BY <1>5 DEF IoctlSetTimeout
<1>6. ASSUME NEW p \in Procs, NEW q \in Procs, Share(p, q) PROVE NoWayOutInv'
  BY <1>6 DEF Share
<1>7. ASSUME NEW p \in Procs, OpenActivate(p) PROVE NoWayOutInv'
  BY <1>7 DEF OpenActivate, UseRegisters, Activate
<1>8. ASSUME NEW p \in Procs, OpenPing(p) PROVE NoWayOutInv'
  BY <1>8 DEF OpenPing, UseRegisters, Keepalive
<1>9. ASSUME NEW p \in Procs, Release(p) \/ ReleaseTimer(p) \/ ReleaseClear(p) PROVE NoWayOutInv'
  BY <1>9 DEF Release, ReleaseTimer, ReleaseClear, UseRegisters, Keepalive, Deactivate
<1>10. ASSUME NEW p \in Procs, WriteScan(p) \/ Ping(p) PROVE NoWayOutInv'
  BY <1>10 DEF WriteScan, Ping, UseRegisters, Keepalive
<1>11. ASSUME NEW p \in Procs, OptionDisable(p) \/ OptionEnable(p) PROVE NoWayOutInv'
  BY <1>11 DEF OptionDisable, OptionEnable, UseRegisters, Activate, Deactivate
<1>12. ASSUME NEW p \in Procs, SetCount(p) \/ SetHeartbeat(p) PROVE NoWayOutInv'
  BY <1>12 DEF SetCount, SetHeartbeat, UseRegisters, WriteCount
<1>13. CASE LoadSetup
  BY <1>13 DEF LoadSetup
<1>14. CASE LoadCheck
  BY <1>14 DEF LoadCheck
<1>15. CASE LoadRegister \/ LoadFinish
  <2>1. CASE LoadRegister
    BY <1>15, <2>1 DEF LoadRegister
  <2>2. CASE LoadFinish
    BY <1>15, <2>2 DEF LoadFinish
  <2> QED
    BY <1>15, <2>1, <2>2
<1>16. CASE Remove
  BY <1>16 DEF Remove, CanRemove, Deactivate
<1>17. CASE Deregister
  BY <1>17 DEF Deregister
<1>18. CASE Unmap \/ RemoveUnbound
  BY <1>18 DEF Unmap, RemoveUnbound, CanRemove, ModuleGone
<1>19. CASE Tick
  BY <1>19 DEF Tick
<1>20. CASE Shutdown \/ Expire
  BY <1>20 DEF Shutdown, Expire, Booted
<1> QED
  BY <1>1, <1>2, <1>3, <1>4, <1>5, <1>6, <1>7, <1>8, <1>9, <1>10,
     <1>11, <1>12, <1>13, <1>14, <1>15, <1>16, <1>17, <1>18, <1>19, <1>20
     DEF Next, FileStart, FileStep, DriverStep

\* heartbeat and COUNT agree when SETTIMEOUT is over.
LEMMA CountStep == TypeOK /\ LifeInv /\ CountInv /\ Next => CountInv'
<1> SUFFICES ASSUME TypeOK /\ LifeInv /\ CountInv, Next PROVE CountInv'
  OBVIOUS
<1> USE AmdWdtAssumption DEF TypeOK, Steps, Bits, hwVars, staticVars, drvVars, procVars,
     histVars, GoTo, Idle, LifeInv, NobodyYet, NobodyAnyMore, StoppedForGood, Unused, CountInv,
     InSetTimeout, Mapped
<1>1. ASSUME NEW p \in Procs, Open(p) PROVE CountInv'
  BY <1>1 DEF Open
<1>2. ASSUME NEW p \in Procs, Close(p) PROVE CountInv'
  BY <1>2 DEF Close
<1>3. ASSUME NEW p \in Procs, Write(p) PROVE CountInv'
  BY <1>3 DEF Write
<1>4. ASSUME NEW p \in Procs, IoctlKeepalive(p) \/ IoctlSetOptions(p) PROVE CountInv'
  BY <1>4 DEF IoctlKeepalive, IoctlSetOptions
<1>5. ASSUME NEW p \in Procs, IoctlSetTimeout(p) PROVE CountInv'
  BY <1>5 DEF IoctlSetTimeout
<1>6. ASSUME NEW p \in Procs, NEW q \in Procs, Share(p, q) PROVE CountInv'
  BY <1>6 DEF Share
<1>7. ASSUME NEW p \in Procs, OpenActivate(p) PROVE CountInv'
  BY <1>7 DEF OpenActivate, UseRegisters, Activate
<1>8. ASSUME NEW p \in Procs, OpenPing(p) PROVE CountInv'
  BY <1>8 DEF OpenPing, UseRegisters, Keepalive
<1>9. ASSUME NEW p \in Procs, Release(p) \/ ReleaseTimer(p) \/ ReleaseClear(p) PROVE CountInv'
  BY <1>9 DEF Release, ReleaseTimer, ReleaseClear, UseRegisters, Keepalive, Deactivate
<1>10. ASSUME NEW p \in Procs, WriteScan(p) \/ Ping(p) PROVE CountInv'
  BY <1>10 DEF WriteScan, Ping, UseRegisters, Keepalive
<1>11. ASSUME NEW p \in Procs, OptionDisable(p) \/ OptionEnable(p) PROVE CountInv'
  BY <1>11 DEF OptionDisable, OptionEnable, UseRegisters, Activate, Deactivate
<1>12. ASSUME NEW p \in Procs, SetCount(p) \/ SetHeartbeat(p) PROVE CountInv'
  BY <1>12 DEF SetCount, SetHeartbeat, UseRegisters, WriteCount
<1>13. CASE LoadSetup
  BY <1>13 DEF LoadSetup
<1>14. CASE LoadCheck
  BY <1>14 DEF LoadCheck
<1>15. CASE LoadRegister \/ LoadFinish
  <2>1. CASE LoadRegister
    BY <1>15, <2>1 DEF LoadRegister
  <2>2. CASE LoadFinish
    BY <1>15, <2>2 DEF LoadFinish
  <2> QED
    BY <1>15, <2>1, <2>2
<1>16. CASE Remove
  BY <1>16 DEF Remove, CanRemove, Deactivate
<1>17. CASE Deregister
  BY <1>17 DEF Deregister
<1>18. CASE Unmap \/ RemoveUnbound
  BY <1>18 DEF Unmap, RemoveUnbound, CanRemove, ModuleGone
<1>19. CASE Tick
  BY <1>19 DEF Tick
<1>20. CASE Shutdown \/ Expire
  BY <1>20 DEF Shutdown, Expire, Booted
<1> QED
  BY <1>1, <1>2, <1>3, <1>4, <1>5, <1>6, <1>7, <1>8, <1>9, <1>10,
     <1>11, <1>12, <1>13, <1>14, <1>15, <1>16, <1>17, <1>18, <1>19, <1>20
     DEF Next, FileStart, FileStep, DriverStep

----------------------------------------------------------------------------
(* Together. *)

\* TypeOK is its two parts.
LEMMA TypeParts == TypeOK <=> FlagsOK /\ ValuesOK
BY DEF TypeOK, FlagsOK, ValuesOK

\* The invariant holds at the start.
LEMMA InitIInv == Init => IInv
<1> SUFFICES ASSUME Init PROVE IInv
  OBVIOUS
<1> USE AmdWdtAssumption DEF Init
<1>1. FlagsOK /\ ValuesOK
  <2>1. FlagsOK
    BY Zenon DEF FlagsOK
  <2> QED
    BY <2>1 DEF ValuesOK, Steps, Bits
<1>2. LifeInv
  BY DEF LifeInv, NobodyYet, NobodyAnyMore, StoppedForGood, Unused, Idle,
     CrashOnlyAfterUnbind, ActiveMeansRunning
<1>3. PlaceInv /\ OwnerInv /\ MagicNeedsOpenFile /\ NoWayOutInv
  BY DEF PlaceInv, OwnerInv, MagicNeedsOpenFile, NoWayOutInv, Idle, Opening, Closing
<1>4. CountInv
  BY DEF CountInv, InSetTimeout, Mapped
<1> QED
  BY <1>1, <1>2, <1>3, <1>4, TypeParts DEF IInv

\* Every step keeps it.
LEMMA StepIInv == IInv /\ [Next]_vars => IInv'
<1> SUFFICES ASSUME IInv, [Next]_vars PROVE IInv'
  OBVIOUS
<1>1. CASE Next
  <2>1. TypeOK'
    BY <1>1, TypeParts, FlagsStep, ValuesStep DEF IInv, TypeOK, FlagsOK, ValuesOK
  <2>2. LifeInv'
    BY <1>1, LifeStep DEF IInv, Next
  <2> QED
    BY <1>1, <2>1, <2>2, PlaceStep, OwnerStep, MagicStep, NoWayOutStep, CountStep DEF IInv
<1>2. CASE UNCHANGED vars
  <2> USE <1>2 DEF IInv, vars, hwVars, staticVars, drvVars, procVars, histVars
  <2>1. TypeOK'
    BY DEF TypeOK
  <2>2. LifeInv'
    BY DEF LifeInv, NobodyYet, NobodyAnyMore, StoppedForGood, Unused, Idle,
       CrashOnlyAfterUnbind, ActiveMeansRunning
  <2>3. PlaceInv' /\ OwnerInv'
    BY DEF PlaceInv, OwnerInv, Idle, Opening, Closing
  <2>4. MagicNeedsOpenFile' /\ NoWayOutInv' /\ CountInv'
    BY DEF MagicNeedsOpenFile, NoWayOutInv, CountInv, InSetTimeout, Mapped
  <2> QED
    BY <2>1, <2>2, <2>3, <2>4
<1> QED
  BY <1>1, <1>2

\* The inductive invariant, for any processes and any width of the counter.
THEOREM Invariance == Spec => []IInv
BY InitIInv, StepIInv, PTL DEF Spec

\* Types: COUNT never gets a value beyond its width, whatever is asked for.
THEOREM TypeCorrect == Spec => []TypeOK
<1>1. IInv => TypeOK
  BY DEF IInv
<1> QED
  BY Invariance, <1>1, PTL

\* One user at a time but for an early open, and no magic character without one.
THEOREM StatusTrue == Spec => []StatusFollowsFiles
<1>1. ASSUME IInv, ~early PROVE Cardinality(OpenFiles) <= 1
  <2>1. CASE \A p \in Procs : file[p] = NoFile
    <3>1. OpenFiles = {}
      BY <2>1 DEF OpenFiles
    <3> QED
      BY <3>1, FS_EmptySet
  <2>2. CASE \E p \in Procs : file[p] # NoFile
    <3>1. PICK p \in Procs : file[p] # NoFile
      BY <2>2
    <3>2. \A q \in Procs : file[q] \in {NoFile, file[p]}
      BY <1>1, <3>1 DEF IInv, OwnerInv
    <3>3. OpenFiles = {file[p]}
      BY <3>1, <3>2 DEF OpenFiles
    <3>4. Cardinality(OpenFiles) = 1
      BY <3>3, FS_Singleton, Zenon
    <3> QED
      BY <3>4
  <2> QED
    BY <2>1, <2>2
<1>2. IInv => StatusFollowsFiles
  BY <1>1 DEF IInv, StatusFollowsFiles, SingleOpenAfterInit, SingleOpen
<1> QED
  BY Invariance, <1>2, PTL

\* What the driver believes of its timer is so, and registers are mapped when they are used.
THEOREM TimerTrue == Spec => []DriverMatchesTimer
<1>1. IInv => DriverMatchesTimer
  BY DEF IInv, LifeInv, StoppedForGood, CountInv, DriverMatchesTimer, RemovedIsStopped,
     HeartbeatMatchesCount
<1> QED
  BY Invariance, <1>1, PTL

\* With nowayout only DISABLECARD and the end of the machine's life stop a running timer.
THEOREM NoWayOut == Spec => NoWayOutHolds
<1>1. ASSUME IInv, Next, nowayout, start, ~start', drv' # "out"
      PROVE  \E p \in Procs : pc[p] \in {"disable", "disableThenEnable"} /\ pc'[p] # pc[p]
  <2> USE DEF hwVars, staticVars, drvVars, procVars, histVars, GoTo, Idle
  <2>1. ~DriverStep
    BY <1>1 DEF DriverStep, LoadSetup, LoadCheck, LoadRegister, LoadFinish, Remove, Deregister,
       Unmap, RemoveUnbound, Shutdown, Booted
  <2>2. ~Tick /\ ~Expire
    BY <1>1 DEF Tick, Expire, Booted
  <2>3. ASSUME NEW p \in Procs PROVE ~FileStart(p)
    BY <1>1 DEF FileStart, Open, Close, Write, IoctlKeepalive, IoctlSetOptions, IoctlSetTimeout,
     Share
  <2>4. PICK p \in Procs : FileStep(p)
    BY <1>1, <2>1, <2>2, <2>3 DEF Next
  <2>5. ~(OpenActivate(p) \/ OpenPing(p) \/ Release(p) \/ ReleaseClear(p))
    BY <1>1 DEF OpenActivate, OpenPing, Release, ReleaseClear, UseRegisters, Activate, Keepalive
  <2>6. ~ReleaseTimer(p)
    BY <1>1 DEF ReleaseTimer, UseRegisters, Deactivate, Keepalive, IInv, NoWayOutInv
  <2>7. ~(WriteScan(p) \/ Ping(p) \/ OptionEnable(p) \/ SetCount(p) \/ SetHeartbeat(p))
    BY <1>1 DEF WriteScan, Ping, OptionEnable, SetCount, SetHeartbeat, UseRegisters, Activate,
       Keepalive, WriteCount
  <2>8. OptionDisable(p)
    BY <2>4, <2>5, <2>6, <2>7 DEF FileStep
  <2>9. pc[p] \in {"disable", "disableThenEnable"} /\ pc'[p] # pc[p]
    BY <1>1, <2>8 DEF OptionDisable, IInv, TypeOK
  <2> QED
    BY <2>9
<1>2. IInv /\ [Next]_vars =>
        [nowayout /\ start /\ ~start' =>
           \/ \E p \in Procs : /\ pc[p] \in {"disable", "disableThenEnable"}
                             /\ pc'[p] # pc[p]
           \/ drv' = "out"]_vars
  BY <1>1
<1> QED
  BY Invariance, <1>2, PTL DEF Spec, NoWayOutHolds
=============================================================================
