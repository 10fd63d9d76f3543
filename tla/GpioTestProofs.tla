--------------------------- MODULE GpioTestProofs ---------------------------
(***************************************************************************)
(* What holds of gpio-test over the GPIO driver for every set of pins,     *)
(* every choice of the firmware and of the module parameters, and any      *)
(* number of probes.  No fairness is used.                                 *)
(***************************************************************************)
EXTENDS GpioTest, FiniteSetTheorems, TLAPS

\* What has been registered or acquired when the first k steps have succeeded.
First(s, k) == {s[i] : i \in 1 .. k}

\* Registrations come and go in the order of the labels, and there is a platform
\* device, with or without its resources, only when all of them are there.
StageInv ==
  /\ \E k \in 0 .. 6 : have = First(Stages, k)
  /\ \E k \in 0 .. 5 : held = First(Resources, k)
  /\ probe # "none" => have = SetOf(Stages)
  /\ probe = "mapping" => "chip" \notin held
  /\ life = "init" /\ probe = "none" => binds < MaxBinds
  /\ AllOrNothing

\* Who has a pin: on Steppe Eagle an exported pin is requested, and there is a chip.
\* While a parameter is applied its pin is the driver's, which is idle on the other boards.
ClaimInv ==
  /\ board = "S" => \A p \in Pins :
       /\ exporter[p] # "none" <=> claim[p] = "sysfs"
       /\ claim[p] = "sysfs" => "chip" \in held
  /\ probe = "params" =>
       /\ param \in DOMAIN Params /\ todo = {}
       /\ step = "free" => claim[Params[param].pin] = "driver"
  /\ probe # "params" => step = "mask"
  /\ board # "S" => probe = "none"

\* What the IOMUX registers hold, and what the table knows of it.
FirmwareInv ==
  \A p \in Pins :
    /\ iomux[p] \in {firmware[p], GpioFunction(p)}
    /\ firmware[p] \in Alternate(p) /\ MaskEntry(p) = p /\ p \notin early =>
         /\ iomux[p] = firmware[p]
         /\ "chip" \in held /\ p \notin todo => mask[p] = RESV

\* The mode of a pin is obeyed, but by the pin whose parameter has been entered in the
\* table and is not applied yet.
ModeInv ==
  \A p \in Pins \ skipped :
    \/ probe = "params" /\ step = "request" /\ p = Params[param].pin
    \/ (mask[p] = INPUT => ~ outEn[p]) /\ (mask[p] = OUTPUT => outEn[p])

\* A pin that the program has exported and that did not go astray is marked, or is that of the
\* command it executes, or is one of those that the program does not find again.
Unfindable(p) == board = "V" \/ (board = "A" /\ p \in badValue)

ExportInv ==
  /\ tpc = "open" => command.pin \in Pins
  /\ \A p \in Pins :
       exporter[p] = "test" =>
         \/ Unfindable(p)
         \/ tpc = "prompt" /\ p \in inUse
         \/ tpc = "open" /\ (p \in inUse \/ p = command.pin)

IInv ==
  /\ TypeOK /\ StageInv /\ ClaimInv /\ FirmwareInv /\ MaskFollowsFirmware /\ ModeInv /\ ExportInv
----------------------------------------------------------------------------
(* Lemmas.  A step is one of the driver or one of the program; a step that *)
(* changes nothing of what an invariant speaks of keeps it.                *)

Step ==
  \/ board = "S" /\ DriverNext /\ UNCHANGED <<board, test>>
  \/ TestNext
  \/ UNCHANGED vars

\* A command whose number is read as q by the kernel.
CommandOn(op, p, q) ==
  /\ tpc = "prompt"
  /\ IF Grants(q) THEN Export(q, IF q = p THEN "test" ELSE "astray")
     ELSE UNCHANGED <<users, regs>>
  /\ IF p \in Pins /\ (Grants(q) \/ Busy(q))
     THEN tpc' = "open" /\ command' = [op |-> op, pin |-> p]
     ELSE UNCHANGED <<tpc, command>>
  /\ UNCHANGED <<module, probing, mask, board, inUse, badValue>>

LEMMA CommandReads ==
  ASSUME NEW op, NEW p, CommandExport(op, p)
  PROVE  \E q : CommandOn(op, p, q)
BY Zenon DEF CommandExport, CommandOn

\* The end of a command changes no more of who has a pin than that one that went astray is
\* found again.
LEMMA FinishMarks ==
  ASSUME NEW marks, Finish(marks), exporter \in [Pins -> {"none", "test", "astray", "other"}]
  PROVE  /\ exporter' \in [Pins -> {"none", "test", "astray", "other"}]
         /\ \A p \in Pins :
              /\ exporter'[p] = "none" <=> exporter[p] = "none"
              /\ exporter'[p] = "test" => exporter[p] = "test" \/ p \in marks
BY DEF Finish

\* TypeOK in three parts.
LifeOK ==
  /\ life \in {"out", "init", "live"} /\ have \subseteq SetOf(Stages)
  /\ probe \in Probes /\ held \subseteq SetOf(Resources) /\ todo \subseteq Pins
  /\ param \in 0 .. Len(Params) + 1 /\ step \in {"mask", "request", "free"}
  /\ binds \in 0 .. MaxBinds /\ early \subseteq Pins /\ skipped \subseteq Pins

PinsOK ==
  /\ mask \in [Pins -> Modes] /\ iomux \in [Pins -> Functions]
  /\ outEn \in [Pins -> BOOLEAN]
  /\ claim \in [Pins -> {"none", "driver", "sysfs"}]
  /\ exporter \in [Pins -> {"none", "test", "astray", "other"}]
  /\ firmware \in [Pins -> Functions]

TestOK ==
  /\ board \in {"S", "A", "V"} /\ tpc \in {"out", "prompt", "open"}
  /\ command \in [op : Operations \cup {"none"}, pin : Names]
  /\ inUse \subseteq Pins /\ badValue \subseteq Pins

FlagsOK == debug \in BOOLEAN /\ crashed \in BOOLEAN

LEMMA TypeParts == TypeOK <=> LifeOK /\ PinsOK /\ TestOK /\ FlagsOK
BY DEF TypeOK, LifeOK, PinsOK, TestOK, FlagsOK

\* The assumptions as the provers take them.
LEMMA ParamsType ==
  /\ Len(Params) \in Nat /\ DOMAIN Params = 1 .. Len(Params)
  /\ \A i \in DOMAIN Params : Params[i].pin \in Pins /\ Params[i].mode \in Modes
<1>1. Params \in Seq([pin : Pins, mode : Modes])
  BY GpioAssumption
<1>2. Len(Params) \in Nat /\ DOMAIN Params = 1 .. Len(Params)
  BY <1>1
<1>3. \A i \in DOMAIN Params : Params[i] \in [pin : Pins, mode : Modes]
  <2>1. ASSUME NEW S, NEW s \in Seq(S), NEW i \in DOMAIN s PROVE s[i] \in S
    OBVIOUS
  <2> QED
    BY <1>1, <2>1
<1> QED
  BY <1>2, <1>3

\* The function that makes a pin a GPIO.
LEMMA GpioFunctionType == \A p \in Pins : GpioFunction(p) \in Functions
BY GpioAssumption DEF GpioFunction, Functions

\* The stages and the resources as they come.
LEMMA StageSets ==
  /\ First(Stages, 0) = {} /\ First(Resources, 0) = {}
  /\ First(Stages, 6) = SetOf(Stages) /\ First(Resources, 5) = SetOf(Resources)
  /\ \A k \in 0 .. 5 : First(Stages, k + 1) = First(Stages, k) \cup {Stages[k + 1]}
  /\ \A k \in 0 .. 4 : First(Resources, k + 1) = First(Resources, k) \cup {Resources[k + 1]}
<1>1. \A s : First(s, 0) = {}
  BY DEF First
<1>2. \A s : \A k \in Nat : First(s, k + 1) = First(s, k) \cup {s[k + 1]}
  <2> SUFFICES ASSUME NEW s, NEW k \in Nat PROVE First(s, k + 1) = First(s, k) \cup {s[k + 1]}
    OBVIOUS
  <2>1. 1 .. k + 1 = (1 .. k) \cup {k + 1}
    OBVIOUS
  <2> QED
    BY <2>1 DEF First
<1>3. DOMAIN Stages = 1 .. 6 /\ DOMAIN Resources = 1 .. 5
  BY DEF Stages, Resources
<1> QED
  BY <1>1, <1>2, <1>3 DEF First, SetOf

\* No stage and no resource is there twice, so their number tells which is next.
LEMMA Counted ==
  /\ \A k \in 0 .. 6 : Cardinality(First(Stages, k)) = k
  /\ \A k \in 0 .. 5 : Cardinality(First(Resources, k)) = k
<1>1. ASSUME NEW s, NEW n \in Nat, \A i, j \in 1 .. n : i # j => s[i] # s[j]
      PROVE  \A k \in 0 .. n : Cardinality(First(s, k)) = k
  <2> SUFFICES ASSUME NEW k \in 0 .. n PROVE Cardinality(First(s, k)) = k
    OBVIOUS
  <2> DEFINE f == [i \in 1 .. k |-> s[i]]
  <2>1. f \in Bijection(1 .. k, First(s, k))
    BY <1>1 DEF Bijection, Injection, Surjection, IsInjective, First
  <2>2. IsFiniteSet(1 .. k) /\ Cardinality(1 .. k) = k
    BY FS_Interval
  <2> QED
    BY <2>1, <2>2, FS_Bijection DEF ExistsBijection
<1>2. \A i, j \in 1 .. 6 : i # j => Stages[i] # Stages[j]
  BY DEF Stages
<1>3. \A i, j \in 1 .. 5 : i # j => Resources[i] # Resources[j]
  BY DEF Resources
<1> QED
  BY <1>1, <1>2, <1>3

\* Whatever fails, the labels after it undo all that came before.
LEMMA Undone ==
  /\ \A k \in 0 .. 5 : First(Stages, k) \ UndoneAt(Stages[k + 1]) = {}
  /\ \A k \in 0 .. 4 : First(Resources, k) \ ReleasedAt(Resources[k + 1]) = {}
<1>1. ASSUME NEW k \in 0 .. 5 PROVE First(Stages, k) \subseteq UndoneAt(Stages[k + 1])
  BY <1>1 DEF First, Stages, UndoneAt
<1>2. ASSUME NEW k \in 0 .. 4 PROVE First(Resources, k) \subseteq ReleasedAt(Resources[k + 1])
  BY <1>2 DEF First, Resources, ReleasedAt
<1> QED
  BY <1>1, <1>2

\* The next stage of the module, and the next resource of a probe.
LEMMA NextStage ==
  ASSUME StageInv, Cardinality(have) < 6
  PROVE  \E k \in 0 .. 5 : /\ have = First(Stages, k)
                           /\ Stages[Cardinality(have) + 1] = Stages[k + 1]
<1>1. PICK k \in 0 .. 6 : have = First(Stages, k)
  BY DEF StageInv
<1>2. Cardinality(have) = k
  BY <1>1, Counted
<1> QED
  BY <1>1, <1>2

LEMMA NextResource ==
  ASSUME StageInv, probe = "mapping"
  PROVE  \E k \in 0 .. 4 : /\ held = First(Resources, k)
                           /\ Resources[Cardinality(held) + 1] = Resources[k + 1]
<1>1. PICK k \in 0 .. 5 : held = First(Resources, k)
  BY DEF StageInv
<1>2. Cardinality(held) = k
  BY <1>1, Counted
<1>3. k # 5
  <2>1. "chip" \in SetOf(Resources)
    BY DEF SetOf, Resources
  <2> QED
    BY <1>1, <2>1, StageSets DEF StageInv
<1> QED
  BY <1>1, <1>2, <1>3

\* The flags stay flags.
LEMMA FlagTypes ==
  FlagsOK /\ Step => FlagsOK'
<1> SUFFICES ASSUME FlagsOK, Step PROVE FlagsOK'
  OBVIOUS
<1> USE DEF FlagsOK, driver, module, probing, regs, users, test
<1>1. CASE Unload
  BY <1>1, Zenon DEF Unload
<1>2. CASE DebugOpen
  BY <1>2, Zenon DEF DebugOpen
<1>3. CASE DebugRelease
  BY <1>3, Zenon DEF DebugRelease
<1>4. ASSUME NEW p \in Pins, DebugIoctl(p) PROVE FlagsOK'
  BY <1>4, Zenon DEF DebugIoctl
<1>5. CASE UNCHANGED <<debug, crashed>>
  BY <1>5
<1> QED
  BY <1>1, <1>2, <1>3, <1>4, <1>5 DEF Step, DriverNext, TestNext, Halted, vars, Load,
     ModuleStage, ModuleLoaded, ProbeResource, ScanPin, ScanDone, ParamMask, NextParam,
     ParamRequest, ParamFree, Unbind, Bind, OtherExports, Request, Requestable,
     OtherDrives, DirectionOutput, OtherUnexports, Free, Start, ChipGone, Ended, Exit,
     EndOfInput, CommandExport, Grants, Export, FileMissing, Finish, GetGpio, Opened,
     Marked, SetGpioMode, DirectionInput, SetGpioValue

\* The program keeps its types.
LEMMA TestTypes ==
  TestOK /\ ExportInv /\ Step => TestOK'
<1> SUFFICES ASSUME TestOK /\ ExportInv, Step PROVE TestOK'
  OBVIOUS
<1> USE DEF TestOK, ExportInv, Operations, NoCommand, Names, driver, module, probing, regs,
        users, test
<1>1. CASE Start
  BY <1>1 DEF Start
<1>2. CASE ChipGone
  BY <1>2 DEF ChipGone, Ended
<1>3. CASE Exit
  BY <1>3 DEF Exit, Ended, Free
<1>4. CASE EndOfInput
  BY <1>4 DEF EndOfInput, Ended, Free
<1>5. ASSUME NEW op \in Operations, NEW p \in Names, NEW q,
            CommandOn(op, p, q)
      PROVE  TestOK'
  BY <1>5 DEF CommandOn, Grants, Export, Requestable, Request
<1>6. CASE FileMissing
  BY <1>6 DEF FileMissing, Finish
<1>7. CASE GetGpio
  BY <1>7 DEF GetGpio, Opened, Finish, Marked
<1>8. CASE SetGpioMode
  BY <1>8 DEF SetGpioMode, Opened, Finish, Marked, DirectionInput, DirectionOutput
<1>9. CASE SetGpioValue
  BY <1>9 DEF SetGpioValue, Opened, Finish, Marked
<1>10. CASE UNCHANGED <<board, tpc, command, inUse, badValue>>
  BY <1>10
<1> QED
  BY <1>1, <1>2, <1>3, <1>4, <1>5, <1>6, <1>7, <1>8, <1>9, <1>10, CommandReads DEF Step, DriverNext,
     TestNext, Halted, vars, Load, ModuleStage, ModuleLoaded, Unload, ProbeResource,
     ScanPin, ScanDone, ParamMask, NextParam, ParamRequest, ParamFree, Unbind, Bind,
     OtherExports, Request, Requestable, OtherDrives, DirectionOutput, OtherUnexports,
     Free, DebugOpen, DebugRelease, DebugIoctl

\* The registers and the tables keep their types.
LEMMA PinTypes ==
  TypeOK /\ ClaimInv /\ ExportInv /\ Step => PinsOK'
<1> SUFFICES ASSUME TypeOK /\ ClaimInv /\ ExportInv, Step PROVE PinsOK'
  OBVIOUS
<1> USE ParamsType, GpioFunctionType
    DEF TypeOK, PinsOK, ClaimInv, ExportInv, Modes, RESV, ANY, INPUT, OUTPUT, DefaultMask,
    driver, module, probing, regs, users, test
<1>1. ASSUME NEW c \in BOOLEAN, Load(c) PROVE PinsOK'
  BY <1>1 DEF Load
<1>2. CASE ScanPin
  BY <1>2 DEF ScanPin
<1>3. CASE ParamMask
  BY <1>3 DEF ParamMask, NextParam
<1>4. CASE ParamRequest
  <2> DEFINE p == Params[param].pin
  <2>1. p \in Pins
    BY <1>4 DEF ParamRequest
  <2>2. iomux' \in [Pins -> Functions] /\ claim' \in [Pins -> {"none", "driver", "sysfs"}]
    BY <1>4, <2>1 DEF ParamRequest
  <2>3. outEn' \in [Pins -> BOOLEAN]
    <3>1. \/ UNCHANGED outEn
          \/ \E v \in BOOLEAN : outEn' = [outEn EXCEPT ![p] = v]
      <4>1. (IF mask[p] = ANY THEN outEn[p] ELSE mask[p] = OUTPUT) \in BOOLEAN
        BY <2>1, Zenon
      <4> QED
        BY <1>4, <4>1, Zenon DEF ParamRequest
    <3> QED
      BY <2>1, <3>1
  <2> QED
    BY <1>4, <2>2, <2>3 DEF ParamRequest
<1>5. CASE ParamFree
  BY <1>5 DEF ParamFree, NextParam
<1>6. CASE Unbind
  BY <1>6 DEF Unbind
<1>7. ASSUME NEW p \in Pins, OtherExports(p) PROVE PinsOK'
  BY <1>7 DEF OtherExports, Request, Requestable
<1>8. ASSUME NEW p \in Pins, OtherDrives(p) PROVE PinsOK'
  BY <1>8 DEF OtherDrives, DirectionOutput
<1>9. ASSUME NEW p \in Pins, OtherUnexports(p) PROVE PinsOK'
  BY <1>9 DEF OtherUnexports, Free
<1>10. ASSUME NEW p \in Pins, DebugIoctl(p) PROVE PinsOK'
  BY <1>10 DEF DebugIoctl
<1>11. CASE Start
  BY <1>11 DEF Start
<1>12. CASE Exit
  BY <1>12 DEF Exit, Ended, Free
<1>13. CASE EndOfInput
  BY <1>13 DEF EndOfInput, Ended, Free
<1>14. ASSUME NEW op \in Operations, NEW p \in Names, NEW q,
            CommandOn(op, p, q)
      PROVE  PinsOK'
  BY <1>14 DEF CommandOn, Grants, Export, Requestable, Request
<1>15. CASE SetGpioMode
  <2>1. command.pin \in Pins /\ UNCHANGED <<mask, iomux, claim, firmware>>
    BY <1>15 DEF SetGpioMode, Opened, HasFile, Finish
  <2>4. exporter' \in [Pins -> {"none", "test", "astray", "other"}]
    BY <1>15, FinishMarks DEF SetGpioMode
  <2>2. \/ UNCHANGED outEn
        \/ \E v \in BOOLEAN : outEn' = [outEn EXCEPT ![command.pin] = v]
    BY <1>15, Zenon DEF SetGpioMode, DirectionInput, DirectionOutput
  <2> QED
    BY <2>1, <2>2, <2>4
<1>16. ASSUME NEW marks, Finish(marks), UNCHANGED outEn PROVE PinsOK'
  <2>1. exporter' \in [Pins -> {"none", "test", "astray", "other"}]
    BY <1>16, FinishMarks
  <2> QED
    BY <1>16, <2>1 DEF Finish
<1>17. CASE UNCHANGED <<mask, iomux, outEn, claim, exporter, firmware>>
  BY <1>17
<1> QED
  BY <1>1, <1>2, <1>3, <1>4, <1>5, <1>6, <1>7, <1>8, <1>9, <1>10, <1>11, <1>12, <1>13, <1>14,
     <1>15, <1>16, <1>17, CommandReads DEF Step, DriverNext, TestNext, Halted, vars, ModuleStage,
     ModuleLoaded, Unload, ProbeResource, ScanDone, Bind, DebugOpen, DebugRelease,
     ChipGone, Ended, FileMissing, Finish, GetGpio, Opened, Marked,
     SetGpioValue

\* The life of the driver keeps its types.
LEMMA LifeTypes ==
  TypeOK /\ StageInv /\ ClaimInv /\ Step => LifeOK'
<1> SUFFICES ASSUME TypeOK /\ StageInv /\ ClaimInv, Step PROVE LifeOK'
  OBVIOUS
<1> USE ParamsType, GpioAssumption DEF TypeOK, LifeOK, ClaimInv, Probes, driver, module,
        probing, regs, users, test
<1>1. ASSUME NEW c \in BOOLEAN, Load(c) PROVE LifeOK'
  BY <1>1 DEF Load
<1>2. CASE ModuleStage
  <2>1. Cardinality(have) < 6
    BY <1>2 DEF ModuleStage, Stages
  <2>2. PICK k \in 0 .. 5 : have = First(Stages, k) /\ Stages[Cardinality(have) + 1] = Stages[k + 1]
    BY <2>1, NextStage
  <2>3. Stages[k + 1] \in SetOf(Stages)
    BY DEF SetOf, Stages
  <2>4. have' \subseteq SetOf(Stages)
    BY <1>2, <2>2, <2>3 DEF ModuleStage
  <2>5. life' \in {"out", "init", "live"}
    BY <1>2 DEF ModuleStage
  <2>6. binds < MaxBinds
    <3>1. have # SetOf(Stages)
      BY <1>2, StageSets, Counted DEF ModuleStage, Stages
    <3> QED
      BY <1>2, <3>1 DEF ModuleStage, StageInv
  <2>7. probe' \in Probes /\ binds' \in 0 .. MaxBinds
    BY <1>2, <2>6 DEF ModuleStage
  <2> QED
    BY <1>2, <2>4, <2>5, <2>7 DEF ModuleStage
<1>3. CASE ModuleLoaded
  BY <1>3 DEF ModuleLoaded
<1>4. CASE Unload
  BY <1>4 DEF Unload
<1>5. CASE ProbeResource
  <2>1. PICK k \in 0 .. 4 : /\ held = First(Resources, k)
                          /\ Resources[Cardinality(held) + 1] = Resources[k + 1]
    BY <1>5, NextResource DEF ProbeResource
  <2>2. Resources[k + 1] \in SetOf(Resources)
    BY DEF SetOf, Resources
  <2>3. held' \subseteq SetOf(Resources)
    BY <1>5, <2>1, <2>2 DEF ProbeResource
  <2>4. probe' \in Probes /\ todo' \subseteq Pins
    BY <1>5 DEF ProbeResource
  <2> QED
    BY <1>5, <2>3, <2>4 DEF ProbeResource
<1>6. CASE ScanPin
  BY <1>6 DEF ScanPin
<1>7. CASE ScanDone
  BY <1>7 DEF ScanDone
<1>8. CASE ParamMask
  BY <1>8 DEF ParamMask, NextParam
<1>9. CASE ParamRequest
  <2>1. skipped' \subseteq Pins
    <3>1. Params[param].pin \in Pins
      BY <1>9 DEF ParamRequest
    <3>2. skipped' \subseteq skipped \cup {Params[param].pin}
      BY <1>9, Zenon DEF ParamRequest
    <3> QED
      BY <3>1, <3>2
  <2>2. step' \in {"mask", "request", "free"} /\ probe' \in Probes
    BY <1>9 DEF ParamRequest, NextParam
  <2>3. param' \in 0 .. Len(Params) + 1
    BY <1>9 DEF ParamRequest, NextParam
  <2> QED
    BY <1>9, <2>1, <2>2, <2>3 DEF ParamRequest
<1>10. CASE ParamFree
  BY <1>10 DEF ParamFree, NextParam
<1>11. CASE Unbind
  BY <1>11 DEF Unbind
<1>12. CASE Bind
  BY <1>12 DEF Bind
<1>13. ASSUME NEW p \in Pins, OtherExports(p) PROVE LifeOK'
  BY <1>13 DEF OtherExports, Request, Requestable
<1>14. ASSUME NEW op \in Operations, NEW p \in Names, NEW q,
            CommandOn(op, p, q)
      PROVE  LifeOK'
  <2>1. early' \subseteq Pins
    <3>1. UNCHANGED early \/ (Grants(q) /\ early' \subseteq early \cup {q})
      BY <1>14 DEF CommandOn, Export, Request
    <3> QED
      BY <3>1 DEF Grants
  <2> QED
    BY <1>14, <2>1 DEF CommandOn
<1>15. CASE UNCHANGED <<life, have, probe, held, todo, param, step, binds, early, skipped>>
  BY <1>15
<1> QED
  BY <1>1, <1>2, <1>3, <1>4, <1>5, <1>6, <1>7, <1>8, <1>9, <1>10, <1>11, <1>12, <1>13, <1>14,
     <1>15, CommandReads DEF Step, DriverNext, TestNext, Halted, vars, OtherDrives, DirectionOutput,
     OtherUnexports, Free, DebugOpen, DebugRelease, DebugIoctl, Start, ChipGone, Ended, Exit,
     EndOfInput, FileMissing, Finish, GetGpio, Opened, Marked,
     SetGpioMode, DirectionInput, SetGpioValue

\* What fails is taken back.
LEMMA StageStep ==
  StageInv /\ Step => StageInv'
<1> SUFFICES ASSUME StageInv, Step PROVE StageInv'
  OBVIOUS
<1> USE StageSets DEF StageInv, AllOrNothing, driver, module, probing, regs, users, test
<1>1. ASSUME NEW c \in BOOLEAN, Load(c) PROVE StageInv'
  BY <1>1 DEF Load
<1>2. CASE ModuleStage
  <2>1. Cardinality(have) < 6 /\ life = "init"
    BY <1>2 DEF ModuleStage, Stages
  <2>2. PICK k \in 0 .. 5 : have = First(Stages, k) /\ Stages[Cardinality(have) + 1] = Stages[k + 1]
    BY <2>1, NextStage
  <2>3. Stages[k + 1] = "pdev" <=> k = 5
    BY DEF Stages
  <2>4. have # SetOf(Stages)
    BY <2>1, Counted
  <2>5. probe = "none" /\ held = {} /\ UNCHANGED held /\ binds < MaxBinds
    BY <1>2, <2>1, <2>4 DEF ModuleStage
  <2>6. CASE /\ have' = have \cup {Stages[k + 1]} /\ UNCHANGED life
             /\ IF k = 5 THEN probe' = "mapping" ELSE UNCHANGED <<probe, binds>>
    <3>1. have' = First(Stages, k + 1)
      BY <2>2, <2>6
    <3>2. CASE k = 5
      <4>1. have' = SetOf(Stages)
        BY <3>1, <3>2
      <4>2. "chip" \notin held' /\ life' = "init" /\ probe' = "mapping" /\ k + 1 \in 0 .. 6
        BY <2>1, <2>5, <2>6, <3>2
      <4> QED
        BY <2>5, <3>1, <4>1, <4>2
    <3>3. CASE k < 5
      <4>1. life' = "init" /\ probe' = "none" /\ UNCHANGED binds /\ k + 1 \in 0 .. 6
        BY <2>1, <2>5, <2>6, <3>3
      <4> QED
        BY <2>5, <3>1, <4>1
    <3> QED
      BY <3>2, <3>3
  <2>7. CASE /\ have' = have \ UndoneAt(Stages[k + 1]) /\ life' \in {"out", "live"}
             /\ UNCHANGED <<probe, binds>>
    <3>1. have' = {}
      BY <2>2, <2>7, Undone
    <3> QED
      BY <2>5, <2>7, <3>1
  <2>8. \/ /\ have' = have \cup {Stages[k + 1]} /\ UNCHANGED life
           /\ IF Stages[k + 1] = "pdev" THEN probe' = "mapping" /\ binds' = binds + 1
              ELSE UNCHANGED <<probe, binds>>
        \/ /\ have' = have \ UndoneAt(Stages[k + 1])
           /\ life' = IF ReturnsError(Stages[k + 1]) THEN "out" ELSE "live"
           /\ UNCHANGED <<probe, binds>>
    BY <1>2, <2>2, Zenon DEF ModuleStage
  <2> QED
    BY <2>3, <2>6, <2>7, <2>8
<1>3. CASE ModuleLoaded
  BY <1>3 DEF ModuleLoaded
<1>4. CASE Unload
  BY <1>4 DEF Unload
<1>5. CASE ProbeResource
  <2>1. PICK k \in 0 .. 4 : /\ held = First(Resources, k)
                          /\ Resources[Cardinality(held) + 1] = Resources[k + 1]
    BY <1>5, NextResource DEF ProbeResource
  <2>2. Resources[k + 1] = "chip" <=> k = 4
    BY DEF Resources
  <2>3. UNCHANGED <<life, have, binds>> /\ have = SetOf(Stages)
    BY <1>5 DEF ProbeResource
  <2>4. \/ /\ held' = held \cup {Resources[k + 1]}
           /\ IF Resources[k + 1] = "chip" THEN probe' = "scan" /\ todo' = Pins
              ELSE UNCHANGED <<probe, todo>>
        \/ held' = held \ ReleasedAt(Resources[k + 1]) /\ probe' = "failed" /\ UNCHANGED todo
    BY <1>5, <2>1, Zenon DEF ProbeResource
  <2>5. CASE /\ held' = held \cup {Resources[k + 1]}
             /\ IF k = 4 THEN probe' = "scan" ELSE probe' = "mapping"
    <3>1. held' = First(Resources, k + 1)
      BY <2>1, <2>5
    <3>2. CASE k = 4
      <4>1. held' = SetOf(Resources) /\ probe' = "scan" /\ k + 1 \in 0 .. 5
        BY <2>5, <3>1, <3>2
      <4> QED
        BY <1>5, <2>3, <3>1, <4>1
    <3>3. CASE k < 4
      <4>1. probe' = "mapping" /\ k + 1 \in 0 .. 5 /\ "chip" \notin held'
        BY <1>5, <2>2, <2>5, <3>3 DEF ProbeResource
      <4> QED
        BY <1>5, <2>3, <3>1, <4>1
    <3> QED
      BY <3>2, <3>3
  <2>6. CASE held' = held \ ReleasedAt(Resources[k + 1]) /\ probe' = "failed"
    <3>1. held' = {}
      BY <2>1, <2>6, Undone
    <3> QED
      BY <1>5, <2>3, <2>6, <3>1 DEF ProbeResource
  <2> QED
    BY <1>5, <2>2, <2>4, <2>5, <2>6 DEF ProbeResource
<1>6. CASE ScanDone
  BY <1>6 DEF ScanDone
<1>7. CASE ParamMask
  BY <1>7 DEF ParamMask, NextParam
<1>8. CASE ParamRequest
  BY <1>8 DEF ParamRequest, NextParam
<1>9. CASE ParamFree
  BY <1>9 DEF ParamFree, NextParam
<1>10. CASE Unbind
  BY <1>10 DEF Unbind
<1>11. CASE Bind
  BY <1>11 DEF Bind
<1>12. CASE UNCHANGED <<life, have, probe, held, binds>>
  BY <1>12
<1> QED
  BY <1>1, <1>2, <1>3, <1>4, <1>5, <1>6, <1>7, <1>8, <1>9, <1>10, <1>11, <1>12 DEF Step,
     DriverNext, TestNext, Halted, vars, ScanPin, OtherExports, Request, Requestable,
     OtherDrives, DirectionOutput, OtherUnexports, Free, DebugOpen, DebugRelease,
     DebugIoctl, Start, ChipGone, Ended, Exit, EndOfInput, CommandExport, Grants, Export,
     FileMissing, Finish, GetGpio, Opened, Marked, SetGpioMode,
     DirectionInput, SetGpioValue

\* Who has a pin.
LEMMA ClaimStep ==
  TypeOK /\ StageInv /\ ClaimInv /\ Step => ClaimInv'
<1> SUFFICES ASSUME TypeOK /\ StageInv /\ ClaimInv, Step PROVE ClaimInv'
  OBVIOUS
<1>a. probe # "none" => life # "out" /\ have = SetOf(Stages)
  BY DEF StageInv, AllOrNothing, SetOf, Stages
<1>b. probe = "mapping" => "chip" \notin held
  BY DEF StageInv
<1>c. /\ claim \in [Pins -> {"none", "driver", "sysfs"}]
      /\ exporter \in [Pins -> {"none", "test", "astray", "other"}]
  BY DEF TypeOK
<1>d. life = "live" => have \in {{}, SetOf(Stages)}
  BY DEF StageInv, AllOrNothing
<1> USE <1>a, <1>b, <1>c, <1>d, ParamsType DEF ClaimInv, driver, module, probing, regs, users,
        test
<1>1. ASSUME NEW c \in BOOLEAN, Load(c),
            board = "S", UNCHANGED <<board, test>>
      PROVE  ClaimInv'
  BY <1>1 DEF Load
<1>2. CASE board = "S" /\ ModuleStage /\ UNCHANGED <<board, test>>
  <2>1. Cardinality(have) < 6 /\ life = "init"
    BY <1>2 DEF ModuleStage, Stages
  <2>2. probe = "none"
    BY <2>1, StageSets, Counted
  <2>3. probe' \in {"none", "mapping"}
    BY <1>2, <2>2 DEF ModuleStage
  <2>4. UNCHANGED <<board, held, claim, exporter, param, todo, step>>
    BY <1>2 DEF ModuleStage
  <2> QED
    BY <1>2, <2>2, <2>3, <2>4
<1>3. CASE board = "S" /\ Unload /\ UNCHANGED <<board, test>>
  BY <1>3 DEF Unload
<1>4. CASE board = "S" /\ ProbeResource /\ UNCHANGED <<board, test>>
  BY <1>4 DEF ProbeResource
<1>5. CASE board = "S" /\ ScanPin /\ UNCHANGED <<board, test>>
  BY <1>5 DEF ScanPin
<1>6. CASE board = "S" /\ ScanDone /\ UNCHANGED <<board, test>>
  BY <1>6 DEF ScanDone
<1>7. CASE board = "S" /\ ParamMask /\ UNCHANGED <<board, test>>
  BY <1>7 DEF ParamMask, NextParam
<1>8. CASE board = "S" /\ ParamRequest /\ UNCHANGED <<board, test>>
  BY <1>8 DEF ParamRequest, NextParam
<1>9. CASE board = "S" /\ ParamFree /\ UNCHANGED <<board, test>>
  BY <1>9 DEF ParamFree, NextParam
<1>10. CASE board = "S" /\ Unbind /\ UNCHANGED <<board, test>>
  BY <1>10 DEF Unbind
<1>11. CASE board = "S" /\ Bind /\ UNCHANGED <<board, test>>
  BY <1>11 DEF Bind
<1>12. ASSUME NEW p \in Pins, OtherExports(p),
            board = "S", UNCHANGED <<board, test>>
      PROVE  ClaimInv'
  BY <1>12 DEF OtherExports, Request, Requestable
<1>13. ASSUME NEW p \in Pins, OtherUnexports(p),
            board = "S", UNCHANGED <<board, test>>
      PROVE  ClaimInv'
  BY <1>13 DEF OtherUnexports, Free
<1>14. CASE Start
  BY <1>14 DEF Start
<1>15. CASE Exit
  BY <1>15 DEF Exit, Ended, Free
<1>16. CASE EndOfInput
  BY <1>16 DEF EndOfInput, Ended, Free
<1>17. ASSUME NEW op \in Operations, NEW p \in Names, NEW q,
            CommandOn(op, p, q)
      PROVE  ClaimInv'
  BY <1>17 DEF CommandOn, Grants, Export, Requestable, Request
<1>18. CASE FileMissing \/ GetGpio \/ SetGpioMode \/ SetGpioValue
  <2>2. PICK marks : Finish(marks)
    BY <1>18, Zenon DEF FileMissing, GetGpio, SetGpioMode, SetGpioValue
  <2>1. \A p \in Pins : exporter'[p] = "none" <=> exporter[p] = "none"
    BY <2>2, FinishMarks
  <2> QED
    BY <2>1, <2>2 DEF Finish
<1>19. CASE UNCHANGED <<board, exporter, claim, held, probe, param, todo, step>>
  BY <1>19
<1> QED
  BY <1>1, <1>2, <1>3, <1>4, <1>5, <1>6, <1>7, <1>8, <1>9, <1>10, <1>11, <1>12, <1>13, <1>14,
     <1>15, <1>16, <1>17, <1>18, <1>19, CommandReads DEF Step, DriverNext, TestNext, Halted, vars,
     ModuleLoaded, OtherDrives, DirectionOutput, DebugOpen, DebugRelease, DebugIoctl,
     ChipGone, Ended

\* What the program has exported, it will find again.
LEMMA ExportStep ==
  TypeOK /\ ClaimInv /\ ExportInv /\ Step => ExportInv'
<1> SUFFICES ASSUME TypeOK /\ ClaimInv /\ ExportInv, Step PROVE ExportInv'
  OBVIOUS
<1>a. exporter \in [Pins -> {"none", "test", "astray", "other"}] /\ board \in {"S", "A", "V"}
  BY DEF TypeOK
<1>b. board = "S" => \A p \in Pins : exporter[p] # "none" => "chip" \in held
  BY DEF ClaimInv
<1> USE <1>a, <1>b DEF ExportInv, Unfindable, driver, module, probing, regs, users, test
<1>1. CASE board = "S" /\ Unbind /\ UNCHANGED <<board, test>>
  BY <1>1 DEF Unbind
<1>2. ASSUME NEW p \in Pins, OtherExports(p),
            board = "S", UNCHANGED <<board, test>>
      PROVE  ExportInv'
  BY <1>2 DEF OtherExports, Request, Requestable
<1>3. ASSUME NEW p \in Pins, OtherUnexports(p),
            board = "S", UNCHANGED <<board, test>>
      PROVE  ExportInv'
  BY <1>3 DEF OtherUnexports, Free
<1>4. CASE Start
  BY <1>4 DEF Start
<1>5. CASE ChipGone
  BY <1>5 DEF ChipGone, Ended
<1>6. CASE Exit
  BY <1>6 DEF Exit, Ended, Free
<1>7. CASE EndOfInput
  BY <1>7 DEF EndOfInput, Ended, Free
<1>8. ASSUME NEW op \in Operations, NEW p \in Names, NEW q,
            CommandOn(op, p, q)
      PROVE  ExportInv'
  BY <1>8 DEF CommandOn, Grants, Export, Requestable, Request
<1>9. CASE FileMissing
  BY <1>9 DEF FileMissing, HasFile, Finish
<1>10. CASE GetGpio
  BY <1>10 DEF GetGpio, Opened, Finish, Marked
<1>11. CASE SetGpioMode
  BY <1>11 DEF SetGpioMode, Opened, Finish, Marked, DirectionInput, DirectionOutput
<1>12. CASE SetGpioValue
  BY <1>12 DEF SetGpioValue, Opened, Finish, Marked
<1>13. CASE UNCHANGED <<board, exporter, tpc, command, inUse, badValue>>
  BY <1>13
<1> QED
  BY <1>1, <1>2, <1>3, <1>4, <1>5, <1>6, <1>7, <1>8, <1>9, <1>10, <1>11, <1>12, <1>13, CommandReads DEF
     Step, DriverNext, TestNext, Halted, vars, Load, ModuleStage, ModuleLoaded, Unload,
     ProbeResource, ScanPin, ScanDone, ParamMask, NextParam, ParamRequest, ParamFree,
     Bind, OtherDrives, DirectionOutput, DebugOpen, DebugRelease, DebugIoctl

\* What the IOMUX registers hold.
LEMMA FirmwareStep ==
  TypeOK /\ StageInv /\ ClaimInv /\ FirmwareInv /\ Step => FirmwareInv'
<1> SUFFICES ASSUME TypeOK /\ StageInv /\ ClaimInv /\ FirmwareInv, Step PROVE FirmwareInv'
  OBVIOUS
<1>a. /\ mask \in [Pins -> Modes] /\ iomux \in [Pins -> Functions]
      /\ todo \subseteq Pins /\ held \subseteq SetOf(Resources)
  BY DEF TypeOK
<1>b. probe \in {"none", "failed"} => held = {}
  BY DEF StageInv, AllOrNothing
<1>c. probe = "mapping" => "chip" \notin held
  BY DEF StageInv
<1>d. probe \in {"scan", "params", "bound"} => "chip" \in held
  BY DEF StageInv, AllOrNothing, SetOf, Resources
<1>e. /\ probe = "params" => param \in DOMAIN Params /\ todo = {}
      /\ life = "out" => held = {}
  BY DEF ClaimInv, StageInv, AllOrNothing
<1> USE <1>a, <1>b, <1>c, <1>d, <1>e, ParamsType DEF FirmwareInv, driver, module, probing, regs,
        users, test
<1>1. ASSUME NEW c \in BOOLEAN, Load(c) PROVE FirmwareInv'
  BY <1>1 DEF Load
<1>2. CASE Unload
  BY <1>2 DEF Unload
<1>3. CASE ProbeResource
  BY <1>3 DEF ProbeResource
<1>4. CASE ScanPin
  BY <1>4 DEF ScanPin
<1>5. CASE ParamMask
  BY <1>5 DEF ParamMask, NextParam
<1>6. CASE ParamRequest
  BY <1>6 DEF ParamRequest, NextParam
<1>7. CASE Unbind
  BY <1>7 DEF Unbind
<1>8. ASSUME NEW p \in Pins, OtherExports(p) PROVE FirmwareInv'
  BY <1>8 DEF OtherExports, Request, Requestable
<1>9. ASSUME NEW op \in Operations, NEW p \in Names, NEW q,
            CommandOn(op, p, q)
      PROVE  FirmwareInv'
  BY <1>9 DEF CommandOn, Grants, Export, Requestable, Request
<1>10. CASE UNCHANGED <<iomux, firmware, early, held, todo, mask>>
  BY <1>10
<1> QED
  BY <1>1, <1>2, <1>3, <1>4, <1>5, <1>6, <1>7, <1>8, <1>9, <1>10, CommandReads DEF Step, DriverNext,
     TestNext, Halted, vars, ModuleStage, ModuleLoaded, ScanDone, ParamFree, NextParam,
     Bind, OtherDrives, DirectionOutput, OtherUnexports, Free, DebugOpen, DebugRelease,
     DebugIoctl, Start, ChipGone, Ended, Exit, EndOfInput, FileMissing, Finish, GetGpio,
     Opened, Marked, SetGpioMode, DirectionInput, SetGpioValue

\* The mode of a pin, once its parameter is applied.
LEMMA ModeStep ==
  TypeOK /\ StageInv /\ ClaimInv /\ ExportInv /\ ModeInv /\ Step => ModeInv'
<1> SUFFICES ASSUME TypeOK /\ StageInv /\ ClaimInv /\ ExportInv /\ ModeInv, Step PROVE ModeInv'
  OBVIOUS
<1>a. mask \in [Pins -> Modes] /\ outEn \in [Pins -> BOOLEAN]
  BY DEF TypeOK
<1>b. /\ probe # "none" => life # "out" /\ have = SetOf(Stages)
      /\ life = "live" => have \in {{}, SetOf(Stages)}
  BY DEF StageInv, AllOrNothing, SetOf, Stages
<1>c. /\ probe = "params" => param \in DOMAIN Params
      /\ probe # "params" => step = "mask"
  BY DEF ClaimInv
<1> USE <1>a, <1>b, <1>c, ParamsType DEF ModeInv, RESV, ANY, INPUT, OUTPUT, driver, module,
        probing, regs, users, test
<1>1. ASSUME NEW c \in BOOLEAN, Load(c) PROVE ModeInv'
  <2>1. probe = "none" /\ probe' = "none"
    BY <1>1 DEF Load
  <2>2. \A p \in Pins : mask'[p] \in {RESV, ANY}
    BY <1>1 DEF Load, DefaultMask
  <2> QED
    BY <2>2
<1>2. CASE ModuleStage
  <2>1. Cardinality(have) < 6
    BY <1>2 DEF ModuleStage, Stages
  <2>2. probe = "none"
    BY <2>1, StageSets, Counted
  <2>3. UNCHANGED <<mask, outEn, skipped>>
    BY <1>2 DEF ModuleStage
  <2> QED
    BY <2>2, <2>3
<1>3. CASE Unload
  BY <1>3 DEF Unload
<1>4. CASE ProbeResource
  BY <1>4 DEF ProbeResource
<1>5. CASE ScanPin
  BY <1>5 DEF ScanPin
<1>6. CASE ScanDone
  BY <1>6 DEF ScanDone
<1>7. CASE ParamMask
  BY <1>7 DEF ParamMask, NextParam
<1>8. CASE ParamRequest
  <2> DEFINE p == Params[param].pin
  <2>1. probe = "params" /\ step = "request" /\ p \in Pins /\ UNCHANGED mask
    BY <1>8 DEF ParamRequest
  <2>2. CASE claim[p] = "none" /\ mask[p] # RESV
    <3> DEFINE v == IF mask[p] = ANY THEN outEn[p] ELSE mask[p] = OUTPUT
    <3>1. outEn' = [outEn EXCEPT ![p] = v] /\ skipped' = skipped \ {p}
      BY <1>8, <2>2, Zenon DEF ParamRequest
    <3>2. v \in BOOLEAN
      BY <2>1, Zenon
    <3>3. (mask[p] = INPUT => ~ v) /\ (mask[p] = OUTPUT => v)
      BY <2>1
    <3> HIDE DEF v
    <3>4. \A q \in Pins : outEn'[q] = IF q = p THEN v ELSE outEn[q]
      BY <2>1, <3>1, <3>2
    <3> QED
      BY <2>1, <3>1, <3>2, <3>3, <3>4
  <2>3. CASE ~ (claim[p] = "none" /\ mask[p] # RESV)
    <3>1. /\ UNCHANGED outEn
          /\ skipped' = IF claim[p] # "none" THEN skipped \cup {p} ELSE skipped
      BY <1>8, <2>3, Zenon DEF ParamRequest
    <3>2. p \in skipped' \/ mask[p] = RESV
      BY <2>3, <3>1
    <3> QED
      BY <2>1, <3>1, <3>2
  <2> QED
    BY <2>2, <2>3
<1>9. CASE ParamFree
  BY <1>9 DEF ParamFree, NextParam
<1>10. CASE Unbind
  BY <1>10 DEF Unbind
<1>11. CASE Bind
  BY <1>11 DEF Bind
<1>12. ASSUME NEW p \in Pins, OtherDrives(p) PROVE ModeInv'
  BY <1>12 DEF OtherDrives, DirectionOutput
<1>13. ASSUME NEW p \in Pins, DebugIoctl(p) PROVE ModeInv'
  BY <1>13 DEF DebugIoctl
<1>14. CASE SetGpioMode
  <2> DEFINE p == command.pin
  <2>1. p \in Pins
    BY <1>14 DEF SetGpioMode, Opened, ExportInv
  <2>2. UNCHANGED <<mask, skipped, probe, step, param>>
    BY <1>14 DEF SetGpioMode, Finish
  <2>3. \/ UNCHANGED outEn
        \/ outEn' = [outEn EXCEPT ![p] = FALSE] /\ mask[p] # OUTPUT
        \/ outEn' = [outEn EXCEPT ![p] = TRUE] /\ mask[p] # INPUT
    BY <1>14, <2>1, Zenon DEF SetGpioMode, DirectionInput, DirectionOutput
  <2> QED
    BY <2>1, <2>2, <2>3
<1>15. CASE UNCHANGED <<mask, outEn, skipped, probe, step, param>>
  BY <1>15
<1> QED
  BY <1>1, <1>2, <1>3, <1>4, <1>5, <1>6, <1>7, <1>8, <1>9, <1>10, <1>11, <1>12, <1>13, <1>14,
     <1>15 DEF Step, DriverNext, TestNext, Halted, vars, ModuleLoaded, OtherExports,
     Request, Requestable, OtherUnexports, Free, DebugOpen, DebugRelease, Start,
     ChipGone, Ended, Exit, EndOfInput, CommandExport, Grants, Export, FileMissing, Finish,
     GetGpio, Opened, Marked, SetGpioValue

\* The function of a GPIO is no alternate function, but for the error of the table.
LEMMA NoAlternate == \A p : GpioFunction(p) \in Alternate(p) => p = 77
BY Zenon DEF Alternate

\* The entries that are written for another pin than they belong to.
LEMMA EntryOf ==
  \A p \in Pins :
    MaskEntry(p) = p \/ (p = 69 /\ MaskEntry(p) = 68) \/ (p = 130 /\ MaskEntry(p) = 86)
<1>1. MaskEntry(69) = 68 /\ MaskEntry(130) = 86
  BY DEF MaskEntry
<1>2. \A p \in Int : p # 69 /\ p # 130 => MaskEntry(p) = p
  BY DEF MaskEntry
<1> QED
  <2>1. \A p \in Pins : p \in Int
    BY GpioAssumption
  <2> QED
    BY <1>1, <1>2, <2>1

\* What keeps a pin from programs once it is in the table.
TableInv ==
  \A p \in Pins : mask[p] = RESV /\ p \in Available =>
    \/ firmware[p] \in Alternate(p)
    \/ p = 68 /\ 69 \in Pins /\ firmware[69] \in Alternate(69)
    \/ p = 77 /\ iomux[p] = GpioFunction(p)
    \/ \E i \in DOMAIN Params : Params[i].pin = p /\ Params[i].mode = RESV

LEMMA FollowsParts == FirmwareInv /\ TableInv => MaskFollowsFirmware
BY DEF FirmwareInv, TableInv, MaskFollowsFirmware

\* The table changes by the scan and by the parameters alone.
LEMMA TableStep ==
  TypeOK /\ ClaimInv /\ FirmwareInv /\ TableInv /\ Step => TableInv'
<1> SUFFICES ASSUME TypeOK /\ ClaimInv /\ FirmwareInv /\ TableInv, Step PROVE TableInv'
  OBVIOUS
<1>a. /\ mask \in [Pins -> Modes] /\ iomux \in [Pins -> Functions]
      /\ todo \subseteq Pins
  BY DEF TypeOK
<1>b. probe = "params" => param \in DOMAIN Params
  BY DEF ClaimInv
<1> USE <1>a, <1>b, ParamsType DEF TableInv, driver, module, probing, regs, users, test
<1>1. ASSUME NEW c \in BOOLEAN, Load(c) PROVE TableInv'
  BY <1>1 DEF Load, DefaultMask, RESV, ANY
<1>2. CASE ScanPin
  <2>1. UNCHANGED <<iomux, firmware>>
    BY <1>2 DEF ScanPin
  <2>2. PICK p \in todo : mask' = IF iomux[p] \in Alternate(p) /\ MaskEntry(p) \in Pins
                                  THEN [mask EXCEPT ![MaskEntry(p)] = RESV] ELSE mask
    BY <1>2 DEF ScanPin
  <2>3. CASE ~ (iomux[p] \in Alternate(p) /\ MaskEntry(p) \in Pins)
    BY <2>1, <2>2, <2>3
  <2>4. CASE iomux[p] \in Alternate(p) /\ MaskEntry(p) \in Pins
    <3> DEFINE e == MaskEntry(p)
    <3>1. \A q \in Pins \ {e} : mask'[q] = mask[q]
      BY <2>2, <2>4
    <3>2. p \in Pins /\ iomux[p] \in {firmware[p], GpioFunction(p)}
      BY DEF FirmwareInv
    <3>3. firmware[p] \in Alternate(p) \/ (p = 77 /\ iomux[p] = GpioFunction(p))
      <4>1. CASE iomux[p] = firmware[p]
        <5>1. iomux[p] \in Alternate(p)
          BY <2>4
        <5> QED
          BY <4>1, <5>1
      <4>2. CASE iomux[p] = GpioFunction(p)
        BY <2>4, <4>2, NoAlternate
      <4> QED
        BY <3>2, <4>1, <4>2
    <3>4. e = p \/ (p = 69 /\ e = 68) \/ (p = 130 /\ e = 86)
      BY <3>2, EntryOf
    <3>5. 86 \notin Available
      BY DEF Available
    <3>6. e \in Available =>
            \/ firmware[e] \in Alternate(e)
            \/ e = 68 /\ 69 \in Pins /\ firmware[69] \in Alternate(69)
            \/ e = 77 /\ iomux[e] = GpioFunction(e)
      BY <3>2, <3>3, <3>4, <3>5
    <3> QED
      BY <2>1, <3>1, <3>6
  <2> QED
    BY <2>3, <2>4
<1>3. CASE ParamMask
  BY <1>3 DEF ParamMask, NextParam
<1>4. CASE ParamRequest
  BY <1>4 DEF ParamRequest, NextParam
<1>5. ASSUME NEW p \in Pins, OtherExports(p) PROVE TableInv'
  BY <1>5 DEF OtherExports, Request, Requestable
<1>6. ASSUME NEW op \in Operations, NEW p \in Names, NEW q,
            CommandOn(op, p, q)
      PROVE  TableInv'
  BY <1>6 DEF CommandOn, Grants, Export, Requestable, Request
<1>7. CASE UNCHANGED <<iomux, firmware, mask>>
  BY <1>7
<1> QED
  BY <1>1, <1>2, <1>3, <1>4, <1>5, <1>6, <1>7, CommandReads DEF Step, DriverNext, TestNext, Halted, vars,
     ModuleStage, ModuleLoaded, Unload, ProbeResource, ScanDone, ParamFree, NextParam,
     Unbind, Bind, OtherDrives, DirectionOutput, OtherUnexports, Free, DebugOpen,
     DebugRelease, DebugIoctl, Start, ChipGone, Ended, Exit, EndOfInput, FileMissing, Finish,
     GetGpio, Opened, Marked, SetGpioMode, DirectionInput,
     SetGpioValue

\* IInv is inductive.
LEMMA InitIInv == Init => IInv
<1> SUFFICES ASSUME Init PROVE IInv
  OBVIOUS
<1> USE DEF Init, DriverInit
<1>1. TypeOK
  <2>1. mask \in [Pins -> Modes]
    BY DEF DefaultMask, Modes, RESV, ANY
  <2>2. firmware \in [Pins -> Functions] /\ iomux = firmware
    BY GpioAssumption
  <2>3. command \in [op : Operations \cup {"none"}, pin : Names]
    BY DEF NoCommand, Names
  <2>4. board \in {"S", "A", "V"} /\ binds \in 0 .. MaxBinds /\ param \in 0 .. Len(Params) + 1
    BY ParamsType, GpioAssumption, BoardsAssumption
  <2>5. /\ claim \in [Pins -> {"none", "driver", "sysfs"}] /\ outEn \in [Pins -> BOOLEAN]
        /\ exporter \in [Pins -> {"none", "test", "astray", "other"}]
    OBVIOUS
  <2>6. LifeOK
    BY <2>4 DEF LifeOK, Probes
  <2> QED
    BY <2>1, <2>2, <2>3, <2>4, <2>5, <2>6 DEF TypeOK, LifeOK
<1>2. StageInv
  BY StageSets DEF StageInv, AllOrNothing
<1>3. ClaimInv
  BY DEF ClaimInv
<1>4. FirmwareInv /\ TableInv
  BY DEF FirmwareInv, TableInv, DefaultMask, RESV, ANY
<1>5. ModeInv
  BY DEF ModeInv, DefaultMask, RESV, ANY, INPUT, OUTPUT
<1>6. ExportInv
  BY DEF ExportInv
<1> QED
  BY <1>1, <1>2, <1>3, <1>4, <1>5, <1>6, FollowsParts DEF IInv

LEMMA NextIInv == IInv /\ [Next]_vars => IInv'
<1> SUFFICES ASSUME IInv, [Next]_vars PROVE IInv'
  OBVIOUS
<1>1. Step
  BY DEF Next, Halted, Step
<1>2. TypeOK /\ StageInv /\ ClaimInv /\ FirmwareInv /\ TableInv /\ ModeInv /\ ExportInv
  BY DEF IInv, TableInv, MaskFollowsFirmware
<1>3. LifeOK' /\ PinsOK' /\ TestOK' /\ FlagsOK'
  BY <1>1, <1>2, TypeParts, LifeTypes, PinTypes, TestTypes, FlagTypes
<1>4. TypeOK'
  BY <1>3 DEF TypeOK, LifeOK, PinsOK, TestOK, FlagsOK
<1>5. StageInv' /\ ClaimInv' /\ FirmwareInv' /\ TableInv' /\ ModeInv' /\ ExportInv'
  BY <1>1, <1>2, StageStep, ClaimStep, FirmwareStep, TableStep, ModeStep, ExportStep
<1>6. MaskFollowsFirmware'
  BY <1>5 DEF FirmwareInv, TableInv, MaskFollowsFirmware
<1> QED
  BY <1>4, <1>5, <1>6 DEF IInv

----------------------------------------------------------------------------
(* Theorems *)

\* The inductive invariant, for any pins, firmware, parameters and number of probes.
THEOREM Invariance == Spec => []IInv
BY InitIInv, NextIInv, PTL DEF Spec

\* The variables of the driver and of the program keep their types.
THEOREM TypeCorrect == Spec => []TypeOK
<1>1. IInv => TypeOK
  BY DEF IInv
<1> QED
  BY Invariance, <1>1, PTL

\* A load or a probe that fails takes back all it has registered, and a module that stays has
\* registered everything or nothing: the labels of amd_gpio_init_module and amd_gpio_init.
THEOREM FailureIsUndone == Spec => []AllOrNothing
<1>1. IInv => AllOrNothing
  BY DEF IInv, StageInv
<1> QED
  BY Invariance, <1>1, PTL

\* A pin that the firmware gave to another function keeps it, but for pins requested before the
\* scan of the IOMUX came to them and the entries of the table that are written for another pin.
THEOREM FirmwareIsObeyed == Spec => []MaskFollowsFirmware
<1>1. IInv => MaskFollowsFirmware
  BY DEF IInv
<1> QED
  BY Invariance, <1>1, PTL

\* Whatever is requested, driven and released, once the probe is over a pin that a parameter
\* made an input does not drive and one that it made an output does.
THEOREM ModesAreKept == Spec => []ModesHold
<1>1. IInv => ModesHold
  BY DEF IInv, ModeInv, ModesHold
<1> QED
  BY Invariance, <1>1, PTL

\* At its end the program has unexported the pins it exported, but for those that went astray
\* by a number read in two ways and those that the programs of the other boards do not find.
THEOREM PinsAreFreed == Spec => []ExitFreesPins
<1>1. IInv => ExitFreesPins
  BY DEF IInv, ExportInv, Unfindable, ExitFreesPins
<1> QED
  BY Invariance, <1>1, PTL
=============================================================================
