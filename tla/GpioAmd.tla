------------------------------ MODULE GpioAmd ------------------------------
(***************************************************************************)
(* The GPIO driver of the Steppe Eagle boards (gpio-amd.c): the life of    *)
(* the module and of its platform device, the table of reserved pins, the  *)
(* pin operations it gives to the GPIO core, and its debug device node.    *)
(*                                                                         *)
(* The driver registers its chip first and reads afterwards which pins the *)
(* firmware has given to another function, so that programs can ask for a  *)
(* pin while the table is being filled in.  Every access to a pin is under *)
(* the chip's lock and is one step; the table is written without the lock. *)
(***************************************************************************)
EXTENDS Naturals, FiniteSets, Sequences

CONSTANTS
  Pins,       \* the pins of the instance, numbered as in the data sheet
  Firmware,   \* the IOMUX functions the firmware may have selected
  Params,     \* module parameters gpio_mask and gpio_mode, as pin/mode pairs
  MaxBinds    \* bound: how often the platform device is probed

\* The modes of a pin: the table mask[] holds one for each.
RESV == 0
ANY == 1
INPUT == 2
OUTPUT == 3
Modes == {RESV, ANY, INPUT, OUTPUT}

Functions == 0 .. 3    \* the value of a pin's IOMUX register

ASSUME GpioAssumption ==
  /\ Pins \subseteq 0 .. 183 /\ IsFiniteSet(Pins)
  /\ Firmware \subseteq Functions /\ Firmware # {}
  /\ Params \in Seq([pin : Pins, mode : Modes])
  /\ MaxBinds \in Nat

\* mask[] as it is compiled in.
Available ==
  {10, 19, 20} \cup (26 .. 31) \cup {35} \cup (64 .. 71) \cup {72, 73, 76, 77}
    \cup {84, 85, 87, 88, 91, 93, 115, 116, 130}

DefaultMask == [p \in Pins |-> IF p \in Available THEN ANY ELSE RESV]

\* The function amd_gpio_request selects to make a pin a GPIO.
GpioFunction(p) ==
  CASE p \in {10, 72, 73, 76} -> 0
    [] p \in {35, 64, 65, 66, 71, 93, 115, 116} -> 2
    [] p \in {67, 70} -> 3
    [] OTHER -> 1

\* The functions that amd_update_gpio_mask takes for an alternate function
\* of a pin; a pin that is not available to begin with is not looked at.
\* Pin 77 is treated like its neighbours 72, 73 and 76.
Alternate(p) ==
  IF p \notin Available THEN {}
  ELSE Functions \ {IF p = 77 THEN 0 ELSE GpioFunction(p)}

\* The entry of mask[] that the branch for a pin writes.
MaskEntry(p) == CASE p = 69 -> 68 [] p = 130 -> 86 [] OTHER -> p

VARIABLES
  life,       \* of the module: out, init (amd_gpio_init_module runs), live
  have,       \* what the module has registered, a set of Stages
  probe,      \* of the platform device: see Probes
  held,       \* what the probe holds, a set of Resources
  todo,       \* the pins the scan of the IOMUX has still to look at
  param,      \* the module parameter the probe is at, 0: none is applied
  step,       \* what it does with it: mask, request, free
  mask,       \* mask[]
  iomux,      \* the IOMUX register of each pin
  outEn,      \* AMD_GPIO_OUTPUT_ENABLE in the register of each pin
  claim,      \* who has requested a pin: none, driver, sysfs
  exporter,   \* the program that exported it through sysfs: none, test, other;
              \* astray: gpio-test did, in a command that names another pin
  debug,      \* the debug node is open
  binds,      \* how often the device was probed
  crashed,    \* a pointer that does not point at anything was followed
  firmware,   \* (history) the functions selected at power-on
  early,      \* (history) pins requested before they were scanned
  skipped     \* (history) parameters not applied: the pin was in use

regs == <<iomux, outEn>>
users == <<claim, exporter, early>>
module == <<life, have, debug, binds, crashed, firmware>>
probing == <<probe, held, todo, param, step, skipped>>
driver == <<module, probing, regs, users, mask>>

Stages == <<"driver", "chrdev", "class", "device", "cdev", "pdev">>
Resources == <<"gpio_region", "gpio_map", "iomux_region", "iomux_map", "chip">>
Probes == {"none", "mapping", "scan", "params", "bound", "failed"}
SetOf(s) == {s[i] : i \in DOMAIN s}

DriverInit ==
  /\ life = "out" /\ have = {} /\ debug = FALSE /\ binds = 0 /\ crashed = FALSE
  /\ probe = "none" /\ held = {} /\ todo = {} /\ param = 1 /\ step = "mask"
  /\ mask = DefaultMask
  /\ firmware \in {f \in [Pins -> Firmware] : \A p \in Pins \ Available : f[p] = 0}
  /\ iomux = firmware
  /\ outEn = [p \in Pins |-> FALSE]
  /\ claim = [p \in Pins |-> "none"] /\ exporter = [p \in Pins |-> "none"]
  /\ early = {} /\ skipped = {}

----------------------------------------------------------------------------
(* Loading and unloading the module *)

\* A module that is loaded starts with its data as compiled.  It may be given
\* as many modes as pins, or not: then the parameters are not applied.
Load(counted) ==
  /\ life = "out" /\ ~ debug /\ binds < MaxBinds
  /\ life' = "init" /\ mask' = DefaultMask /\ probe' = "none"
  /\ param' = (IF counted THEN 1 ELSE 0) /\ skipped' = {}
  /\ UNCHANGED <<have, debug, binds, crashed, firmware, held, todo, step, regs, users>>

\* Faulty variant: a failure of cdev_add goes to the label after its own.
UndoneAtSkips(stage) ==
  CASE stage = "driver" -> {}
    [] stage = "chrdev" -> {"driver"}
    [] stage = "class"  -> {"driver", "chrdev"}
    [] stage = "device" -> {"driver", "chrdev", "class"}
    [] stage = "cdev"   -> {"driver", "chrdev", "class"}
    [] stage = "pdev"   -> {"driver", "chrdev", "class", "device", "cdev"}

\* The stages of amd_gpio_init_module that the labels after its return undo.
UndoneAt(stage) ==
  CASE stage = "driver" -> {}
    [] stage = "chrdev" -> {"driver"}
    [] stage = "class"  -> {"driver", "chrdev"}
    [] stage = "device" -> {"driver", "chrdev", "class"}
    [] stage = "cdev"   -> {"driver", "chrdev", "class", "device"}
    [] stage = "pdev"   -> {"driver", "chrdev", "class", "device", "cdev"}

\* The error is left at 0 when class_create or device_create fails: the
\* module stays loaded with everything taken back.
ReturnsError(stage) == stage \notin {"class", "device"}

ModuleStage ==
  /\ life = "init" /\ Len(Stages) > Cardinality(have)
  /\ LET stage == Stages[Cardinality(have) + 1]
     IN \/ /\ have' = have \cup {stage}
           /\ UNCHANGED life
           /\ IF stage = "pdev"
              THEN probe' = "mapping" /\ binds' = binds + 1
              ELSE UNCHANGED <<probe, binds>>
        \/ /\ have' = have \ UndoneAt(stage)
           /\ life' = IF ReturnsError(stage) THEN "out" ELSE "live"
           /\ UNCHANGED <<probe, binds>>
  /\ UNCHANGED <<debug, crashed, firmware, held, todo, param, step, skipped,
                 regs, users, mask>>

\* The platform device is registered whether or not its probe succeeded.
ModuleLoaded ==
  /\ life = "init" /\ have = SetOf(Stages) /\ probe \in {"bound", "failed"}
  /\ life' = "live"
  /\ UNCHANGED <<have, debug, binds, crashed, firmware, probing, regs, users, mask>>

\* rmmod: refused while the node is open or a pin is requested.  Without a
\* class amd_gpio_cleanup_module follows a pointer that leads nowhere.
Unload ==
  /\ life = "live" /\ ~ debug /\ \A p \in Pins : claim[p] = "none"
  /\ probe \notin {"mapping", "scan", "params"}
  /\ IF have = {}
     THEN crashed' = TRUE /\ UNCHANGED <<life, have, probe, held>>
     ELSE /\ life' = "out" /\ have' = {} /\ probe' = "none" /\ held' = {}
          /\ UNCHANGED crashed
  /\ UNCHANGED <<debug, binds, firmware, todo, param, step, skipped, regs, users, mask>>

----------------------------------------------------------------------------
(* Probe and remove of the platform device *)

\* What the labels of amd_gpio_init release when a resource is not to be had.
ReleasedAt(r) ==
  CASE r = "gpio_region"  -> {}
    [] r = "gpio_map"     -> {"gpio_region"}
    [] r = "iomux_region" -> {"gpio_region", "gpio_map"}
    [] r = "iomux_map"    -> {"gpio_region", "gpio_map", "iomux_region"}
    [] r = "chip"         -> {"gpio_region", "gpio_map", "iomux_region", "iomux_map"}

\* The regions, the mappings, then the chip: from there on programs see it.
ProbeResource ==
  /\ probe = "mapping"
  /\ LET r == Resources[Cardinality(held) + 1]
     IN \/ /\ held' = held \cup {r}
           /\ IF r = "chip"
              THEN probe' = "scan" /\ todo' = Pins
              ELSE UNCHANGED <<probe, todo>>
        \/ /\ held' = held \ ReleasedAt(r)
           /\ probe' = "failed" /\ UNCHANGED todo
  /\ UNCHANGED <<module, param, step, skipped, regs, users, mask>>

\* amd_update_gpio_mask, one pin.
ScanPin ==
  /\ probe = "scan"
  /\ \E p \in todo :
       /\ \A q \in todo : p <= q
       /\ todo' = todo \ {p}
       /\ mask' = IF iomux[p] \in Alternate(p) /\ MaskEntry(p) \in Pins
                  THEN [mask EXCEPT ![MaskEntry(p)] = RESV]
                  ELSE mask
  /\ UNCHANGED <<module, probe, held, param, step, skipped, regs, users>>

\* The parameters are looked at when there are as many masks as modes.
ScanDone ==
  /\ probe = "scan" /\ todo = {}
  /\ probe' = IF param = 1 /\ Params # << >> THEN "params" ELSE "bound"
  /\ UNCHANGED <<module, held, todo, param, step, skipped, regs, users, mask>>

NextParam ==
  /\ step' = "mask"
  /\ IF param < Len(Params)
     THEN param' = param + 1 /\ UNCHANGED probe
     ELSE param' = 1 /\ probe' = "bound"

\* The mode is entered in the table first, without the lock.
ParamMask ==
  /\ probe = "params" /\ step = "mask"
  /\ IF mask[Params[param].pin] # RESV
     THEN /\ mask' = [mask EXCEPT ![Params[param].pin] = Params[param].mode]
          /\ step' = "request" /\ UNCHANGED <<param, probe>>
     ELSE NextParam /\ UNCHANGED mask
  /\ UNCHANGED <<module, held, todo, skipped, regs, users>>

\* gpio_request and the direction that goes with the mode.
ParamRequest ==
  /\ probe = "params" /\ step = "request"
  /\ LET p == Params[param].pin
     IN IF claim[p] = "none" /\ mask[p] # RESV
        THEN /\ claim' = [claim EXCEPT ![p] = "driver"]
             /\ iomux' = [iomux EXCEPT ![p] = GpioFunction(p)]
             /\ outEn' = [outEn EXCEPT ![p] =
                            IF mask[p] = ANY THEN @ ELSE mask[p] = OUTPUT]
             /\ skipped' = skipped \ {p}
             /\ step' = "free" /\ UNCHANGED <<param, probe>>
        ELSE /\ skipped' = IF claim[p] # "none" THEN skipped \cup {p} ELSE skipped
             /\ NextParam /\ UNCHANGED <<claim, regs>>
  /\ UNCHANGED <<module, held, todo, exporter, early, mask>>

ParamFree ==
  /\ probe = "params" /\ step = "free"
  /\ claim' = [claim EXCEPT ![Params[param].pin] = "none"]
  /\ NextParam
  /\ UNCHANGED <<module, held, todo, skipped, regs, exporter, early, mask>>

\* The device is taken from the driver: amd_gpio_remove.  The GPIO core drops
\* the exported pins together with the chip; mask[] stays as it is.
Unbind ==
  /\ probe = "bound" /\ life = "live"
  /\ probe' = "none" /\ held' = {}
  /\ claim' = [p \in Pins |-> "none"] /\ exporter' = [p \in Pins |-> "none"]
  /\ UNCHANGED <<module, todo, param, step, skipped, regs, early, mask>>

Bind ==
  /\ probe \in {"none", "failed"} /\ life = "live" /\ "pdev" \in have
  /\ binds < MaxBinds
  /\ binds' = binds + 1 /\ probe' = "mapping"
  /\ UNCHANGED <<life, have, debug, crashed, firmware, held, todo, param, step,
                 skipped, regs, users, mask>>

----------------------------------------------------------------------------
(* The pin operations, as the GPIO core calls them for a program *)

\* Faulty variant: the table is not asked.
RequestableAny(p) == "chip" \in held /\ claim[p] = "none"

\* amd_gpio_request.  It does not touch AMD_GPIO_OUTPUT_ENABLE.
Requestable(p) == "chip" \in held /\ claim[p] = "none" /\ mask[p] # RESV

Request(p, program) ==
  /\ Requestable(p)
  /\ claim' = [claim EXCEPT ![p] = "sysfs"]
  /\ exporter' = [exporter EXCEPT ![p] = program]
  /\ iomux' = [iomux EXCEPT ![p] = GpioFunction(p)]
  /\ early' = IF p \in todo THEN early \cup {p} ELSE early
  /\ UNCHANGED outEn

\* gpio_free: the driver has no free operation, the registers stay.
Free(ps) ==
  /\ claim' = [p \in Pins |-> IF p \in ps /\ exporter[p] # "none" THEN "none" ELSE claim[p]]
  /\ exporter' = [p \in Pins |-> IF p \in ps THEN "none" ELSE exporter[p]]
  /\ UNCHANGED <<early, regs>>

\* amd_gpio_direction_input and amd_gpio_direction_output.
DirectionInput(p) ==
  outEn' = IF mask[p] = OUTPUT THEN outEn ELSE [outEn EXCEPT ![p] = FALSE]

\* Faulty variant: the mode of the pin is not looked at.
DirectionOutputAny(p) == outEn' = [outEn EXCEPT ![p] = TRUE]

DirectionOutput(p) ==
  outEn' = IF mask[p] = INPUT THEN outEn ELSE [outEn EXCEPT ![p] = TRUE]

\* Another program than gpio-test exports a pin, drives it or gives it up.
OtherExports(p) ==
  /\ Request(p, "other")
  /\ UNCHANGED <<module, probing, mask>>

OtherDrives(p) ==
  /\ exporter[p] = "other"
  /\ DirectionOutput(p)
  /\ UNCHANGED <<module, probing, iomux, users, mask>>

OtherUnexports(p) ==
  /\ exporter[p] = "other"
  /\ Free({p})
  /\ UNCHANGED <<module, probing, mask>>

----------------------------------------------------------------------------
(* The debug node gpio_test_driver *)

DebugOpen ==
  /\ "cdev" \in have /\ ~ debug
  /\ debug' = TRUE
  /\ UNCHANGED <<life, have, binds, crashed, firmware, probing, regs, users, mask>>

\* A module whose load failed is gone although the node is open.
DebugRelease ==
  /\ debug /\ debug' = FALSE
  /\ crashed' = (life = "out")
  /\ UNCHANGED <<life, have, binds, firmware, probing, regs, users, mask>>

\* gpio_test_ioctl: amd_gpio_swctrlin and amd_gpio_swctrlen turn the output of
\* a pin off, whoever has requested it, and whether or not there is a chip.
DebugIoctl(p) ==
  /\ debug /\ mask[p] \notin {RESV, OUTPUT}
  /\ IF "gpio_map" \in held
     THEN outEn' = [outEn EXCEPT ![p] = FALSE] /\ UNCHANGED crashed
     ELSE crashed' = TRUE /\ UNCHANGED outEn
  /\ UNCHANGED <<life, have, debug, binds, firmware, probing, iomux, users, mask>>

DriverNext ==
  \/ (\E counted \in BOOLEAN : Load(counted)) \/ ModuleStage \/ ModuleLoaded \/ Unload
  \/ ProbeResource \/ ScanPin \/ ScanDone
  \/ ParamMask \/ ParamRequest \/ ParamFree
  \/ Unbind \/ Bind
  \/ \E p \in Pins : OtherExports(p) \/ OtherDrives(p) \/ OtherUnexports(p)
  \/ DebugOpen \/ DebugRelease \/ (\E p \in Pins : DebugIoctl(p))

============================================================================
