----------------------------- MODULE SpiromDevice -----------------------------
(***************************************************************************)
(* The life of a struct spirom_data (spirom.c): allocated by spirom_probe, *)
(* found on device_list by spirom_open, freed by whichever of spirom_remove*)
(* and the last spirom_release comes last; and the life of the spirom      *)
(* module and of the SPI device it adds to the bus in spirom_init.         *)
(*                                                                         *)
(* The module comes in two forms.  The one of the Falcon keeps the pointer *)
(* to the device it added and unregisters it on exit, the other ("plain":  *)
(* Steppe Eagle, Snowy Owl, V1000) leaves the device on the bus.           *)
(*                                                                         *)
(* What the code does after it has used freed memory is undefined: such a  *)
(* step sets corrupt, and the model stops there.                           *)
(*                                                                         *)
(* Everything done under device_list_lock is one step, and so is what is   *)
(* done under spi_lock outside it.  The calls to the IMC at the end of open*)
(* and release (Falcon, Steppe Eagle) touch nothing of this state.         *)
(*                                                                         *)
(* An ioctl that leaves after its second, or on the token of another       *)
(* message, leaves its message with the controller, and the message refers *)
(* to spirom->done: late holds the structures that are referred to so.     *)
(* How the ioctl comes to leave early is SpiTransport's subject; here it   *)
(* may do so whenever the controller's thread could still complete.        *)
(***************************************************************************)
EXTENDS Integers, FiniteSets

CONSTANTS
  Fds,       \* file descriptors user space may open
  MaxObjs,   \* bound: how many spirom_data are ever allocated
  Variants   \* the forms of the module to consider

ASSUME SpiromDeviceAssumption ==
  /\ IsFiniteSet(Fds)
  /\ MaxObjs \in Nat
  /\ Variants \subseteq {"plain", "falcon"}

Objs == 1 .. MaxObjs
NoObj == 0

VARIABLES
  variant,   \* the form of the module, fixed
  heap,      \* each structure: "unused", "live" or "freed"
  attached,  \* structures with spirom->spi # NULL
  users,     \* spirom->users
  devList,   \* device_list
  drvdata,   \* spi_get_drvdata of the SPI device; NoObj: not bound to spirom
  fdObj,     \* filp->private_data of each descriptor; NoObj: not open
  inIoctl,   \* descriptors inside spirom_ioctl, past its first check
  sending,   \* those of them whose message the controller holds
  late,      \* structures a message refers to whose ioctl has returned
  mod,       \* the spirom module
  dev,       \* the SPI device at bus 0, chip select 1, is registered
  saved,     \* the static spirom_device of the Falcon
  master,    \* the controller is registered
  task,      \* what removes the device: "controller", "exit", "init" or "none"
  step,      \* how far it has come
  rmObj,     \* the structure spirom_remove is at work on
  corrupt    \* freed memory has been used

objVars  == <<heap, attached, users, devList, drvdata>>
fdVars   == <<fdObj, inIoctl>>
msgVars  == <<sending, late>>
modVars  == <<mod, dev, saved, master>>
taskVars == <<task, step, rmObj>>
vars == <<variant, objVars, fdVars, msgVars, modVars, taskVars, corrupt>>

TypeOK ==
  /\ variant \in Variants
  /\ heap \in [Objs -> {"unused", "live", "freed"}]
  /\ attached \in SUBSET Objs
  /\ users \in [Objs -> Nat]
  /\ devList \in SUBSET Objs
  /\ drvdata \in Objs \cup {NoObj}
  /\ fdObj \in [Fds -> Objs \cup {NoObj}]
  /\ inIoctl \in SUBSET Fds
  /\ sending \in SUBSET Fds
  /\ late \in SUBSET Objs
  /\ mod \in {"out", "registering", "in", "hollow"}
  /\ dev \in BOOLEAN
  /\ saved \in {"null", "valid", "dangling"}
  /\ master \in BOOLEAN
  /\ task \in {"none", "controller", "exit", "init"}
  /\ step \in {"clear", "finish", "end"}
  /\ rmObj \in Objs \cup {NoObj}
  /\ corrupt \in BOOLEAN

Init ==
  /\ variant \in Variants
  /\ heap = [o \in Objs |-> "unused"]
  /\ attached = {} /\ devList = {} /\ drvdata = NoObj
  /\ users = [o \in Objs |-> 0]
  /\ fdObj = [f \in Fds |-> NoObj] /\ inIoctl = {} /\ sending = {} /\ late = {}
  /\ mod = "out" /\ dev = FALSE /\ saved = "null" /\ master = FALSE
  /\ task = "none" /\ step = "clear" /\ rmObj = NoObj
  /\ corrupt = FALSE

Openers(o) == {f \in Fds : fdObj[f] = o}
-----------------------------------------------------------------------------
(***************************************************************************)
(* File operations.                                                        *)
(***************************************************************************)

\* The device node leads to spirom_open while the character device is
\* registered; a module that is going away cannot be opened.
Openable == mod \in {"registering", "in"} /\ task # "exit"

\* Faulty variant: an open between the halves of a removal is not counted.
OpenSkipsDetached(f) ==
  /\ Openable /\ fdObj[f] = NoObj
  /\ \E o \in devList :
       /\ heap[o] # "freed"
       /\ users' = IF o \in attached THEN [users EXCEPT ![o] = @ + 1] ELSE users
       /\ fdObj' = [fdObj EXCEPT ![f] = o]
  /\ UNCHANGED <<variant, heap, attached, devList, drvdata, inIoctl,
                 msgVars, modVars, taskVars, corrupt>>

\* Walk device_list for the node's minor; there is only ever minor 0.  An open
\* that finds nothing returns -ENXIO and changes nothing.
Open(f) ==
  /\ Openable /\ fdObj[f] = NoObj
  /\ \E o \in devList :
       IF heap[o] = "freed"
         THEN corrupt' = TRUE /\ UNCHANGED <<users, fdObj>>
         ELSE /\ users' = [users EXCEPT ![o] = @ + 1]
              /\ fdObj' = [fdObj EXCEPT ![f] = o]
              /\ UNCHANGED corrupt
  /\ UNCHANGED <<variant, heap, attached, devList, drvdata, inIoctl,
                 msgVars, modVars, taskVars>>

\* The first check of spirom_ioctl, under spi_lock: with spirom->spi NULL it
\* returns -ESHUTDOWN and changes nothing.
IoctlBegin(f) ==
  /\ fdObj[f] # NoObj /\ f \notin inIoctl
  /\ fdObj[f] \in attached
  /\ inIoctl' = inIoctl \cup {f}
  /\ UNCHANGED <<variant, objVars, fdObj, msgVars, modVars, taskVars, corrupt>>

\* spirom_sync, under spi_lock: with spirom->spi NULL it returns -ESHUTDOWN,
\* else the message is queued.  buf_lock admits one at a time.  What is queued
\* while the controller is being removed, its thread gone, nobody completes.
IoctlSubmit(f) ==
  /\ f \in inIoctl \ sending
  /\ \A g \in sending : fdObj[g] # fdObj[f]
  /\ fdObj[f] \in attached /\ task # "controller"
  /\ sending' = sending \cup {f}
  /\ UNCHANGED <<variant, objVars, fdVars, late, modVars, taskVars, corrupt>>

\* The rest of spirom_ioctl works on the structure up to mutex_unlock.  It may
\* return before its message has been completed.
IoctlEnd(f) ==
  /\ f \in inIoctl
  /\ inIoctl' = inIoctl \ {f} /\ sending' = sending \ {f}
  /\ \/ UNCHANGED late
     \/ f \in sending /\ late' = late \cup {fdObj[f]}
  /\ corrupt' = (heap[fdObj[f]] = "freed")
  /\ UNCHANGED <<variant, objVars, fdObj, modVars, taskVars>>

\* The controller's thread completes a message whose ioctl has returned.
LateComplete(o) ==
  /\ o \in late
  /\ IF heap[o] = "freed"
       THEN corrupt' = TRUE /\ UNCHANGED late
       ELSE late' = late \ {o} /\ UNCHANGED corrupt
  /\ UNCHANGED <<variant, objVars, fdVars, sending, modVars, taskVars>>

\* Faulty variant: every close frees a structure whose device has gone.
ReleaseFreesAlways(f) ==
  /\ fdObj[f] # NoObj /\ f \notin inIoctl
  /\ LET o == fdObj[f] IN
       /\ users' = [users EXCEPT ![o] = @ - 1]
       /\ heap' = IF o \notin attached THEN [heap EXCEPT ![o] = "freed"]
                  ELSE heap
  /\ fdObj' = [fdObj EXCEPT ![f] = NoObj]
  /\ UNCHANGED <<variant, attached, devList, drvdata, inIoctl,
                 msgVars, modVars, taskVars, corrupt>>

\* Faulty variant: the closed file keeps its private_data.
ReleaseKeepsFile(f) ==
  /\ fdObj[f] # NoObj /\ f \notin inIoctl
  /\ LET o == fdObj[f] IN
       /\ users' = [users EXCEPT ![o] = @ - 1]
       /\ heap' = IF users[o] = 1 /\ o \notin attached
                    THEN [heap EXCEPT ![o] = "freed"] ELSE heap
  /\ UNCHANGED <<variant, attached, devList, drvdata, fdVars,
                 msgVars, modVars, taskVars, corrupt>>

\* Faulty variant: the last close never frees.
ReleaseNeverFrees(f) ==
  /\ fdObj[f] # NoObj /\ f \notin inIoctl
  /\ users' = [users EXCEPT ![fdObj[f]] = @ - 1]
  /\ fdObj' = [fdObj EXCEPT ![f] = NoObj]
  /\ UNCHANGED <<variant, heap, attached, devList, drvdata, inIoctl,
                 msgVars, modVars, taskVars, corrupt>>

\* The last close frees the structure when the device has gone.  The kernel
\* calls release once no ioctl on the file is running.
Release(f) ==
  /\ fdObj[f] # NoObj /\ f \notin inIoctl
  /\ LET o == fdObj[f] IN
       /\ users' = [users EXCEPT ![o] = @ - 1]
       /\ heap' = IF users[o] = 1 /\ o \notin attached
                    THEN [heap EXCEPT ![o] = "freed"] ELSE heap
  /\ fdObj' = [fdObj EXCEPT ![f] = NoObj]
  /\ UNCHANGED <<variant, attached, devList, drvdata, inIoctl,
                 msgVars, modVars, taskVars, corrupt>>
-----------------------------------------------------------------------------
(***************************************************************************)
(* spirom_probe, called when the driver and the device meet.               *)
(***************************************************************************)

Probe ==
  \/ \E o \in Objs :
       /\ heap[o] = "unused"
       /\ heap' = [heap EXCEPT ![o] = "live"]
       /\ attached' = attached \cup {o}
       /\ devList' = devList \cup {o}
       /\ drvdata' = o
       /\ UNCHANGED users
  \/ UNCHANGED objVars      \* no memory, no minor, device_create failed

(***************************************************************************)
(* spirom_init.                                                            *)
(***************************************************************************)

\* The character device, the class and the driver are registered; a device
\* that an earlier load left on the bus is probed at once.
InitRegister ==
  /\ mod = "out" /\ task = "none"
  /\ mod' = "registering"
  /\ IF dev /\ drvdata = NoObj THEN Probe ELSE UNCHANGED objVars
  /\ UNCHANGED <<variant, fdVars, msgVars, dev, saved, master, taskVars,
                 corrupt>>

\* spi_register_driver fails: class and character device are taken back, yet
\* the function goes on to add the device and returns what that returns.  If
\* that fails too, everything is taken back a second time.
InitRegisterFails ==
  /\ mod = "out" /\ task = "none"
  /\ mod' = "hollow"
  /\ IF master /\ ~dev
       THEN dev' = TRUE /\ saved' = "valid" /\ UNCHANGED corrupt
       ELSE corrupt' = TRUE /\ UNCHANGED <<dev, saved>>
  /\ UNCHANGED <<variant, objVars, fdVars, msgVars, master, taskVars>>

\* add_spi_device_to_bus: spi_new_device needs the controller and a free chip
\* select.  On failure the driver is unregistered again.
InitAddDevice ==
  /\ mod = "registering" /\ task = "none"
  /\ \/ /\ master /\ ~dev
        /\ dev' = TRUE /\ saved' = "valid" /\ mod' = "in"
        /\ Probe
        /\ UNCHANGED taskVars
     \/ /\ ~(master /\ ~dev)
        /\ task' = "init" /\ step' = "clear"
        /\ UNCHANGED <<objVars, rmObj, dev, saved, mod>>
  /\ UNCHANGED <<variant, fdVars, msgVars, master, corrupt>>
-----------------------------------------------------------------------------
(***************************************************************************)
(* Removal: of the controller (which unregisters its children), of the     *)
(* module, and by a spirom_init that fails.  One at a time.                *)
(***************************************************************************)

ControllerProbe ==
  /\ ~master /\ task # "controller"
  /\ master' = TRUE
  /\ UNCHANGED <<variant, objVars, fdVars, msgVars, mod, dev, saved, taskVars,
                 corrupt>>

\* The removal of the controller begins with the end of its thread.
ControllerRemove ==
  /\ master /\ task = "none"
  /\ task' = "controller" /\ step' = "clear"
  /\ sending' = {} /\ late' = {}
  /\ UNCHANGED <<variant, objVars, fdVars, modVars, rmObj, corrupt>>

\* rmmod spirom: not while a file is open.
ModuleExit ==
  /\ mod \in {"in", "hollow"} /\ task = "none"
  /\ \A f \in Fds : fdObj[f] = NoObj
  /\ task' = "exit" /\ step' = "clear"
  /\ UNCHANGED <<variant, objVars, fdVars, msgVars, modVars, rmObj, corrupt>>

\* spirom_remove, under spi_lock: spirom->spi and the driver data are cleared.
\* A device that is not bound to the driver has no remove to call.
RemoveClear ==
  /\ task # "none" /\ step = "clear"
  /\ attached' = attached \ {drvdata}
  /\ rmObj' = drvdata
  /\ drvdata' = NoObj
  /\ step' = IF drvdata # NoObj THEN "finish" ELSE "end"
  /\ UNCHANGED <<variant, heap, users, devList, fdVars, msgVars, modVars,
                 task, corrupt>>

\* Faulty variant: the structure is freed although files are open.
RemoveFinishFreesAlways ==
  /\ step = "finish"
  /\ IF heap[rmObj] = "freed"
       THEN corrupt' = TRUE /\ UNCHANGED <<objVars, step, rmObj>>
       ELSE /\ devList' = devList \ {rmObj}
            /\ heap' = [heap EXCEPT ![rmObj] = "freed"]
            /\ rmObj' = NoObj
            /\ step' = "end"
            /\ UNCHANGED <<attached, users, drvdata, corrupt>>
  /\ UNCHANGED <<variant, fdVars, msgVars, modVars, task>>

\* Then, under device_list_lock: off the list, and freed if nobody has it
\* open.  If the last close came first, the structure is freed already.
RemoveFinish ==
  /\ step = "finish"
  /\ IF heap[rmObj] = "freed"
       THEN corrupt' = TRUE /\ UNCHANGED <<objVars, step, rmObj>>
       ELSE /\ devList' = devList \ {rmObj}
            /\ heap' = IF users[rmObj] = 0
                         THEN [heap EXCEPT ![rmObj] = "freed"] ELSE heap
            /\ rmObj' = NoObj
            /\ step' = "end"
            /\ UNCHANGED <<attached, users, drvdata, corrupt>>
  /\ UNCHANGED <<variant, fdVars, msgVars, modVars, task>>

\* The controller's children are unregistered and the controller goes.  The
\* Falcon's spirom_device keeps its value.
ControllerGone ==
  /\ task = "controller" /\ step = "end"
  /\ master' = FALSE /\ dev' = FALSE
  /\ saved' = IF dev /\ saved = "valid" THEN "dangling" ELSE saved
  /\ task' = "none" /\ step' = "clear"
  /\ UNCHANGED <<variant, objVars, fdVars, msgVars, mod, rmObj, corrupt>>

\* Faulty variant: the Falcon forgets to unregister its device.
ExitDoneKeepsDevice ==
  /\ task = "exit" /\ step = "end"
  /\ mod' = "out" /\ saved' = "null"
  /\ corrupt' = (mod = "hollow")
  /\ task' = "none" /\ step' = "clear"
  /\ UNCHANGED <<variant, objVars, fdVars, msgVars, dev, master, rmObj>>

\* The end of spirom_exit.  The Falcon unregisters the device it added; the
\* next load starts with a fresh static variable.  After a load that only
\* half succeeded class and character device are taken back a second time.
ExitDone ==
  /\ task = "exit" /\ step = "end"
  /\ IF mod = "hollow" \/ (variant = "falcon" /\ saved = "dangling")
       THEN corrupt' = TRUE /\ UNCHANGED <<mod, dev, saved, task, step>>
       ELSE /\ mod' = "out" /\ saved' = "null"
            /\ dev' = (dev /\ ~(variant = "falcon" /\ saved = "valid"))
            /\ task' = "none" /\ step' = "clear"
            /\ UNCHANGED corrupt
  /\ UNCHANGED <<variant, objVars, fdVars, msgVars, master, rmObj>>

\* The end of a spirom_init that fails: the module is freed, even under the
\* feet of somebody who opened the node in the meantime.
InitFailed ==
  /\ task = "init" /\ step = "end"
  /\ IF \E f \in Fds : fdObj[f] # NoObj
       THEN corrupt' = TRUE /\ UNCHANGED <<mod, saved, task, step>>
       ELSE /\ mod' = "out" /\ saved' = "null"
            /\ task' = "none" /\ step' = "clear"
            /\ UNCHANGED corrupt
  /\ UNCHANGED <<variant, objVars, fdVars, msgVars, dev, master, rmObj>>
-----------------------------------------------------------------------------
FileStep(f) ==
  Open(f) \/ IoctlBegin(f) \/ IoctlSubmit(f) \/ IoctlEnd(f) \/ Release(f)

LoadStep == InitRegister \/ InitRegisterFails \/ InitAddDevice
              \/ ControllerProbe

RemovalStep ==
  \/ ControllerRemove \/ ModuleExit
  \/ RemoveClear \/ RemoveFinish
  \/ ControllerGone \/ ExitDone \/ InitFailed

Next ==
  /\ ~corrupt
  /\ \/ \E f \in Fds : FileStep(f)
     \/ \E o \in Objs : LateComplete(o)
     \/ LoadStep \/ RemovalStep

Spec == Init /\ [][Next]_vars
-----------------------------------------------------------------------------
(***************************************************************************)
(* Properties.                                                             *)
(***************************************************************************)

\* spirom->users counts the files that are open on a structure.
UsersCountFiles == \A o \in Objs : users[o] = Cardinality(Openers(o))

\* A structure is freed once nothing refers to it: no open file, not the
\* device, not device_list.  The exception is a structure whose removal is
\* between its two halves, which may be freed while still on the list.
FreedIsUnreferenced ==
  \A o \in Objs : heap[o] = "freed" =>
    /\ Openers(o) = {} /\ o # drvdata /\ o \notin attached
    /\ o \in devList => o = rmObj

\* Nothing leaks: a live structure belongs to the device, to a removal in
\* progress or to an open file, and whoever lets go of it last frees it.
NoLeak ==
  \A o \in Objs : heap[o] = "live" =>
    o = drvdata \/ o = rmObj \/ Openers(o) # {}

\* An ioctl gets hold of the SPI device only while the device is registered
\* with its controller and bound to the very structure the file refers to.
AttachedIsBound ==
  \A o \in attached : o = drvdata /\ o \in devList /\ dev /\ master

\* Freed memory is used in these situations only: the last close fell between
\* the two halves of spirom_remove; a half-failed spirom_init; the Falcon's
\* module outlived the controller its device was on; a file was opened while
\* spirom_init was failing; a message outlived its ioctl, the last close and
\* the removal of its device, which can only be a removal by the module, as the
\* controller's ends the thread that would complete it.
CorruptionExplained ==
  corrupt => \/ rmObj # NoObj /\ heap[rmObj] = "freed"
             \/ mod = "hollow"
             \/ task = "exit" /\ variant = "falcon" /\ saved = "dangling"
             \/ task = "init" /\ \E f \in Fds : fdObj[f] # NoObj
             \/ /\ \E o \in late : heap[o] = "freed"
                /\ master /\ task # "controller"

\* "to confirm a clean exit we need to unregister the device while exiting":
\* on the Falcon no device is left behind by a module that is not loaded, so
\* the module can be loaded again.
CleanExit ==
  variant = "falcon" /\ mod = "out" /\ task = "none" => ~dev

\* "make sure ops on existing fds can abort cleanly" (spirom_remove): a close
\* during the removal does not free a structure still on device_list.
ListedIsLive == \A o \in devList : heap[o] = "live"
=============================================================================
