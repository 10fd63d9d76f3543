-------------------------- MODULE SpiromDeviceProofs --------------------------
(***************************************************************************)
(* The safety properties of SpiromDevice, proved for any finite set of     *)
(* file descriptors, any number of structures and both forms of the        *)
(* module.                                                                 *)
(*                                                                         *)
(* UsersCountFiles, FreedIsUnreferenced and NoLeak depend on one another   *)
(* and on where a removal stands; IInv is their conjunction with what has  *)
(* to be known of that, and it is inductive.                               *)
(***************************************************************************)
EXTENDS SpiromDevice, FiniteSetTheorems, TLAPS

\* A structure that was never allocated is referred to from nowhere.
UnusedIsUntouched ==
  \A o \in Objs : heap[o] = "unused" => Openers(o) = {} /\ o \notin devList

\* The structure being removed is set exactly between the two halves, and the
\* driver data is gone from the first half on.
RemovalInProgress ==
  /\ step = "finish" <=> rmObj # NoObj
  /\ task = "none" => step = "clear"
  /\ rmObj # NoObj => rmObj \in devList
  /\ step # "clear" => drvdata = NoObj
  /\ task = "exit" => mod \in {"in", "hollow"}
  /\ task = "init" => mod = "registering"

\* The list holds the bound structure and the one being removed, and only the
\* bound one has a device.
BoundIsLive ==
  /\ devList \subseteq {drvdata, rmObj}
  /\ attached \subseteq {drvdata}
  /\ drvdata # NoObj =>
       /\ drvdata \in attached /\ drvdata \in devList
       /\ heap[drvdata] = "live" /\ dev
  /\ dev => master

\* The Falcon's module keeps track of the device it added.
FalconDevice ==
  variant = "falcon" /\ dev => saved = "valid" /\ mod \in {"in", "hollow"}

IoctlFiles == \A f \in inIoctl : fdObj[f] # NoObj

\* A message is with the controller, whose thread can complete it, only while
\* the controller is registered and not being removed.
MessageLives ==
  /\ sending \subseteq inIoctl
  /\ sending # {} \/ late # {} => master /\ task # "controller"

IInv ==
  /\ TypeOK
  /\ UsersCountFiles
  /\ UnusedIsUntouched
  /\ RemovalInProgress
  /\ BoundIsLive
  /\ FalconDevice
  /\ IoctlFiles
  /\ MessageLives
  /\ FreedIsUnreferenced
  /\ NoLeak
  /\ CorruptionExplained
-----------------------------------------------------------------------------
LEMMA OpenersFinite ==
  ASSUME NEW o
  PROVE  IsFiniteSet(Openers(o)) /\ Cardinality(Openers(o)) \in Nat
  <1>1. IsFiniteSet(Fds)
    BY SpiromDeviceAssumption
  <1>2. Openers(o) \in SUBSET Fds
    BY DEF Openers
  <1>3. IsFiniteSet(Openers(o))
    BY <1>1, <1>2, FS_Subset
  <1> QED
    BY <1>3, FS_CardinalityType

\* What users says about the files that are open.
LEMMA UsersTellOpeners ==
  ASSUME TypeOK, UsersCountFiles, NEW o \in Objs
  PROVE  /\ users[o] = 0 <=> Openers(o) = {}
         /\ \A f \in Openers(o) : users[o] = 1 <=> Openers(o) = {f}
  <1>1. users[o] = Cardinality(Openers(o)) /\ IsFiniteSet(Openers(o))
    BY OpenersFinite DEF UsersCountFiles
  <1>2. users[o] = 0 <=> Openers(o) = {}
    BY <1>1, FS_EmptySet
  <1>3. \A f \in Openers(o) : users[o] = 1 <=> Openers(o) = {f}
    <2>1. Cardinality(Openers(o)) = 1 <=> \E x : Openers(o) = {x}
      BY <1>1, FS_Singleton, Zenon
    <2> QED
      BY <1>1, <2>1
  <1> QED
    BY <1>2, <1>3

LEMMA InitIInv == Init => IInv
  <1> SUFFICES ASSUME Init PROVE IInv
    OBVIOUS
  <1>1. TypeOK
    BY DEF Init, TypeOK, Objs, NoObj
  <1>2. \A o \in Objs : Openers(o) = {}
    BY DEF Init, Openers, Objs, NoObj
  <1>3. UsersCountFiles
    BY <1>2, FS_EmptySet DEF Init, UsersCountFiles
  <1> QED
    BY <1>1, <1>2, <1>3 DEF Init, IInv, UnusedIsUntouched, RemovalInProgress,
       BoundIsLive, FalconDevice, IoctlFiles, MessageLives,
       FreedIsUnreferenced, NoLeak, CorruptionExplained, NoObj, Objs
-----------------------------------------------------------------------------
\* Steps that leave the files alone keep UsersCountFiles.
LEMMA SameFilesSameUsers ==
  ASSUME UsersCountFiles, UNCHANGED <<users, fdObj>>
  PROVE  UsersCountFiles'
  <1>1. \A o \in Objs : Openers(o)' = Openers(o)
    BY DEF Openers
  <1> QED
    BY <1>1 DEF UsersCountFiles

LEMMA OpenKeepsIInv ==
  ASSUME IInv, ~corrupt, NEW f \in Fds, Open(f)
  PROVE  IInv'
  <1> USE DEF IInv
  <1>0. PICK o \in devList :
          IF heap[o] = "freed"
            THEN corrupt' = TRUE /\ UNCHANGED <<users, fdObj>>
            ELSE /\ users' = [users EXCEPT ![o] = @ + 1]
                 /\ fdObj' = [fdObj EXCEPT ![f] = o]
                 /\ UNCHANGED corrupt
    BY DEF Open
  <1>1. o \in Objs /\ fdObj[f] = NoObj
    BY DEF Open, TypeOK
  <1>2. CASE heap[o] = "freed"
    <2>1. o = rmObj /\ o # NoObj
      BY <1>1, <1>2 DEF FreedIsUnreferenced, Objs, NoObj
    <2>2. UNCHANGED <<variant, heap, attached, devList, drvdata, users, fdObj,
                      inIoctl, msgVars, modVars, taskVars>> /\ corrupt' = TRUE
      BY <1>0, <1>2 DEF Open
    <2> QED
      BY <1>2, <2>1, <2>2, SameFilesSameUsers
      DEF TypeOK, MessageLives, msgVars, modVars, taskVars, UnusedIsUntouched,
          RemovalInProgress, BoundIsLive, FalconDevice, IoctlFiles,
          FreedIsUnreferenced, NoLeak, CorruptionExplained, Openers
  <1>3. CASE heap[o] # "freed"
    <2>1. /\ users' = [users EXCEPT ![o] = @ + 1]
          /\ fdObj' = [fdObj EXCEPT ![f] = o]
          /\ UNCHANGED <<variant, heap, attached, devList, drvdata, inIoctl,
                         msgVars, modVars, taskVars, corrupt>>
      BY <1>0, <1>3 DEF Open
    <2>2. Openers(o)' = Openers(o) \cup {f} /\ f \notin Openers(o)
      BY <1>1, <2>1 DEF Openers, TypeOK, Objs, NoObj
    <2>3. \A p \in Objs \ {o} : Openers(p)' = Openers(p)
      BY <1>1, <2>1 DEF Openers, TypeOK, Objs, NoObj
    <2>4. TypeOK'
      BY <1>1, <2>1 DEF TypeOK, msgVars, modVars, taskVars
    <2>5. UsersCountFiles'
      <3>1. users'[o] = Cardinality(Openers(o)')
        <4>1. Cardinality(Openers(o) \cup {f}) = Cardinality(Openers(o)) + 1
          BY <2>2, FS_AddElement, OpenersFinite
        <4>2. users'[o] = users[o] + 1
          BY <1>1, <2>1 DEF TypeOK
        <4> QED
          BY <1>1, <2>2, <4>1, <4>2 DEF UsersCountFiles
      <3>2. \A p \in Objs \ {o} : users'[p] = Cardinality(Openers(p)')
        BY <2>1, <2>3 DEF UsersCountFiles, TypeOK
      <3> QED
        BY <3>1, <3>2 DEF UsersCountFiles
    <2>6. UnusedIsUntouched' /\ FreedIsUnreferenced' /\ NoLeak'
      BY <1>1, <1>3, <2>1, <2>2, <2>3
      DEF UnusedIsUntouched, FreedIsUnreferenced, NoLeak, taskVars
    <2> QED
      BY <1>1, <2>1, <2>4, <2>5, <2>6
      DEF msgVars, modVars, taskVars, RemovalInProgress, BoundIsLive,
          FalconDevice, IoctlFiles, MessageLives, CorruptionExplained, TypeOK,
          Objs, NoObj
  <1> QED
    BY <1>2, <1>3

LEMMA ReleaseKeepsIInv ==
  ASSUME IInv, ~corrupt, NEW f \in Fds, Release(f)
  PROVE  IInv'
  <1> USE DEF IInv
  <1>0. PICK o \in Objs : o = fdObj[f]
    BY DEF Release, TypeOK
  <1>1. o \in Objs /\ f \in Openers(o)
    BY <1>0 DEF Openers
  <1>2. /\ users' = [users EXCEPT ![o] = @ - 1]
        /\ heap' = IF users[o] = 1 /\ o \notin attached
                     THEN [heap EXCEPT ![o] = "freed"] ELSE heap
        /\ fdObj' = [fdObj EXCEPT ![f] = NoObj]
        /\ f \notin inIoctl
        /\ UNCHANGED <<variant, attached, devList, drvdata, inIoctl,
                       msgVars, modVars, taskVars, corrupt>>
    BY <1>0 DEF Release
  <1>3. Openers(o)' = Openers(o) \ {f}
    BY <1>1, <1>2 DEF Openers, TypeOK, Objs, NoObj
  <1>4. \A p \in Objs \ {o} : Openers(p)' = Openers(p)
    BY <1>1, <1>2 DEF Openers, TypeOK, Objs, NoObj
  <1>5. users[o] = 1 <=> Openers(o)' = {}
    BY <1>1, <1>3, UsersTellOpeners
  <1>6. UsersCountFiles' /\ users' \in [Objs -> Nat]
    <2>1. Cardinality(Openers(o) \ {f}) = Cardinality(Openers(o)) - 1
      BY <1>1, FS_RemoveElement, OpenersFinite
    <2>2. Cardinality(Openers(o)') \in Nat
      BY <1>3, FS_RemoveElement, OpenersFinite, FS_CardinalityType
    <2>3. users'[o] = users[o] - 1
      BY <1>1, <1>2 DEF TypeOK
    <2>4. users'[o] = Cardinality(Openers(o)')
      BY <1>1, <1>3, <2>1, <2>3 DEF UsersCountFiles
    <2>5. \A p \in Objs \ {o} : users'[p] = users[p]
      BY <1>2 DEF TypeOK
    <2>6. users' \in [Objs -> Nat]
      BY <1>1, <1>2, <2>2, <2>3, <2>4, <2>5 DEF TypeOK
    <2> QED
      BY <1>4, <2>4, <2>5, <2>6 DEF UsersCountFiles
  <1>7. \/ heap' = heap
        \/ /\ heap' = [heap EXCEPT ![o] = "freed"]
           /\ Openers(o)' = {} /\ o \notin attached
    BY <1>2, <1>5
  <1>8. TypeOK'
    BY <1>1, <1>2, <1>6, <1>7 DEF TypeOK, msgVars, modVars, taskVars
  <1>9. UnusedIsUntouched' /\ IoctlFiles' /\ MessageLives' /\ RemovalInProgress'
    BY <1>1, <1>2, <1>3, <1>4, <1>7
    DEF UnusedIsUntouched, IoctlFiles, MessageLives, RemovalInProgress,
        TypeOK, msgVars, modVars, taskVars
  <1>10. BoundIsLive' /\ FalconDevice' /\ CorruptionExplained'
    BY <1>1, <1>2, <1>7
    DEF BoundIsLive, FalconDevice, CorruptionExplained, TypeOK, modVars,
        taskVars, Objs, NoObj
  <1>11. FreedIsUnreferenced'
    BY <1>1, <1>2, <1>3, <1>4, <1>7
    DEF FreedIsUnreferenced, BoundIsLive, TypeOK, taskVars, Objs, NoObj
  <1>12. NoLeak'
    <2> SUFFICES ASSUME NEW p \in Objs, heap'[p] = "live"
                 PROVE  p = drvdata' \/ p = rmObj' \/ Openers(p)' # {}
      BY DEF NoLeak
    <2>1. CASE p # o
      BY <1>2, <1>4, <1>7, <2>1 DEF NoLeak, TypeOK, taskVars
    <2>2. CASE p = o
      BY <1>1, <1>2, <1>5, <2>2 DEF NoLeak, BoundIsLive, TypeOK, taskVars
    <2> QED
      BY <2>1, <2>2
  <1> QED
    BY <1>6, <1>8, <1>9, <1>10, <1>11, <1>12

LEMMA IoctlKeepsIInv ==
  ASSUME IInv, ~corrupt, NEW f \in Fds,
         IoctlBegin(f) \/ IoctlSubmit(f) \/ IoctlEnd(f)
  PROVE  IInv'
  <1> USE DEF IInv
  <1>1. CASE IoctlBegin(f)
    BY <1>1, SameFilesSameUsers
    DEF IoctlBegin, TypeOK, MessageLives, msgVars, objVars, modVars, taskVars,
        UnusedIsUntouched, RemovalInProgress, BoundIsLive, FalconDevice,
        IoctlFiles, FreedIsUnreferenced, NoLeak, CorruptionExplained, Openers
  <1>2. CASE IoctlSubmit(f)
    <2>1. master /\ task # "controller"
      BY <1>2 DEF IoctlSubmit, BoundIsLive, TypeOK, Objs, NoObj
    <2> QED
      BY <1>2, <2>1, SameFilesSameUsers
      DEF IoctlSubmit, TypeOK, MessageLives, fdVars, objVars, modVars,
          taskVars, UnusedIsUntouched, RemovalInProgress, BoundIsLive,
          FalconDevice, IoctlFiles, FreedIsUnreferenced, NoLeak,
          CorruptionExplained, Openers
  <1>3. CASE IoctlEnd(f)
    <2>1. fdObj[f] \in Objs /\ f \in Openers(fdObj[f])
      BY <1>3 DEF IoctlEnd, IoctlFiles, TypeOK, Openers
    <2>2. corrupt' = FALSE
      BY <1>3, <2>1 DEF IoctlEnd, FreedIsUnreferenced
    <2>3. late' \in SUBSET Objs /\ sending' \in SUBSET Fds /\ MessageLives'
      BY <1>3, <2>1 DEF IoctlEnd, MessageLives, TypeOK, modVars, taskVars
    <2> QED
      BY <1>3, <2>2, <2>3, SameFilesSameUsers
      DEF IoctlEnd, TypeOK, objVars, modVars, taskVars, UnusedIsUntouched,
          RemovalInProgress, BoundIsLive, FalconDevice, IoctlFiles,
          FreedIsUnreferenced, NoLeak, CorruptionExplained, Openers
  <1> QED
    BY <1>1, <1>2, <1>3

LEMMA LateCompleteKeepsIInv ==
  ASSUME IInv, ~corrupt, NEW o \in Objs, LateComplete(o)
  PROVE  IInv'
  <1> USE DEF IInv
  <1>1. TypeOK' /\ MessageLives'
    <2>1. late' \subseteq late /\ corrupt' \in BOOLEAN
      BY DEF LateComplete, TypeOK
    <2>2. TypeOK'
      BY <2>1 DEF LateComplete, TypeOK, objVars, fdVars, modVars, taskVars
    <2>3. MessageLives'
      BY <2>1 DEF LateComplete, MessageLives, fdVars, modVars, taskVars
    <2> QED
      BY <2>2, <2>3
  <1>2. CorruptionExplained'
    BY DEF LateComplete, MessageLives, TypeOK, CorruptionExplained, objVars, fdVars,
           modVars, taskVars
  <1>3. UnusedIsUntouched' /\ FreedIsUnreferenced' /\ NoLeak' /\ UsersCountFiles'
    BY SameFilesSameUsers
    DEF LateComplete, UnusedIsUntouched, FreedIsUnreferenced, NoLeak, Openers,
        objVars, fdVars, taskVars
  <1> QED
    BY <1>1, <1>2, <1>3
    DEF LateComplete, RemovalInProgress, BoundIsLive, FalconDevice, IoctlFiles,
        objVars, fdVars, modVars, taskVars
-----------------------------------------------------------------------------
\* The part of the invariant that probing a device can disturb.
LEMMA ProbeKeepsObjects ==
  ASSUME IInv, drvdata = NoObj, task = "none", Probe,
         UNCHANGED <<fdVars, taskVars, master>>,
         dev' = TRUE, master = TRUE
  PROVE  /\ heap' \in [Objs -> {"unused", "live", "freed"}]
         /\ attached' \in SUBSET Objs /\ users' \in [Objs -> Nat]
         /\ devList' \in SUBSET Objs /\ drvdata' \in Objs \cup {NoObj}
         /\ UsersCountFiles' /\ UnusedIsUntouched' /\ BoundIsLive'
         /\ FreedIsUnreferenced' /\ NoLeak' /\ (rmObj # NoObj => rmObj \in devList)'
  <1> USE DEF IInv
  <1>1. UNCHANGED <<users, fdObj, rmObj, step>> /\ rmObj = NoObj
    BY DEF Probe, objVars, fdVars, taskVars, RemovalInProgress
  <1>2. \A p : Openers(p)' = Openers(p)
    BY <1>1 DEF Openers
  <1>3. UsersCountFiles'
    BY <1>1, SameFilesSameUsers
  <1>4. CASE UNCHANGED objVars
    BY <1>1, <1>2, <1>3, <1>4
    DEF objVars, TypeOK, UnusedIsUntouched, BoundIsLive, FreedIsUnreferenced,
        NoLeak, RemovalInProgress
  <1>5. ASSUME NEW o \in Objs,
               heap[o] = "unused",
               heap' = [heap EXCEPT ![o] = "live"],
               attached' = attached \cup {o},
               devList' = devList \cup {o},
               drvdata' = o
        PROVE  /\ heap' \in [Objs -> {"unused", "live", "freed"}]
               /\ attached' \in SUBSET Objs
               /\ devList' \in SUBSET Objs /\ drvdata' \in Objs \cup {NoObj}
               /\ UnusedIsUntouched' /\ BoundIsLive'
               /\ FreedIsUnreferenced' /\ NoLeak' /\ (rmObj # NoObj => rmObj \in devList)'
    BY <1>1, <1>2, <1>5
    DEF TypeOK, UnusedIsUntouched, BoundIsLive, FreedIsUnreferenced, NoLeak,
        RemovalInProgress, Objs, NoObj
  <1> QED
    BY <1>1, <1>3, <1>4, <1>5 DEF Probe, TypeOK

LEMMA LoadKeepsIInv ==
  ASSUME IInv, ~corrupt, LoadStep
  PROVE  IInv'
  <1> USE DEF IInv
  <1>1. CASE InitRegister /\ dev /\ drvdata = NoObj
    BY <1>1, ProbeKeepsObjects
    DEF InitRegister, TypeOK, MessageLives, msgVars, fdVars, taskVars,
        RemovalInProgress, BoundIsLive, FalconDevice, IoctlFiles,
        CorruptionExplained
  <1>2. CASE InitRegister /\ ~(dev /\ drvdata = NoObj)
    BY <1>2, SameFilesSameUsers
    DEF InitRegister, TypeOK, MessageLives, msgVars, objVars, fdVars, taskVars,
        UnusedIsUntouched, RemovalInProgress, BoundIsLive, FalconDevice,
        IoctlFiles, FreedIsUnreferenced, NoLeak, CorruptionExplained, Openers
  <1>3. CASE InitRegisterFails
    <2>1. TypeOK' /\ MessageLives' /\ RemovalInProgress' /\ FalconDevice'
            /\ CorruptionExplained'
      BY <1>3
      DEF InitRegisterFails, TypeOK, MessageLives, RemovalInProgress,
          FalconDevice, CorruptionExplained, objVars, fdVars, msgVars, taskVars
    <2>2. BoundIsLive'
      BY <1>3 DEF InitRegisterFails, BoundIsLive, objVars, taskVars
    <2>3. UnusedIsUntouched' /\ FreedIsUnreferenced' /\ NoLeak' /\ IoctlFiles'
            /\ UsersCountFiles'
      BY <1>3, SameFilesSameUsers
      DEF InitRegisterFails, UnusedIsUntouched, FreedIsUnreferenced, NoLeak,
          IoctlFiles, Openers, objVars, fdVars, taskVars
    <2> QED
      BY <2>1, <2>2, <2>3
  <1>4. CASE InitAddDevice
    <2>1. CASE master /\ ~dev
      BY <1>4, <2>1, ProbeKeepsObjects
      DEF InitAddDevice, TypeOK, MessageLives, msgVars, fdVars, taskVars,
          RemovalInProgress, BoundIsLive, FalconDevice, IoctlFiles,
          CorruptionExplained
    <2>2. CASE ~(master /\ ~dev)
      BY <1>4, <2>2, SameFilesSameUsers
      DEF InitAddDevice, TypeOK, MessageLives, msgVars, objVars, fdVars,
          UnusedIsUntouched, RemovalInProgress, BoundIsLive, FalconDevice,
          IoctlFiles, FreedIsUnreferenced, NoLeak, CorruptionExplained, Openers
    <2> QED
      BY <2>1, <2>2
  <1>5. CASE ControllerProbe
    BY <1>5, SameFilesSameUsers
    DEF ControllerProbe, TypeOK, MessageLives, msgVars, objVars, fdVars,
        taskVars, UnusedIsUntouched, RemovalInProgress, BoundIsLive,
        FalconDevice, IoctlFiles, FreedIsUnreferenced, NoLeak,
        CorruptionExplained, Openers
  <1> QED
    BY <1>1, <1>2, <1>3, <1>4, <1>5 DEF LoadStep
-----------------------------------------------------------------------------
\* The first half of spirom_remove: the structure changes hands from the
\* device to the removal.
LEMMA RemoveClearKeepsIInv ==
  ASSUME IInv, ~corrupt, RemoveClear
  PROVE  IInv'
  <1> USE DEF IInv
  <1>1. rmObj = NoObj
    BY DEF RemoveClear, RemovalInProgress
  <1>2. UsersCountFiles' /\ \A p : Openers(p)' = Openers(p)
    BY SameFilesSameUsers DEF RemoveClear, fdVars, Openers
  <1>3. TypeOK' /\ RemovalInProgress' /\ BoundIsLive'
    BY <1>1
    DEF RemoveClear, TypeOK, RemovalInProgress, BoundIsLive, fdVars, msgVars,
        modVars,
        Objs, NoObj
  <1>4. FreedIsUnreferenced' /\ NoLeak' /\ UnusedIsUntouched'
    BY <1>1, <1>2
    DEF RemoveClear, TypeOK, FreedIsUnreferenced, NoLeak, UnusedIsUntouched,
        BoundIsLive, Objs, NoObj
  <1>5. FalconDevice' /\ IoctlFiles' /\ MessageLives' /\ CorruptionExplained'
    BY DEF RemoveClear, FalconDevice, IoctlFiles, MessageLives,
           CorruptionExplained, fdVars, msgVars, modVars
  <1> QED
    BY <1>2, <1>3, <1>4, <1>5

\* The second half, which frees the structure if nobody has it open.
LEMMA RemoveFinishKeepsIInv ==
  ASSUME IInv, ~corrupt, RemoveFinish
  PROVE  IInv'
  <1> USE DEF IInv
  <1>1. /\ rmObj \in Objs /\ rmObj # NoObj /\ rmObj \in devList
        /\ drvdata = NoObj /\ attached = {} /\ devList = {rmObj}
    <2>1. rmObj # NoObj /\ drvdata = NoObj /\ rmObj \in devList
      BY DEF RemoveFinish, RemovalInProgress
    <2>2. \A o \in Objs : o # NoObj
      BY DEF Objs, NoObj
    <2>3. attached = {}
      BY <2>1, <2>2 DEF BoundIsLive, TypeOK
    <2>4. devList = {rmObj}
      BY <2>1, <2>2 DEF BoundIsLive, TypeOK
    <2> QED
      BY <2>1, <2>3, <2>4 DEF TypeOK
  <1>2. UsersCountFiles' /\ \A p : Openers(p)' = Openers(p)
    BY SameFilesSameUsers DEF RemoveFinish, objVars, fdVars, Openers
  <1>3. CASE heap[rmObj] = "freed"
    BY <1>1, <1>2, <1>3
    DEF RemoveFinish, TypeOK, MessageLives, msgVars, objVars, fdVars, modVars,
        UnusedIsUntouched, RemovalInProgress, BoundIsLive, FalconDevice,
        IoctlFiles, FreedIsUnreferenced, NoLeak, CorruptionExplained
  <1>4. CASE heap[rmObj] # "freed"
    <2>1. /\ devList' = {} /\ rmObj' = NoObj /\ step' = "end"
          /\ heap' = IF users[rmObj] = 0
                       THEN [heap EXCEPT ![rmObj] = "freed"] ELSE heap
          /\ UNCHANGED <<attached, users, drvdata, corrupt, variant, fdVars,
                         msgVars, modVars, task>>
      BY <1>1, <1>4 DEF RemoveFinish
    <2>2. users[rmObj] = 0 <=> Openers(rmObj) = {}
      BY <1>1, UsersTellOpeners
    <2>3. TypeOK'
      BY <1>1, <2>1 DEF TypeOK, fdVars, msgVars, modVars
    <2>4. RemovalInProgress' /\ BoundIsLive' /\ FalconDevice' /\ IoctlFiles'
            /\ MessageLives' /\ CorruptionExplained'
      BY <1>1, <2>1
      DEF RemovalInProgress, BoundIsLive, FalconDevice, IoctlFiles,
          MessageLives, CorruptionExplained, fdVars, msgVars, modVars
    <2>5. UnusedIsUntouched' /\ FreedIsUnreferenced' /\ NoLeak'
      BY <1>1, <1>2, <2>1, <2>2
      DEF UnusedIsUntouched, FreedIsUnreferenced, NoLeak, TypeOK
    <2> QED
      BY <1>2, <2>3, <2>4, <2>5
  <1> QED
    BY <1>3, <1>4

LEMMA RemovalKeepsIInv ==
  ASSUME IInv, ~corrupt, RemovalStep
  PROVE  IInv'
  <1> USE DEF IInv
  <1>1. CASE ControllerRemove
    BY <1>1, SameFilesSameUsers
    DEF ControllerRemove, TypeOK, MessageLives, msgVars, objVars, fdVars,
        modVars, UnusedIsUntouched, RemovalInProgress, BoundIsLive,
        FalconDevice, IoctlFiles, FreedIsUnreferenced, NoLeak,
        CorruptionExplained, Openers
  <1>2. CASE ModuleExit
    BY <1>2, SameFilesSameUsers
    DEF ModuleExit, TypeOK, MessageLives, msgVars, objVars, fdVars, modVars,
        UnusedIsUntouched, RemovalInProgress, BoundIsLive, FalconDevice,
        IoctlFiles, FreedIsUnreferenced, NoLeak, CorruptionExplained, Openers
  <1>3. CASE RemoveClear
    BY <1>3, RemoveClearKeepsIInv
  <1>4. CASE RemoveFinish
    BY <1>4, RemoveFinishKeepsIInv
  <1>5. CASE ControllerGone
    <2>1. TypeOK' /\ RemovalInProgress' /\ BoundIsLive' /\ FalconDevice'
      BY <1>5
      DEF ControllerGone, TypeOK, RemovalInProgress, BoundIsLive, FalconDevice,
          objVars, fdVars, msgVars
    <2>2. MessageLives' /\ CorruptionExplained'
      BY <1>5
      DEF ControllerGone, MessageLives, CorruptionExplained, fdVars, msgVars
    <2>3. UnusedIsUntouched' /\ FreedIsUnreferenced' /\ NoLeak' /\ IoctlFiles'
            /\ UsersCountFiles'
      BY <1>5, SameFilesSameUsers
      DEF ControllerGone, UnusedIsUntouched, FreedIsUnreferenced, NoLeak,
          IoctlFiles, Openers, objVars, fdVars
    <2> QED
      BY <2>1, <2>2, <2>3
  <1>6. CASE ExitDone
    <2>1. TypeOK' /\ RemovalInProgress' /\ BoundIsLive' /\ FalconDevice'
      BY <1>6
      DEF ExitDone, TypeOK, RemovalInProgress, BoundIsLive, FalconDevice,
          objVars, fdVars, msgVars
    <2>2. MessageLives' /\ CorruptionExplained'
      BY <1>6
      DEF ExitDone, MessageLives, CorruptionExplained, objVars, fdVars, msgVars
    <2>3. UnusedIsUntouched' /\ FreedIsUnreferenced' /\ NoLeak' /\ IoctlFiles'
            /\ UsersCountFiles'
      BY <1>6, SameFilesSameUsers
      DEF ExitDone, UnusedIsUntouched, FreedIsUnreferenced, NoLeak,
          IoctlFiles, Openers, objVars, fdVars
    <2> QED
      BY <2>1, <2>2, <2>3
  <1>7. CASE InitFailed
    <2>1. TypeOK' /\ RemovalInProgress' /\ BoundIsLive' /\ FalconDevice'
      BY <1>7
      DEF InitFailed, TypeOK, RemovalInProgress, BoundIsLive, FalconDevice,
          objVars, fdVars, msgVars
    <2>2. MessageLives' /\ CorruptionExplained'
      BY <1>7
      DEF InitFailed, MessageLives, CorruptionExplained, objVars, fdVars, msgVars
    <2>3. UnusedIsUntouched' /\ FreedIsUnreferenced' /\ NoLeak' /\ IoctlFiles'
            /\ UsersCountFiles'
      BY <1>7, SameFilesSameUsers
      DEF InitFailed, UnusedIsUntouched, FreedIsUnreferenced, NoLeak,
          IoctlFiles, Openers, objVars, fdVars
    <2> QED
      BY <2>1, <2>2, <2>3
  <1> QED
    BY <1>1, <1>2, <1>3, <1>4, <1>5, <1>6, <1>7 DEF RemovalStep
-----------------------------------------------------------------------------
\* IInv is an invariant of spirom.c as SpiromDevice models it.
THEOREM Invariance == Spec => []IInv
  <1>1. Init => IInv
    BY InitIInv
  <1>2. IInv /\ [Next]_vars => IInv'
    <2> SUFFICES ASSUME IInv, [Next]_vars PROVE IInv'
      OBVIOUS
    <2>1. CASE Next
      <3>1. ~corrupt
        BY <2>1 DEF Next
      <3>2. CASE \E f \in Fds : FileStep(f)
        BY <3>1, <3>2, OpenKeepsIInv, IoctlKeepsIInv, ReleaseKeepsIInv
        DEF FileStep
      <3>5. CASE \E o \in Objs : LateComplete(o)
        BY <3>1, <3>5, LateCompleteKeepsIInv
      <3>3. CASE LoadStep
        BY <3>1, <3>3, LoadKeepsIInv
      <3>4. CASE RemovalStep
        BY <3>1, <3>4, RemovalKeepsIInv
      <3> QED
        BY <2>1, <3>2, <3>3, <3>4, <3>5 DEF Next
    <2>2. CASE UNCHANGED vars
      BY <2>2, SameFilesSameUsers
      DEF vars, objVars, fdVars, msgVars, modVars, taskVars, IInv, TypeOK,
          MessageLives,
          UnusedIsUntouched, RemovalInProgress, BoundIsLive, FalconDevice,
          IoctlFiles, FreedIsUnreferenced, NoLeak, CorruptionExplained, Openers
    <2> QED
      BY <2>1, <2>2
  <1> QED
    BY <1>1, <1>2, PTL DEF Spec

\* Every variable keeps its type; in particular spirom->users never goes below
\* zero, so "last close" is decided by a counter that has not wrapped.
THEOREM TypeCorrect == Spec => []TypeOK
  BY Invariance, PTL DEF IInv

\* spirom->users is the number of files open on the structure.
THEOREM UsersCounted == Spec => []UsersCountFiles
  BY Invariance, PTL DEF IInv

\* No structure is freed while a file, the device or device_list refers to it,
\* outside the window between the two halves of spirom_remove.
THEOREM FreedUnreferenced == Spec => []FreedIsUnreferenced
  BY Invariance, PTL DEF IInv

\* No structure is lost: spirom_remove and the last spirom_release cannot both
\* leave it to the other.
THEOREM NothingLeaks == Spec => []NoLeak
  BY Invariance, PTL DEF IInv

\* spirom->spi is set only while the device is bound to this structure and
\* registered with its controller.
THEOREM AttachedBound == Spec => []AttachedIsBound
  <1>1. IInv => AttachedIsBound
    BY DEF IInv, TypeOK, BoundIsLive, AttachedIsBound, Objs, NoObj
  <1> QED
    BY <1>1, Invariance, PTL

\* Freed memory is used in the named situations and no other.
THEOREM CorruptionIsExplained == Spec => []CorruptionExplained
  BY Invariance, PTL DEF IInv

\* The Falcon's module leaves no device behind.
THEOREM ExitIsClean == Spec => []CleanExit
  <1>1. IInv => CleanExit
    BY DEF IInv, FalconDevice, CleanExit
  <1> QED
    BY <1>1, Invariance, PTL
=============================================================================
