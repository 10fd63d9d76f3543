-------------------------- MODULE SpiTransportProofs --------------------------
(***************************************************************************)
(* The safety properties of SpiTransport, proved for any set of clients,   *)
(* any number of messages and both forms of the controller's thread.       *)
(*                                                                         *)
(* IInv has six parts: how far probe and remove have come and what the     *)
(* thread may do meanwhile; where the current message is; who holds the    *)
(* lock and the newest message; the order of everything on its way to the  *)
(* hardware; whose command is there; and what is true as long as no call   *)
(* has timed out.                                                          *)
(***************************************************************************)
EXTENDS SpiTransport, SequenceTheorems, TLAPS

\* Probe and remove.  Before the master is registered the driver is never
\* given a message, and the registers are unmapped only after the thread left.
CtlInv ==
  /\ mapped <=> ctl \in {"probing", "bound", "joining"}
  /\ ctl \in {"absent", "probing", "failed"} =>
       /\ ~running /\ ~stop
       /\ thread \in {"none", "wait", "checkTimedOut"}
  /\ ctl = "absent" => thread = "none"
  /\ ctl = "bound" => ~stop
  /\ ctl \in {"unmapped", "orphaned", "gone"} => thread = "exited"

\* The thread owns a message in these states, and no other.
Working == {"program", "poll", "asleep", "collect", "finalize"}

\* Where the current message is: nowhere, in msg_queue, or in the thread.
CurrentInv ==
  /\ msgQ = <<>> \/ (curMsg \in Msgs /\ msgQ = <<curMsg>>)
  /\ thread \in Working => held = curMsg /\ held \in Msgs /\ msgQ = <<>>
  /\ thread \notin Working /\ curMsg # NoMsg => msgQ = <<curMsg>>
  /\ thread \notin Working \cup {"complete"} => held = NoMsg
  /\ thread = "complete" => held \in Msgs
  /\ thread \in {"check", "pick"} => msgQ # <<>>
  /\ curMsg # NoMsg \/ coreQ # <<>> =>
       ctl \notin {"absent", "probing", "failed"}

\* Only the holder of buf_lock is past it, and its message is the newest.
Inside == {"build", "submit", "wait", "return"}

LockInv ==
  /\ \A c \in Clients : c \in bufLock <=> pc[c] \in Inside
  /\ \A c, d \in bufLock : c = d
  /\ \A c \in Clients :
       /\ pc[c] \in {"submit", "wait", "return"} => msg[c] = submitted
       /\ msg[c] # NoMsg <=> pc[c] \in {"submit", "wait", "return"}
       /\ msg[c] # NoMsg => msg[c] \notin freed
       /\ pc[c] \in {"wait", "return"} => status[msg[c]] # "unset"
  /\ \A m \in freed \cup timedOut : m <= submitted

\* The messages the hardware has executed.
Executed == {execLog[i] : i \in DOMAIN execLog}

\* The newest message has not been given to the SPI core.
Unsubmitted == \E c \in Clients : pc[c] = "submit"

\* Commands that have been in the controller, but for those of messages that
\* were built over others.
Past == ({loaded} \cup Executed) \ over

\* The controller has been given the command of the thread's message.
Commanded == {"poll", "asleep", "collect", "finalize"}

\* Every message on its way is newer than those before it on the same way.
OrderInv ==
  /\ \A i, j \in DOMAIN coreQ : i < j => coreQ[i] < coreQ[j]
  /\ curMsg # NoMsg => \A i \in DOMAIN coreQ : curMsg < coreQ[i]
  /\ \A m \in References \cup Past :
       m <= submitted /\ (Unsubmitted => m < submitted)
  /\ \A m \in Past, j \in DOMAIN coreQ : m < coreQ[j]
  /\ curMsg # NoMsg =>
       \A m \in Past :
         /\ m <= curMsg
         /\ thread \notin Commanded => m < curMsg
  /\ loaded \notin over => \A m \in Past : m <= loaded
  /\ ExecutedInOrder

\* What the thread executes is the message it holds, unless that one is gone.
\* A message whose place another has taken is gone too.
CommandInv ==
  /\ over \subseteq 1 .. submitted
  /\ \A m \in Msgs : at[m] # m => m \in freed /\ at[m] \in over
  /\ thread \in {"poll", "asleep"} /\ loaded \in Executed \ over => timedOut # {}
  /\ thread = "collect" => loaded \in Executed
  /\ thread \in {"poll", "asleep", "collect"} /\ at[held] = held /\ held \notin freed =>
       loaded = held
  /\ \A m \in Msgs : status[m] = "ok" => m \in Executed \cup over \cup freed
  /\ SuccessMeansExecuted

\* No message is on its way.
Quiet == coreQ = <<>> /\ curMsg = NoMsg /\ held = NoMsg

\* As long as no call has timed out, the message a client waits for is in one
\* place or its token is there, and at all other times nothing is anywhere.
CalmInv ==
  timedOut = {} =>
    /\ coreQ = <<>> \/ (coreQ = <<submitted>> /\ curMsg = NoMsg /\ held = NoMsg)
    /\ {curMsg, held} \subseteq {NoMsg, submitted}
    /\ curMsg # NoMsg /\ held # NoMsg => thread # "complete"
    /\ ~Quiet \/ done # 0 => \E c \in Clients : pc[c] = "wait"
    /\ done \in {0, 1}
    /\ done = 1 => Quiet /\ status[submitted] = "ok"
    /\ thread \in {"finalize", "complete"} => status[submitted] = "ok"
    /\ \A c \in Clients : pc[c] = "return" => status[submitted] = "ok"

IInv ==
  /\ TypeOK
  /\ CtlInv
  /\ CurrentInv
  /\ LockInv
  /\ OrderInv
  /\ CommandInv
  /\ CalmInv
  /\ LateOnlyAfterTimeout
-----------------------------------------------------------------------------
LEMMA InitIInv == Init => IInv
  <1> SUFFICES ASSUME Init PROVE IInv
    OBVIOUS
  <1> USE DEF Init, ControllerInit, NoMsg
  <1>1. References = {} /\ Executed = {} /\ Past = {NoMsg}
    BY DEF References, Executed, Past
  <1>2. TypeOK
    <2>1. ControllerTypeOK
      <3>1. <<>> \in Seq(Msgs) /\ <<>> \in Seq(Msgs \cup {NoMsg})
        OBVIOUS
      <3>2. /\ status \in [Msgs -> {"unset", "inprogress", "ok"}]
            /\ at \in [Msgs -> Msgs]
        OBVIOUS
      <3> QED
        BY <3>1, <3>2 DEF ControllerTypeOK, ThreadStates, CtlStates
    <2>2. submitted \in 0 .. MaxMsgs
      BY SpiControllerAssumption
    <2> QED
      BY <2>1, <2>2 DEF TypeOK, Results
  <1>3. CtlInv /\ CurrentInv /\ LockInv
    BY DEF CtlInv, CurrentInv, LockInv, Working, Inside
  <1>4. OrderInv
    <2>1. /\ DOMAIN coreQ = {} /\ DOMAIN execLog = {} /\ curMsg = NoMsg
          /\ submitted = 0 /\ loaded = 0 /\ ~Unsubmitted
      BY DEF Unsubmitted
    <2> QED
      BY <1>1, <2>1 DEF OrderInv, ExecutedInOrder
  <1>5. CommandInv
    <2>1. \A m \in Msgs : status[m] # "ok" /\ ret[m] # "ok" /\ at[m] = m
      OBVIOUS
    <2> QED
      BY <1>1, <2>1 DEF CommandInv, SuccessMeansExecuted
  <1>6. CalmInv /\ LateOnlyAfterTimeout
    BY <1>1 DEF CalmInv, Quiet, LateOnlyAfterTimeout, UnfinishedOnlyAfterTimeout,
       DanglingOnlyAfterTimeout, MixedOnlyAfterTimeout
  <1> QED
    BY <1>2, <1>3, <1>4, <1>5, <1>6 DEF IInv
-----------------------------------------------------------------------------
LEMMA CtlInvStep == IInv /\ [Next]_vars => CtlInv'
  <1> SUFFICES ASSUME IInv, [Next]_vars PROVE CtlInv'
    OBVIOUS
  <1> USE DEF IInv, CtlInv, ctlVars, coreVars, threadVars, memVars, clientVars
  <1>1. ASSUME NEW c \in Clients, IoctlEnter(c) \/ ClientStep(c)
        PROVE  CtlInv'
    <2>1. UNCHANGED <<mapped, ctl, running, stop, thread>>
      BY <1>1 DEF IoctlEnter, ClientStep, IoctlLock, MessageBuild, IoctlFails,
         SyncSubmit, SpiAsync, SyncShutdown, SyncWake, SyncTimeout, SyncReturn
    <2> QED
      BY <2>1
  <1>2. ASSUME ThreadStep
        PROVE  CtlInv'
    <2>1. UNCHANGED <<mapped, ctl, running, stop>>
      BY <1>2 DEF ThreadStep, ThreadWake, ThreadTimesOut, ThreadChecksStop,
         ThreadPick, ThreadProgram, ThreadPoll, ThreadCollect, ThreadFinalize,
         Complete, ThreadComplete
    <2>2. /\ thread \notin {"none", "exited"}
          /\ thread' = "exited" => stop
      BY <1>2 DEF ThreadStep, ThreadWake, ThreadTimesOut, ThreadChecksStop,
         ThreadPick, ThreadProgram, ThreadPoll, ThreadCollect, ThreadFinalize,
         Complete, ThreadComplete
    <2>3. ASSUME ctl \in {"probing", "failed"}
          PROVE  thread' \in {"wait", "checkTimedOut"}
      <3>1. msgQ = <<>>
        BY <2>3 DEF CurrentInv, NoMsg, Msgs
      <3>2. ThreadTimesOut \/ ThreadChecksStop
        BY <1>2, <2>3, <3>1 DEF ThreadStep, ThreadWake, ThreadPick,
           ThreadProgram, ThreadPoll, ThreadCollect, ThreadFinalize, Complete,
           ThreadComplete
      <3> QED
        BY <2>3, <3>2 DEF ThreadTimesOut, ThreadChecksStop
    <2> QED
      BY <2>1, <2>2, <2>3
  <1>3. ASSUME (PumpMessages \/ HardwareIdle) /\ UNCHANGED clientVars
        PROVE  CtlInv'
    BY <1>3 DEF PumpMessages, HardwareIdle
  <1>4. ASSUME RemoveStep
        PROVE  CtlInv'
    <2>1. CASE RemoveUnmap
      BY <2>1 DEF RemoveUnmap
    <2>2. CASE RemoveStopQueue
      BY <2>2 DEF RemoveStopQueue
    <2>3. CASE RemoveChildren
      BY <2>3 DEF RemoveChildren
    <2> QED
      BY <1>4, <2>1, <2>2, <2>3 DEF RemoveStep, DetachDevice
  <1>5. ASSUME Environment
        PROVE  CtlInv'
    BY <1>5 DEF Environment, ProbeStart, ProbeRegister, RemoveStop,
       RemoveStopNoThread, RemoveFailed, AttachDevice
  <1>6. CASE UNCHANGED vars
    BY <1>6 DEF vars
  <1> QED
    BY <1>1, <1>2, <1>3, <1>4, <1>5, <1>6 DEF Next
-----------------------------------------------------------------------------
LEMMA TypeOKStep == IInv /\ [Next]_vars => TypeOK'
  <1> SUFFICES ASSUME IInv, [Next]_vars PROVE TypeOK'
    OBVIOUS
  <1> USE DEF ctlVars, coreVars, threadVars, memVars, clientVars
  <1>0. TypeOK /\ ControllerTypeOK /\ CurrentInv /\ LockInv
    BY DEF IInv, TypeOK
  <1>1. ASSUME NEW c \in Clients, IoctlEnter(c) \/ ClientStep(c)
        PROVE  TypeOK'
    <2>1. CASE IoctlEnter(c) \/ IoctlLock(c) \/ IoctlFails(c)
      BY <1>0, <2>1 DEF IoctlEnter, IoctlLock, IoctlFails, MayCrash, TypeOK,
         ControllerTypeOK
    <2>2. CASE MessageBuild(c)
      <3>1. submitted + 1 \in Msgs /\ submitted' \in 0 .. MaxMsgs
        BY <1>0, <2>2, SpiControllerAssumption DEF MessageBuild, TypeOK, Msgs
      <3>2. at' \in [Msgs -> Msgs] /\ over' \in SUBSET Msgs /\ oops' \in BOOLEAN
        BY <1>0, <2>2, <3>1 DEF MessageBuild, MayCrash, TypeOK, ControllerTypeOK
      <3> QED
        BY <1>0, <2>2, <3>1, <3>2 DEF MessageBuild, TypeOK, ControllerTypeOK
    <2>3. CASE SyncSubmit(c)
      <3>1. msg[c] \in Msgs
        BY <1>0, <2>3 DEF SyncSubmit, LockInv, TypeOK
      <3>2. coreQ' \in Seq(Msgs)
        BY <1>0, <2>3, <3>1 DEF SyncSubmit, SpiAsync, ControllerTypeOK
      <3>3. status' \in [Msgs -> {"unset", "inprogress", "ok"}]
        BY <1>0, <2>3 DEF SyncSubmit, SpiAsync, ControllerTypeOK
      <3> QED
        BY <1>0, <2>3, <3>2, <3>3 DEF SyncSubmit, SpiAsync, TypeOK,
           ControllerTypeOK
    <2>4. CASE SyncShutdown(c) \/ SyncReturn(c)
      <3>1. msg[c] \in Msgs
        BY <1>0, <2>4 DEF SyncShutdown, SyncReturn, LockInv, TypeOK
      <3>2. PICK r \in Results : Leave(c, r)
        <4>1. CASE SyncShutdown(c)
          BY <4>1 DEF SyncShutdown, Results
        <4>2. CASE SyncReturn(c)
          <5>1. status[msg[c]] \in {"inprogress", "ok"}
            BY <1>0, <3>1, <4>2 DEF SyncReturn, LockInv, ControllerTypeOK
          <5> QED
            BY <4>2, <5>1 DEF SyncReturn, Results
        <4> QED
          BY <2>4, <4>1, <4>2
      <3>3. ret' \in [Msgs -> Results]
        BY <1>0, <3>2 DEF Leave, TypeOK, Results
      <3>4. freed' \in SUBSET Msgs
        BY <1>0, <3>1, <3>2 DEF Leave, ControllerTypeOK
      <3>5. /\ msg' \in [Clients -> Msgs \cup {NoMsg}]
            /\ pc' \in [Clients ->
                 {"idle", "lock", "build", "submit", "wait", "return"}]
            /\ bufLock' \in SUBSET Clients /\ UNCHANGED at
        BY <1>0, <3>2 DEF Leave, TypeOK
      <3> QED
        BY <1>0, <2>4, <3>3, <3>4, <3>5 DEF SyncShutdown, SyncReturn, TypeOK,
           ControllerTypeOK
    <2>5. CASE SyncWake(c)
      BY <1>0, <2>5 DEF SyncWake, TypeOK, ControllerTypeOK
    <2>6. CASE SyncTimeout(c)
      <3>1. msg[c] \in Msgs
        BY <1>0, <2>6 DEF SyncTimeout, LockInv, TypeOK
      <3> QED
        BY <1>0, <2>6, <3>1 DEF SyncTimeout, TypeOK, ControllerTypeOK
    <2> QED
      BY <1>1, <2>1, <2>2, <2>3, <2>4, <2>5, <2>6 DEF ClientStep
  <1>2. ASSUME ThreadStep
        PROVE  TypeOK'
    <2>1. CASE ThreadWake /\ UNCHANGED clientVars
      BY <1>0, <2>1 DEF ThreadWake, TypeOK, ControllerTypeOK, ThreadStates
    <2>2. CASE ThreadTimesOut /\ UNCHANGED clientVars
      BY <1>0, <2>2 DEF ThreadTimesOut, MayCrash, TypeOK, ControllerTypeOK,
         ThreadStates
    <2>3. CASE ThreadChecksStop /\ UNCHANGED clientVars
      BY <1>0, <2>3 DEF ThreadChecksStop, TypeOK, ControllerTypeOK,
         ThreadStates
    <2>4. CASE ThreadPick /\ UNCHANGED clientVars
      <3>1. Head(msgQ) \in Msgs /\ Tail(msgQ) \in Seq(Msgs)
        BY <1>0, <2>4 DEF ThreadPick, CurrentInv, ControllerTypeOK
      <3> QED
        BY <1>0, <2>4, <3>1 DEF ThreadPick, MayCrash, TypeOK,
           ControllerTypeOK, ThreadStates
    <2>5. CASE ThreadProgram /\ UNCHANGED clientVars
      <3>1. loaded' \in Msgs \cup {NoMsg}
        BY <1>0, <2>5 DEF ThreadProgram, CurrentInv, Working, ControllerTypeOK
      <3> QED
        BY <1>0, <2>5, <3>1 DEF ThreadProgram, MayCrash, TypeOK,
           ControllerTypeOK, ThreadStates
    <2>6. CASE ThreadPoll /\ UNCHANGED clientVars
      <3>1. /\ execLog \in Seq(Msgs \cup {NoMsg})
            /\ Append(execLog, loaded) \in Seq(Msgs \cup {NoMsg})
        BY <1>0 DEF ControllerTypeOK
      <3>2. execLog' \in Seq(Msgs \cup {NoMsg}) /\ thread' \in ThreadStates
        BY <2>6, <3>1 DEF ThreadPoll, ThreadStates
      <3> QED
        BY <1>0, <2>6, <3>2 DEF ThreadPoll, TypeOK, ControllerTypeOK
    <2>7. CASE ThreadCollect /\ UNCHANGED clientVars
      <3>1. ControllerTypeOK'
        BY <1>0, <2>7 DEF ThreadCollect, MayCrash, coreVars, memVars,
           ControllerTypeOK, ThreadStates
      <3> QED
        BY <1>0, <2>7, <3>1 DEF TypeOK, clientVars
    <2>8. CASE ThreadFinalize /\ UNCHANGED clientVars
      BY <1>0, <2>8 DEF ThreadFinalize, TypeOK, ControllerTypeOK,
         ThreadStates
    <2>9. CASE Complete
      BY <1>0, <2>9 DEF Complete, ThreadComplete, MayCrash, TypeOK,
         ControllerTypeOK, ThreadStates
    <2> QED
      BY <1>2, <2>1, <2>2, <2>3, <2>4, <2>5, <2>6, <2>7, <2>8, <2>9
      DEF ThreadStep
  <1>3. ASSUME (PumpMessages \/ HardwareIdle) /\ UNCHANGED clientVars
        PROVE  TypeOK'
    <2>1. CASE PumpMessages
      <3>1. Head(coreQ) \in Msgs /\ Tail(coreQ) \in Seq(Msgs)
        BY <1>0, <2>1 DEF PumpMessages, ControllerTypeOK
      <3>2. msgQ' \in Seq(Msgs)
        BY <1>0, <2>1, <3>1 DEF PumpMessages, TransferOneMessage,
           ControllerTypeOK
      <3>3. ControllerTypeOK'
        BY <1>0, <2>1, <3>1, <3>2 DEF PumpMessages, MayCrash, memVars,
           ControllerTypeOK
      <3> QED
        BY <1>0, <1>3, <3>3 DEF TypeOK, clientVars
    <2>2. CASE HardwareIdle
      <3>1. ControllerTypeOK'
        BY <1>0, <2>2 DEF HardwareIdle, coreVars, memVars, ControllerTypeOK
      <3> QED
        BY <1>0, <1>3, <3>1 DEF TypeOK, clientVars
    <2> QED
      BY <1>3, <2>1, <2>2
  <1>4. ASSUME RemoveStep
        PROVE  TypeOK'
    <2>1. CASE (RemoveUnmap \/ RemoveStopQueue) /\ UNCHANGED clientVars
      <3>1. ControllerTypeOK'
        BY <1>0, <2>1 DEF RemoveUnmap, RemoveStopQueue, MayCrash, coreVars,
           memVars, ControllerTypeOK, CtlStates
      <3> QED
        BY <1>0, <2>1, <3>1 DEF TypeOK, clientVars
    <2>2. CASE DetachDevice
      BY <1>0, <2>2 DEF DetachDevice, RemoveChildren, MayCrash, TypeOK,
         ControllerTypeOK, CtlStates
    <2> QED
      BY <1>4, <2>1, <2>2 DEF RemoveStep
  <1>5. ASSUME Environment
        PROVE  TypeOK'
    <2>1. CASE ProbeStart /\ UNCHANGED clientVars
      <3>1. /\ ctl' \in CtlStates /\ thread' \in ThreadStates
            /\ mapped' \in BOOLEAN
        BY <1>0, <2>1 DEF ProbeStart, ControllerTypeOK, ThreadStates,
           CtlStates
      <3> QED
        BY <1>0, <2>1, <3>1 DEF ProbeStart, TypeOK, ControllerTypeOK
    <2>2. CASE ProbeRegister /\ UNCHANGED clientVars
      <3>1. ControllerTypeOK'
        BY <1>0, <2>2 DEF ProbeRegister, memVars, ControllerTypeOK, CtlStates
      <3> QED
        BY <1>0, <2>2, <3>1 DEF TypeOK, clientVars
    <2>3. CASE RemoveStop /\ UNCHANGED clientVars
      BY <1>0, <2>3 DEF RemoveStop, TypeOK, ControllerTypeOK, ThreadStates,
         CtlStates
    <2>4. CASE (RemoveFailed \/ RemoveStopNoThread) /\ UNCHANGED clientVars
      BY <1>0, <2>4 DEF RemoveFailed, RemoveStopNoThread, TypeOK, ControllerTypeOK
    <2>5. CASE AttachDevice
      BY <1>0, <2>5 DEF AttachDevice, TypeOK, ControllerTypeOK
    <2> QED
      BY <1>5, <2>1, <2>2, <2>3, <2>4, <2>5 DEF Environment
  <1>6. CASE UNCHANGED vars
    BY <1>0, <1>6 DEF vars, TypeOK, ControllerTypeOK
  <1> QED
    BY <1>1, <1>2, <1>3, <1>4, <1>5, <1>6 DEF Next
-----------------------------------------------------------------------------
LEMMA CurrentInvStep == IInv /\ [Next]_vars => CurrentInv'
  <1> SUFFICES ASSUME IInv, [Next]_vars PROVE CurrentInv'
    OBVIOUS
  <1> USE DEF ctlVars, coreVars, threadVars, memVars, clientVars, CurrentInv, Working
  <1>0. TypeOK /\ ControllerTypeOK /\ CurrentInv /\ CtlInv /\ NoMsg \notin Msgs
    BY DEF IInv, TypeOK, NoMsg, Msgs
  <1>1. ASSUME NEW c \in Clients, IoctlEnter(c) \/ ClientStep(c)
        PROVE  CurrentInv'
    <2>1. UNCHANGED <<curMsg, msgQ, thread, held, ctl>>
      BY <1>1 DEF IoctlEnter, ClientStep, IoctlLock, MessageBuild, IoctlFails,
         SyncSubmit, SpiAsync, SyncShutdown, SyncWake, SyncTimeout, SyncReturn
    <2>2. UNCHANGED coreQ \/ running
      BY <1>1 DEF IoctlEnter, ClientStep, IoctlLock, MessageBuild, IoctlFails,
         SyncSubmit, SpiAsync, SyncShutdown, SyncWake, SyncTimeout, SyncReturn
    <2> QED
      BY <1>0, <2>1, <2>2 DEF CtlInv
  <1>2. ASSUME ThreadStep
        PROVE  CurrentInv'
    <2>1. CASE ThreadWake
      BY <1>0, <2>1 DEF ThreadWake
    <2>2. CASE ThreadTimesOut
      BY <1>0, <2>2 DEF ThreadTimesOut
    <2>3. CASE ThreadChecksStop
      BY <1>0, <2>3 DEF ThreadChecksStop
    <2>4. CASE ThreadPick
      <3>1. msgQ = <<curMsg>> /\ curMsg \in Msgs
        BY <1>0, <2>4 DEF ThreadPick
      <3>2. held' = curMsg /\ msgQ' = <<>>
        BY <2>4, <3>1 DEF ThreadPick
      <3> QED
        BY <1>0, <2>4, <3>1, <3>2 DEF ThreadPick
    <2>5. CASE ThreadProgram \/ ThreadPoll \/ ThreadCollect
      BY <1>0, <2>5 DEF ThreadProgram, ThreadPoll, ThreadCollect
    <2>6. CASE ThreadFinalize
      BY <1>0, <2>6 DEF ThreadFinalize
    <2>7. CASE Complete
      BY <1>0, <2>7 DEF Complete, ThreadComplete
    <2> QED
      BY <1>2, <2>1, <2>2, <2>3, <2>4, <2>5, <2>6, <2>7 DEF ThreadStep
  <1>3. ASSUME (PumpMessages \/ HardwareIdle) /\ UNCHANGED clientVars
        PROVE  CurrentInv'
    <2>1. CASE PumpMessages
      <3>1. msgQ = <<>> /\ thread \notin Working
        BY <1>0, <2>1 DEF PumpMessages
      <3>2. Head(coreQ) \in Msgs
        BY <1>0, <2>1 DEF PumpMessages, ControllerTypeOK
      <3>3. msgQ' = <<curMsg'>> /\ curMsg' \in Msgs
        BY <2>1, <3>1, <3>2 DEF PumpMessages, TransferOneMessage
      <3> QED
        BY <1>0, <2>1, <3>1, <3>3 DEF PumpMessages
    <2>2. CASE HardwareIdle
      BY <1>0, <2>2 DEF HardwareIdle
    <2> QED
      BY <1>3, <2>1, <2>2
  <1>4. ASSUME RemoveStep
        PROVE  CurrentInv'
    BY <1>0, <1>4 DEF RemoveStep, RemoveUnmap, RemoveStopQueue, DetachDevice,
       RemoveChildren, CtlInv
  <1>5. ASSUME Environment
        PROVE  CurrentInv'
    BY <1>0, <1>5 DEF Environment, ProbeStart, ProbeRegister, RemoveStop,
       RemoveStopNoThread, RemoveFailed, AttachDevice, CtlInv
  <1>6. CASE UNCHANGED vars
    BY <1>0, <1>6 DEF vars
  <1> QED
    BY <1>1, <1>2, <1>3, <1>4, <1>5, <1>6 DEF Next
-----------------------------------------------------------------------------
\* The steps of everyone but the clients keep what the clients rely on.
LEMMA OthersKeepClients ==
  ASSUME TypeOK, CurrentInv, Next,
         ~ \E c \in Clients : IoctlEnter(c) \/ ClientStep(c)
  PROVE  /\ UNCHANGED <<bufLock, pc, msg, submitted, ret, timedOut, freed>>
         /\ \A m \in Msgs : status[m] # "unset" => status'[m] # "unset"
  <1> USE DEF ctlVars, coreVars, threadVars, memVars, clientVars
  <1>1. ASSUME ThreadStep
        PROVE  UNCHANGED <<bufLock, pc, msg, submitted, ret, timedOut, freed>>
    BY <1>1 DEF ThreadStep, ThreadWake, ThreadTimesOut, ThreadChecksStop,
       ThreadPick, ThreadProgram, ThreadPoll, ThreadCollect, ThreadFinalize,
       Complete, ThreadComplete
  <1>2. ASSUME ThreadStep
        PROVE  UNCHANGED status \/ status' = [status EXCEPT ![at[held]] = "ok"]
    BY <1>2 DEF ThreadStep, ThreadWake, ThreadTimesOut, ThreadChecksStop,
       ThreadPick, ThreadProgram, ThreadPoll, ThreadCollect, ThreadFinalize,
       Complete, ThreadComplete
  <1>3. ASSUME \/ (PumpMessages \/ HardwareIdle) /\ UNCHANGED clientVars
               \/ RemoveStep \/ Environment
        PROVE  UNCHANGED <<bufLock, pc, msg, submitted, ret, timedOut, freed,
                           status>>
    BY <1>3 DEF PumpMessages, HardwareIdle, RemoveStep, RemoveUnmap,
       RemoveStopQueue, DetachDevice, RemoveChildren, Environment, ProbeStart,
       ProbeRegister, RemoveStop, RemoveStopNoThread, RemoveFailed, AttachDevice
  <1> QED
    BY <1>1, <1>2, <1>3 DEF Next, TypeOK, ControllerTypeOK

LEMMA LockInvStep == IInv /\ [Next]_vars => LockInv'
  <1> SUFFICES ASSUME IInv, [Next]_vars PROVE LockInv'
    OBVIOUS
  <1> USE DEF LockInv, Inside
  <1>0. TypeOK /\ ControllerTypeOK /\ CurrentInv /\ LockInv /\ NoMsg \notin Msgs
    BY DEF IInv, TypeOK, NoMsg, Msgs
  <1>a. \A c \in Clients :
          msg[c] # NoMsg => msg[c] \in Msgs /\ submitted \in Nat
    BY <1>0 DEF TypeOK
  <1>1. ASSUME NEW c \in Clients, IoctlEnter(c) \/ ClientStep(c)
        PROVE  LockInv'
    <2> USE <1>0, <1>a DEF TypeOK, ctlVars, coreVars, threadVars, memVars
    <2>1. CASE IoctlEnter(c)
      BY <2>1 DEF IoctlEnter
    <2>2. CASE IoctlLock(c)
      BY <2>2 DEF IoctlLock
    <2>3. CASE MessageBuild(c)
      <3>0. /\ submitted' = submitted + 1 /\ submitted < MaxMsgs /\ MaxMsgs \in Nat
            /\ submitted \in 0 .. MaxMsgs /\ freed \subseteq Msgs /\ timedOut \subseteq Msgs
        BY <2>3, SpiControllerAssumption DEF MessageBuild, ControllerTypeOK
      <3>1. /\ submitted' = submitted + 1 /\ submitted + 1 \in Msgs
            /\ \A m \in freed \cup timedOut : m < submitted' /\ m <= submitted'
        BY <3>0 DEF Msgs
      <3>2. \A d \in Clients \ {c} : d \notin bufLock /\ msg[d] = NoMsg
        BY <2>3 DEF MessageBuild
      <3>3. /\ \A d \in Clients : pc'[d] = IF d = c THEN "submit" ELSE pc[d]
            /\ \A d \in Clients : msg'[d] = IF d = c THEN submitted' ELSE msg[d]
            /\ UNCHANGED <<bufLock, freed, timedOut, status>>
        BY <2>3, <3>1 DEF MessageBuild
      <3>4. submitted' # NoMsg /\ submitted' \notin freed /\ pc[c] = "build"
        BY <2>3, <3>1 DEF MessageBuild
      <3> QED
        BY <3>1, <3>2, <3>3, <3>4
    <2>4. CASE IoctlFails(c)
      BY <2>4 DEF IoctlFails
    <2>5. CASE SyncSubmit(c)
      <3>1. \A d \in Clients \ {c} : d \notin bufLock
        BY <2>5 DEF SyncSubmit
      <3>2. status'[msg[c]] = "inprogress"
        BY <2>5 DEF SyncSubmit, SpiAsync, ControllerTypeOK
      <3> QED
        BY <2>5, <3>1, <3>2 DEF SyncSubmit, SpiAsync
    <2>6. CASE SyncShutdown(c) \/ SyncReturn(c)
      <3>1. /\ pc[c] \in {"submit", "wait", "return"} /\ \E r : Leave(c, r)
            /\ UNCHANGED <<status, submitted, timedOut>>
        BY <2>6 DEF SyncShutdown, SyncReturn
      <3>2. \A d \in Clients \ {c} : d \notin bufLock /\ msg[d] = NoMsg
        BY <3>1
      <3> QED
        BY <3>1, <3>2 DEF Leave
    <2>7. CASE SyncWake(c)
      BY <2>7 DEF SyncWake
    <2>8. CASE SyncTimeout(c)
      BY <2>8 DEF SyncTimeout
    <2> QED
      BY <1>1, <2>1, <2>2, <2>3, <2>4, <2>5, <2>6, <2>7, <2>8 DEF ClientStep
  <1>2. ASSUME Next, ~ \E c \in Clients : IoctlEnter(c) \/ ClientStep(c)
        PROVE  LockInv'
    BY <1>0, <1>a, <1>2, OthersKeepClients
  <1>3. CASE UNCHANGED vars
    BY <1>0, <1>3 DEF vars, ctlVars, threadVars, memVars, clientVars
  <1> QED
    BY <1>1, <1>2, <1>3
-----------------------------------------------------------------------------
\* The elements of a queue after an element is put in or taken out.
LEMMA AppendElements ==
  ASSUME NEW S, NEW s \in Seq(S), NEW e \in S
  PROVE  /\ Append(s, e) \in Seq(S)
         /\ DOMAIN Append(s, e) = DOMAIN s \cup {Len(s) + 1}
         /\ \A i \in DOMAIN s : Append(s, e)[i] = s[i] /\ i < Len(s) + 1
         /\ Append(s, e)[Len(s) + 1] = e
  OBVIOUS

LEMMA TailElements ==
  ASSUME NEW S, NEW s \in Seq(S), s # <<>>
  PROVE  /\ Head(s) = s[1] /\ 1 \in DOMAIN s
         /\ \A i \in DOMAIN Tail(s) :
              i + 1 \in DOMAIN s /\ Tail(s)[i] = s[i + 1] /\ 1 < i + 1
         /\ DOMAIN s \subseteq Nat /\ DOMAIN Tail(s) \subseteq Nat
  OBVIOUS

LEMMA TimedOutGrows == [Next]_vars => timedOut \subseteq timedOut'
  <1> USE DEF clientVars
  <1>1. Next => timedOut \subseteq timedOut'
    BY DEF Next, ClientStep, IoctlEnter, IoctlLock, MessageBuild, IoctlFails,
       SyncSubmit, SyncShutdown, SyncWake, SyncTimeout, SyncReturn, ThreadStep,
       Complete, RemoveStep, DetachDevice, Environment, AttachDevice
  <1> QED
    BY <1>1 DEF vars

LEMMA MessagesAreNumbers ==
  ASSUME TypeOK
  PROVE  /\ References \subseteq Msgs /\ Executed \subseteq Msgs \cup {NoMsg}
         /\ Past \subseteq Msgs \cup {NoMsg}
         /\ References \cup Executed \cup Past \subseteq Nat /\ submitted \in Nat
         /\ loaded \in Nat
  <1>1. \A i \in DOMAIN coreQ : coreQ[i] \in Msgs
    BY DEF TypeOK, ControllerTypeOK
  <1>2. \A i \in DOMAIN msgQ : msgQ[i] \in Msgs
    BY DEF TypeOK, ControllerTypeOK
  <1>3. \A i \in DOMAIN execLog : execLog[i] \in Msgs \cup {NoMsg}
    BY DEF TypeOK, ControllerTypeOK
  <1>4. References \subseteq Msgs /\ Executed \subseteq Msgs \cup {NoMsg}
    BY <1>1, <1>2, <1>3 DEF References, Executed, TypeOK, ControllerTypeOK
  <1>5. Past \subseteq Msgs \cup {NoMsg} /\ loaded \in Msgs \cup {NoMsg}
    BY <1>4 DEF Past, TypeOK, ControllerTypeOK
  <1>6. Msgs \cup {NoMsg} \subseteq Nat /\ submitted \in Nat
    BY DEF Msgs, NoMsg, TypeOK
  <1> QED
    BY <1>4, <1>5, <1>6

\* Steps that move no message keep OrderInv.
LEMMA SamePlaceSameOrder ==
  ASSUME OrderInv, Unsubmitted' => Unsubmitted,
         UNCHANGED <<coreQ, curMsg, msgQ, held, execLog, loaded, over, submitted>>,
         timedOut \subseteq timedOut',
         thread \in Commanded <=> thread' \in Commanded
  PROVE  OrderInv'
  <1>1. References' = References /\ Past' = Past
    BY DEF References, Past, Executed
  <1>2. ExecutedInOrder'
    BY DEF ExecutedInOrder, OrderInv
  <1> QED
    BY <1>1, <1>2 DEF OrderInv

LEMMA BuildKeepsOrder ==
  ASSUME IInv, NEW c \in Clients, MessageBuild(c)
  PROVE  OrderInv'
  <1>0. /\ OrderInv /\ CommandInv /\ submitted \in Nat
        /\ References \cup Executed \cup Past \subseteq Nat
    BY MessagesAreNumbers DEF IInv
  <1>1. /\ UNCHANGED <<coreQ, curMsg, msgQ, held, execLog, loaded, thread, timedOut>>
        /\ submitted' = submitted + 1
        /\ over \subseteq over' /\ over' \subseteq over \cup {submitted + 1}
    BY DEF MessageBuild, ctlVars, coreVars, threadVars
  <1>2. \A m \in {loaded} \cup Executed : m <= submitted
    <2>1. \A m \in over : m <= submitted
      BY <1>0 DEF CommandInv
    <2>2. \A m \in Past : m <= submitted
      BY <1>0 DEF OrderInv
    <2> QED
      BY <2>1, <2>2 DEF Past
  <1>3. \A m \in {loaded} \cup Executed : m \in over' <=> m \in over
    BY <1>0, <1>1, <1>2
  <1>4. References' = References /\ Past' = Past /\ (loaded \in over' <=> loaded \in over)
    BY <1>1, <1>3 DEF References, Executed, Past
  <1>5. \A m \in References' \cup Past' : m <= submitted' /\ m < submitted'
    BY <1>0, <1>1, <1>4 DEF OrderInv
  <1>6. ExecutedInOrder'
    BY <1>0, <1>1, <1>3 DEF OrderInv, ExecutedInOrder, Executed
  <1> QED
    BY <1>0, <1>1, <1>4, <1>5, <1>6 DEF OrderInv

LEMMA SubmitKeepsOrder ==
  ASSUME IInv, NEW c \in Clients, SyncSubmit(c)
  PROVE  OrderInv'
  <1>0. /\ OrderInv /\ LockInv /\ TypeOK /\ ControllerTypeOK
        /\ submitted \in Nat /\ References \cup Past \subseteq Nat
    BY MessagesAreNumbers DEF IInv, TypeOK
  <1>1. /\ UNCHANGED <<curMsg, msgQ, held, execLog, loaded, over, thread,
                       submitted, timedOut>>
        /\ coreQ' = Append(coreQ, submitted)
        /\ submitted \in Msgs
    BY <1>0 DEF SyncSubmit, SpiAsync, LockInv, TypeOK
  <1>2. Unsubmitted /\ ~Unsubmitted'
    BY <1>0 DEF SyncSubmit, Unsubmitted, LockInv, Inside, TypeOK
  <1>3. /\ DOMAIN coreQ' = DOMAIN coreQ \cup {Len(coreQ) + 1}
        /\ \A i \in DOMAIN coreQ : coreQ'[i] = coreQ[i] /\ i < Len(coreQ) + 1
        /\ coreQ'[Len(coreQ) + 1] = submitted
        /\ Len(coreQ) + 1 \in Nat /\ DOMAIN coreQ \subseteq Nat
    BY <1>0, <1>1, AppendElements DEF ControllerTypeOK
  <1>4. References' \subseteq References \cup {submitted} /\ Past' = Past
    BY <1>1, <1>3 DEF References, Executed, Past
  <1>5. /\ \A i \in DOMAIN coreQ : coreQ[i] < submitted
        /\ \A m \in Past : m < submitted
        /\ curMsg # NoMsg => curMsg < submitted
    BY <1>0, <1>2 DEF OrderInv, References
  <1>6. \A i, j \in DOMAIN coreQ' : i < j => coreQ'[i] < coreQ'[j]
    BY <1>0, <1>3, <1>5 DEF OrderInv
  <1>7. /\ curMsg' # NoMsg => \A i \in DOMAIN coreQ' : curMsg' < coreQ'[i]
        /\ \A m \in Past', j \in DOMAIN coreQ' : m < coreQ'[j]
    BY <1>0, <1>1, <1>3, <1>4, <1>5 DEF OrderInv
  <1>8. \A m \in References' \cup Past' :
          m <= submitted' /\ (Unsubmitted' => m < submitted')
    BY <1>0, <1>1, <1>2, <1>4 DEF OrderInv
  <1>9. ExecutedInOrder'
    BY <1>0, <1>1 DEF OrderInv, ExecutedInOrder
  <1> QED
    BY <1>0, <1>1, <1>4, <1>6, <1>7, <1>8, <1>9 DEF OrderInv

LEMMA PumpKeepsOrder ==
  ASSUME IInv, PumpMessages, UNCHANGED clientVars
  PROVE  OrderInv'
  <1>0. /\ OrderInv /\ CurrentInv /\ ControllerTypeOK
        /\ References \cup Past \subseteq Nat
    BY MessagesAreNumbers DEF IInv, TypeOK
  <1>1. /\ UNCHANGED <<held, execLog, loaded, over, thread, submitted, pc, timedOut>>
        /\ coreQ # <<>> /\ curMsg = NoMsg
        /\ curMsg' = Head(coreQ) /\ coreQ' = Tail(coreQ) /\ msgQ = <<>>
        /\ msgQ' = <<Head(coreQ)>>
    BY <1>0 DEF PumpMessages, TransferOneMessage, clientVars, CurrentInv, NoMsg,
       Msgs
  <1>2. /\ Head(coreQ) = coreQ[1] /\ 1 \in DOMAIN coreQ
        /\ \A i \in DOMAIN coreQ' :
             i + 1 \in DOMAIN coreQ /\ coreQ'[i] = coreQ[i + 1] /\ 1 < i + 1
        /\ DOMAIN coreQ \subseteq Nat /\ DOMAIN coreQ' \subseteq Nat
    BY <1>0, <1>1, TailElements DEF ControllerTypeOK
  <1>3. References' \subseteq References /\ Past' = Past
    BY <1>1, <1>2 DEF References, Executed, Past
  <1>4. \A i, j \in DOMAIN coreQ' : i < j => coreQ'[i] < coreQ'[j]
    BY <1>0, <1>2 DEF OrderInv
  <1>5. /\ \A i \in DOMAIN coreQ' : curMsg' < coreQ'[i]
        /\ \A m \in Past', j \in DOMAIN coreQ' : m < coreQ'[j]
    BY <1>0, <1>1, <1>2, <1>3 DEF OrderInv
  <1>6. \A m \in Past' : m <= curMsg' /\ m < curMsg'
    <2>1. curMsg' = coreQ[1] /\ coreQ[1] \in References
      BY <1>1, <1>2 DEF References
    <2> QED
      BY <1>0, <1>2, <1>3, <2>1 DEF OrderInv
  <1>7. \A m \in References' \cup Past' :
          m <= submitted' /\ (Unsubmitted' => m < submitted')
    BY <1>0, <1>1, <1>3 DEF OrderInv, Unsubmitted
  <1>8. ExecutedInOrder'
    BY <1>0, <1>1 DEF OrderInv, ExecutedInOrder
  <1> QED
    BY <1>0, <1>1, <1>3, <1>4, <1>5, <1>6, <1>7, <1>8 DEF OrderInv

\* What the thread puts into the controller: the command of its message, of
\* one that was built over it, or, if that call is over, nothing new.
LEMMA WhatIsLoaded ==
  ASSUME IInv, ThreadProgram
  PROVE  /\ held = curMsg /\ curMsg \in Msgs /\ curMsg \in References
         /\ at[held] \in freed => loaded' = loaded
         /\ at[held] \notin freed => loaded' = at[held]
         /\ at[held] # held => at[held] \in over
  <1>1. held = curMsg /\ held \in Msgs /\ NoMsg \notin Msgs
    BY DEF IInv, CurrentInv, Working, ThreadProgram, NoMsg, Msgs
  <1> QED
    BY <1>1 DEF ThreadProgram, References, IInv, CommandInv

LEMMA ProgramKeepsOrder ==
  ASSUME IInv, ThreadProgram, UNCHANGED clientVars
  PROVE  OrderInv'
  <1>0. /\ OrderInv /\ References \cup Past \subseteq Nat
        /\ curMsg \in Msgs /\ curMsg \in References /\ NoMsg \notin Msgs
    BY MessagesAreNumbers, WhatIsLoaded DEF IInv, NoMsg, Msgs
  <1>1. /\ UNCHANGED <<coreQ, curMsg, msgQ, held, execLog, over, submitted, pc,
                       timedOut>>
        /\ thread = "program" /\ thread' = "poll"
    BY DEF ThreadProgram, clientVars, coreVars
  <1>2. loaded' \in over \cup {loaded, curMsg}
    BY WhatIsLoaded
  <1>3. References' = References /\ Past' \subseteq Past \cup {curMsg}
    BY <1>1, <1>2 DEF References, Executed, Past
  <1>4. \A m \in Past : m < curMsg /\ m <= curMsg
    BY <1>0, <1>1 DEF OrderInv, Commanded
  <1>5. loaded' \notin over' => \A m \in Past' : m <= loaded'
    BY <1>0, <1>1, <1>2, <1>3, <1>4 DEF OrderInv, Past, Executed
  <1>6. \A m \in References' \cup Past' :
          m <= submitted' /\ (Unsubmitted' => m < submitted')
    BY <1>0, <1>1, <1>3 DEF OrderInv, Unsubmitted
  <1>7. \A m \in Past', j \in DOMAIN coreQ' : m < coreQ'[j]
    BY <1>0, <1>1, <1>3 DEF OrderInv
  <1>8. \A m \in Past' : m <= curMsg'
    BY <1>0, <1>1, <1>3, <1>4
  <1>9. ExecutedInOrder'
    BY <1>0, <1>1 DEF OrderInv, ExecutedInOrder
  <1> QED
    BY <1>0, <1>1, <1>5, <1>6, <1>7, <1>8, <1>9 DEF OrderInv, Commanded

\* The thread executes the command in the controller: the newest so far, and
\* still older than what waits in the core's queue.
LEMMA PollKeepsOrder ==
  ASSUME IInv, ThreadPoll, UNCHANGED clientVars
  PROVE  OrderInv'
  <1>0. /\ OrderInv /\ CommandInv /\ ControllerTypeOK
        /\ Executed \cup Past \subseteq Nat /\ loaded \in Nat
    BY MessagesAreNumbers DEF IInv, TypeOK
  <1>1. /\ UNCHANGED <<coreQ, curMsg, msgQ, held, loaded, over, submitted, pc, timedOut>>
        /\ thread = "poll"
    BY DEF ThreadPoll, clientVars, coreVars
  <1>2. CASE busy
    <2>1. UNCHANGED execLog /\ thread' = "asleep"
      BY <1>2 DEF ThreadPoll
    <2> QED
      BY <1>0, <1>1, <2>1, SamePlaceSameOrder DEF Unsubmitted, Commanded
  <1>3. CASE ~busy
    <2>1. execLog' = Append(execLog, loaded) /\ thread' = "collect"
      BY <1>3 DEF ThreadPoll
    <2>2. /\ DOMAIN execLog' = DOMAIN execLog \cup {Len(execLog) + 1}
          /\ \A i \in DOMAIN execLog :
               execLog'[i] = execLog[i] /\ i < Len(execLog) + 1
          /\ execLog'[Len(execLog) + 1] = loaded
          /\ Len(execLog) + 1 \in Nat /\ DOMAIN execLog \subseteq Nat
      BY <1>0, <2>1, AppendElements DEF ControllerTypeOK
    <2>3. References' = References /\ Executed' = Executed \cup {loaded}
      BY <1>1, <2>2 DEF References, Executed
    <2>4. Past' = Past
      BY <1>1, <2>3 DEF Past
    <2>5. loaded \notin over =>
            \A i \in DOMAIN execLog : execLog[i] \notin over =>
              /\ execLog[i] <= loaded
              /\ execLog[i] = loaded => timedOut # {}
      BY <1>0, <1>1 DEF OrderInv, CommandInv, Past, Executed
    <2>6. ExecutedInOrder'
      BY <1>0, <1>1, <2>2, <2>5 DEF OrderInv, ExecutedInOrder
    <2>7. \A m \in References' \cup Past' :
            m <= submitted' /\ (Unsubmitted' => m < submitted')
      BY <1>0, <1>1, <2>3, <2>4 DEF OrderInv, Unsubmitted
    <2> QED
      BY <1>0, <1>1, <2>1, <2>4, <2>6, <2>7 DEF OrderInv, Commanded
  <1> QED
    BY <1>2, <1>3

\* Steps that hand a message on, or drop it, without executing anything.
LEMMA HandOverKeepsOrder ==
  ASSUME IInv, \/ ThreadPick /\ UNCHANGED clientVars
               \/ ThreadFinalize /\ UNCHANGED clientVars
               \/ Complete
  PROVE  OrderInv'
  <1>0. /\ OrderInv /\ CurrentInv /\ TypeOK /\ NoMsg \notin Msgs
    BY DEF IInv, NoMsg, Msgs
  <1>1. /\ UNCHANGED <<coreQ, execLog, loaded, over, submitted, pc, timedOut>>
        /\ thread' \notin Commanded
        /\ curMsg' = NoMsg \/ (curMsg' = curMsg /\ thread \notin Commanded)
    BY DEF ThreadPick, ThreadFinalize, ThreadComplete, Complete, clientVars, coreVars,
       Commanded
  <1>2. References' \subseteq References /\ Past' = Past
    <2>1. CASE ThreadPick
      <3>1. msgQ = <<curMsg>> /\ curMsg # NoMsg
        BY <1>0, <2>1 DEF ThreadPick, CurrentInv
      <3>2. msgQ' = <<>> /\ held' = curMsg
        BY <2>1, <3>1 DEF ThreadPick
      <3> QED
        BY <1>1, <3>1, <3>2 DEF References, Executed, Past
    <2>2. CASE ThreadFinalize \/ ThreadComplete
      BY <1>1, <2>2 DEF ThreadFinalize, ThreadComplete, References, Executed, Past
    <2> QED
      BY <2>1, <2>2 DEF Complete
  <1>3. ExecutedInOrder'
    BY <1>0, <1>1 DEF OrderInv, ExecutedInOrder
  <1>4. \A m \in References' \cup Past' :
          m <= submitted' /\ (Unsubmitted' => m < submitted')
    BY <1>0, <1>1, <1>2 DEF OrderInv, Unsubmitted
  <1> QED
    BY <1>0, <1>1, <1>2, <1>3, <1>4 DEF OrderInv, Commanded

\* The controller's probe and remove, the hardware and idle turns of the thread.
LEMMA EnvironmentMovesNothing ==
  ASSUME IInv,
         \/ /\ HardwareIdle \/ ThreadWake \/ ThreadTimesOut \/ ThreadChecksStop
            /\ UNCHANGED clientVars
         \/ RemoveStep \/ Environment
  PROVE  /\ UNCHANGED <<coreQ, curMsg, msgQ, held, execLog, loaded, over, submitted,
                        status, ret, pc, at, freed, timedOut>>
         /\ \/ UNCHANGED thread
            \/ {thread, thread'} \subseteq {"poll", "asleep"}
            \/ {thread, thread'} \cap (Commanded \cup {"program"}) = {}
  <1> USE DEF ctlVars, coreVars, threadVars, memVars, clientVars
  <1>1. CASE /\ HardwareIdle \/ ThreadWake \/ ThreadTimesOut \/ ThreadChecksStop
             /\ UNCHANGED clientVars
    BY <1>1 DEF HardwareIdle, ThreadWake, ThreadTimesOut, ThreadChecksStop, Commanded
  <1>2. CASE RemoveStep
    BY <1>2 DEF RemoveStep, RemoveUnmap, RemoveStopQueue, DetachDevice, RemoveChildren
  <1>3. CASE Environment
    <2>1. UNCHANGED <<coreQ, curMsg, msgQ, held, execLog, loaded, over, submitted,
                      status, ret, pc, at, freed, timedOut>>
      BY <1>3 DEF Environment, ProbeStart, ProbeRegister, RemoveStop,
         RemoveStopNoThread, RemoveFailed, AttachDevice
    <2>2. \/ UNCHANGED thread
          \/ thread = "none" /\ thread' = "wait"
          \/ thread = "asleep" /\ thread' = "poll"
      BY <1>3 DEF Environment, ProbeStart, ProbeRegister, RemoveStop,
         RemoveStopNoThread, RemoveFailed, AttachDevice, IInv, CtlInv
    <2> QED
      BY <2>1, <2>2 DEF Commanded
  <1> QED
    BY <1>1, <1>2, <1>3

LEMMA OrderInvStep == IInv /\ [Next]_vars => OrderInv'
  <1> SUFFICES ASSUME IInv, [Next]_vars PROVE OrderInv'
    OBVIOUS
  <1> USE DEF ctlVars, coreVars, threadVars, memVars, clientVars
  <1>0. OrderInv /\ TypeOK /\ timedOut \subseteq timedOut'
    BY TimedOutGrows DEF IInv
  <1>1. ASSUME NEW c \in Clients, IoctlEnter(c) \/ ClientStep(c)
        PROVE  OrderInv'
    <2>1. CASE \/ IoctlEnter(c) \/ IoctlLock(c) \/ IoctlFails(c)
               \/ SyncWake(c) \/ SyncTimeout(c) \/ SyncShutdown(c) \/ SyncReturn(c)
      <3>1. /\ UNCHANGED <<coreQ, curMsg, msgQ, held, execLog, loaded, over,
                           submitted, thread>>
            /\ \E s \in {"lock", "build", "idle", "return"} : pc' = [pc EXCEPT ![c] = s]
        BY <2>1 DEF IoctlEnter, IoctlLock, IoctlFails, SyncWake, SyncTimeout,
           SyncShutdown, SyncReturn, Leave
      <3>2. Unsubmitted' => Unsubmitted
        BY <1>0, <3>1 DEF Unsubmitted, TypeOK
      <3> QED
        BY <1>0, <3>1, <3>2, SamePlaceSameOrder
    <2> QED
      BY <1>1, <2>1, BuildKeepsOrder, SubmitKeepsOrder DEF ClientStep
  <1>2. CASE \/ /\ HardwareIdle \/ ThreadWake \/ ThreadTimesOut \/ ThreadChecksStop
                /\ UNCHANGED clientVars
             \/ RemoveStep \/ Environment
    BY <1>0, <1>2, EnvironmentMovesNothing, SamePlaceSameOrder
    DEF Unsubmitted, Commanded
  <1>3. CASE ThreadCollect /\ UNCHANGED clientVars
    BY <1>0, <1>3, SamePlaceSameOrder DEF ThreadCollect, Unsubmitted, Commanded
  <1>4. CASE UNCHANGED vars
    BY <1>0, <1>4, SamePlaceSameOrder DEF vars, Unsubmitted
  <1> QED
    BY <1>1, <1>2, <1>3, <1>4, PumpKeepsOrder, ProgramKeepsOrder, PollKeepsOrder,
       HandOverKeepsOrder DEF Next, ThreadStep
-----------------------------------------------------------------------------
\* Steps that change neither the memory nor the controller's registers.
LEMMA SameCommands ==
  ASSUME CommandInv,
         UNCHANGED <<over, at, loaded, execLog, submitted, ret>>,
         freed \subseteq freed', timedOut \subseteq timedOut',
         \/ thread' \notin {"poll", "asleep", "collect"}
         \/ UNCHANGED held /\ (UNCHANGED thread \/ {thread, thread'} \subseteq {"poll", "asleep"}),
         \A m \in Msgs : status'[m] = "ok" => m \in Executed \cup over \cup freed
  PROVE  CommandInv'
  <1>1. Executed' = Executed /\ SuccessMeansExecuted'
    BY DEF Executed, CommandInv, SuccessMeansExecuted
  <1> QED
    BY <1>1 DEF CommandInv

LEMMA BuildKeepsCommands ==
  ASSUME IInv, NEW c \in Clients, MessageBuild(c)
  PROVE  CommandInv'
  <1>0. /\ CommandInv /\ OrderInv /\ CurrentInv /\ submitted \in Nat
        /\ References \subseteq Nat /\ NoMsg \notin Msgs
    BY MessagesAreNumbers DEF IInv, NoMsg, Msgs
  <1>1. /\ UNCHANGED <<held, loaded, execLog, thread, status, ret, freed, timedOut>>
        /\ submitted' = submitted + 1
    BY DEF MessageBuild, threadVars
  <1>2. CASE UNCHANGED <<at, over, oops>>
    <2>1. Executed' = Executed /\ SuccessMeansExecuted'
      BY <1>0, <1>1, <1>2 DEF Executed, CommandInv, SuccessMeansExecuted
    <2> QED
      BY <1>0, <1>1, <1>2, <2>1 DEF CommandInv
  <1>3. ASSUME NEW place \in Abandoned,
               at' = [m \in Msgs |->
                       IF m \in LyingAt(place) THEN submitted + 1 ELSE at[m]],
               over' = over \cup {submitted + 1}
        PROVE  CommandInv'
    <2>1. Executed' = Executed /\ SuccessMeansExecuted'
      BY <1>0, <1>1, <1>3 DEF Executed, CommandInv, SuccessMeansExecuted
    <2>2. \A m \in Msgs : at'[m] # m => m \in freed' /\ at'[m] \in over'
      BY <1>0, <1>1, <1>3 DEF CommandInv, LyingAt, Abandoned
    <2>3. thread \in Working /\ at'[held] = held => at[held] = held
      <3> SUFFICES ASSUME thread \in Working, at'[held] = held PROVE at[held] = held
        OBVIOUS
      <3>1. held \in Msgs /\ held <= submitted
        BY <1>0 DEF CurrentInv, OrderInv, References
      <3> QED
        BY <1>0, <1>3, <3>1 DEF Msgs
    <2>4. over' \subseteq 1 .. submitted'
      BY <1>0, <1>1, <1>3 DEF CommandInv
    <2> QED
      BY <1>0, <1>1, <1>3, <2>1, <2>2, <2>3, <2>4 DEF CommandInv, Working
  <1> QED
    BY <1>2, <1>3 DEF MessageBuild

\* A message that is answered "ok" was executed: nobody else has used its
\* place, as it is still the newest.
LEMMA LeaveKeepsCommands ==
  ASSUME IInv, NEW c \in Clients, SyncShutdown(c) \/ SyncReturn(c)
  PROVE  CommandInv'
  <1> USE DEF coreVars, threadVars
  <1>0. CommandInv /\ LockInv /\ TypeOK
    BY DEF IInv
  <1>1. /\ UNCHANGED <<over, at, loaded, execLog, submitted, held, thread, status,
                       timedOut>>
        /\ freed \subseteq freed'
        /\ msg[c] \in Msgs /\ msg[c] \notin freed
        /\ \E r \in {"shutdown", "fault", status[msg[c]]} :
             ret' = [ret EXCEPT ![msg[c]] = r]
        /\ SyncShutdown(c) => \E r \in {"shutdown", "fault"} :
             ret' = [ret EXCEPT ![msg[c]] = r]
    BY <1>0 DEF SyncShutdown, SyncReturn, Leave, LockInv, TypeOK
  <1>2. Executed' = Executed
    BY <1>1 DEF Executed
  <1>3. status[msg[c]] = "ok" => msg[c] \in Executed \cup over
    BY <1>0, <1>1 DEF CommandInv
  <1>4. SuccessMeansExecuted'
    BY <1>0, <1>1, <1>3 DEF SuccessMeansExecuted, CommandInv, Executed, TypeOK
  <1> QED
    BY <1>0, <1>1, <1>2, <1>4 DEF CommandInv

LEMMA ProgramKeepsCommands ==
  ASSUME IInv, ThreadProgram, UNCHANGED clientVars
  PROVE  CommandInv'
  <1>0. /\ CommandInv /\ OrderInv /\ LateOnlyAfterTimeout
        /\ Past \subseteq Nat /\ NoMsg \notin Msgs
    BY MessagesAreNumbers DEF IInv, NoMsg, Msgs
  <1>1. /\ UNCHANGED <<over, at, execLog, submitted, ret, held, status, freed, timedOut>>
        /\ thread = "program" /\ thread' = "poll"
    BY DEF ThreadProgram, clientVars, memVars
  <1>2. Executed' = Executed /\ SuccessMeansExecuted'
    BY <1>0, <1>1 DEF Executed, CommandInv, SuccessMeansExecuted
  <1>3. loaded' \in Executed \ over => timedOut # {}
    <2>1. CASE at[held] # held
      BY <1>0, <2>1, WhatIsLoaded DEF LateOnlyAfterTimeout, MixedOnlyAfterTimeout
    <2>2. CASE held \in freed
      BY <1>0, <2>2, WhatIsLoaded DEF LateOnlyAfterTimeout, DanglingOnlyAfterTimeout
    <2>3. CASE at[held] = held /\ held \notin freed
      <3>1. loaded' = curMsg /\ curMsg \in Msgs /\ curMsg \in Nat
        BY <2>3, WhatIsLoaded DEF Msgs
      <3>2. \A m \in Past : m < curMsg
        BY <1>0, <1>1, <3>1 DEF OrderInv, Commanded
      <3>3. curMsg \notin Past
        BY <1>0, <3>1, <3>2
      <3> QED
        BY <3>1, <3>3 DEF Past
    <2> QED
      BY <2>1, <2>2, <2>3
  <1>4. at[held] = held /\ held \notin freed => loaded' = held
    BY WhatIsLoaded
  <1> QED
    BY <1>0, <1>1, <1>2, <1>3, <1>4 DEF CommandInv

LEMMA PollKeepsCommands ==
  ASSUME IInv, ThreadPoll, UNCHANGED clientVars
  PROVE  CommandInv'
  <1>0. CommandInv /\ ControllerTypeOK
    BY DEF IInv, TypeOK
  <1>1. /\ UNCHANGED <<over, at, loaded, submitted, ret, held, status, freed, timedOut>>
        /\ thread = "poll"
    BY DEF ThreadPoll, clientVars, memVars
  <1>2. CASE busy
    BY <1>0, <1>1, <1>2, SameCommands DEF ThreadPoll, CommandInv
  <1>3. CASE ~busy
    <2>1. execLog' = Append(execLog, loaded) /\ thread' = "collect"
      BY <1>3 DEF ThreadPoll
    <2>2. /\ DOMAIN execLog' = DOMAIN execLog \cup {Len(execLog) + 1}
          /\ \A i \in DOMAIN execLog : execLog'[i] = execLog[i]
          /\ execLog'[Len(execLog) + 1] = loaded
      BY <1>0, <2>1, AppendElements DEF ControllerTypeOK
    <2>3. Executed' = Executed \cup {loaded}
      BY <2>2 DEF Executed
    <2>4. \A m \in Msgs \ over : ret[m] = "ok" => m \in Executed'
      BY <1>0, <2>3 DEF CommandInv, SuccessMeansExecuted, Executed
    <2>5. SuccessMeansExecuted'
      BY <1>1, <2>4 DEF SuccessMeansExecuted, Executed
    <2> QED
      BY <1>0, <1>1, <2>1, <2>3, <2>5 DEF CommandInv
  <1> QED
    BY <1>2, <1>3

LEMMA CommandInvStep == IInv /\ [Next]_vars => CommandInv'
  <1> SUFFICES ASSUME IInv, [Next]_vars PROVE CommandInv'
    OBVIOUS
  <1> USE DEF ctlVars, coreVars, threadVars, memVars, clientVars
  <1>0. /\ CommandInv /\ TypeOK /\ ControllerTypeOK /\ timedOut \subseteq timedOut'
        /\ \A m \in Msgs : status[m] = "ok" => m \in Executed \cup over \cup freed
    BY TimedOutGrows DEF IInv, TypeOK, CommandInv
  <1>1. ASSUME NEW c \in Clients, IoctlEnter(c) \/ ClientStep(c)
        PROVE  CommandInv'
    <2>1. CASE \/ IoctlEnter(c) \/ IoctlLock(c) \/ IoctlFails(c)
               \/ SyncWake(c) \/ SyncTimeout(c) \/ SyncSubmit(c)
      <3>1. /\ UNCHANGED <<over, at, loaded, execLog, submitted, ret, freed, held,
                           thread>>
            /\ UNCHANGED status \/ status' = [status EXCEPT ![msg[c]] = "inprogress"]
        BY <2>1 DEF IoctlEnter, IoctlLock, IoctlFails, SyncWake, SyncTimeout,
           SyncSubmit, SpiAsync
      <3>2. \A m \in Msgs : status'[m] = "ok" => m \in Executed \cup over \cup freed
        BY <1>0, <3>1 DEF ControllerTypeOK
      <3> QED
        BY <1>0, <3>1, <3>2, SameCommands
    <2> QED
      BY <1>1, <2>1, BuildKeepsCommands, LeaveKeepsCommands DEF ClientStep
  <1>2. CASE \/ /\ HardwareIdle \/ ThreadWake \/ ThreadTimesOut \/ ThreadChecksStop
                /\ UNCHANGED clientVars
             \/ RemoveStep \/ Environment
    BY <1>0, <1>2, EnvironmentMovesNothing, SameCommands DEF Commanded
  <1>3. CASE \/ /\ PumpMessages \/ ThreadPick \/ ThreadFinalize
                /\ UNCHANGED clientVars
             \/ Complete
    <2>1. /\ UNCHANGED <<over, at, loaded, execLog, submitted, ret, freed, status>>
          /\ \/ thread' \notin {"poll", "asleep", "collect"}
             \/ UNCHANGED <<thread, held>>
      BY <1>3 DEF PumpMessages, ThreadPick, ThreadFinalize, Complete, ThreadComplete
    <2> QED
      BY <1>0, <2>1, SameCommands
  <1>4. CASE ThreadCollect /\ UNCHANGED clientVars
    <2>1. /\ UNCHANGED <<over, at, loaded, execLog, submitted, ret, freed>>
          /\ thread = "collect" /\ thread' = "finalize"
          /\ status' = [status EXCEPT ![at[held]] = "ok"]
          /\ held \in Msgs
      BY <1>4 DEF ThreadCollect, IInv, CurrentInv, Working
    <2>2. at[held] \in Executed \cup over \cup freed
      BY <1>0, <2>1 DEF CommandInv
    <2>3. \A m \in Msgs : status'[m] = "ok" => m \in Executed \cup over \cup freed
      BY <1>0, <2>1, <2>2 DEF ControllerTypeOK
    <2> QED
      BY <1>0, <2>1, <2>3, SameCommands
  <1>5. CASE UNCHANGED vars
    BY <1>0, <1>5, SameCommands DEF vars
  <1> QED
    BY <1>1, <1>2, <1>3, <1>4, <1>5, ProgramKeepsCommands, PollKeepsCommands
    DEF Next, ThreadStep
-----------------------------------------------------------------------------
\* Only the client inside can be anywhere past the lock.
LEMMA OneInside ==
  ASSUME LockInv, NEW c \in Clients, pc[c] \in Inside
  PROVE  \A d \in Clients \ {c} : pc[d] \notin Inside
  BY DEF LockInv

LEMMA ClientsKeepCalm ==
  ASSUME IInv, NEW c \in Clients, IoctlEnter(c) \/ ClientStep(c),
         timedOut' = {}
  PROVE  CalmInv'
  <1> USE DEF ctlVars, coreVars, threadVars, memVars
  <1>0. TypeOK /\ ControllerTypeOK /\ LockInv /\ CalmInv /\ CurrentInv
    BY DEF IInv, TypeOK
  <1>1. CASE IoctlEnter(c) \/ IoctlLock(c) \/ IoctlFails(c)
    <2>1. /\ UNCHANGED <<coreQ, curMsg, held, thread, done, status, submitted,
                         timedOut>>
          /\ pc[c] \notin {"wait", "return"}
          /\ \E s \in {"idle", "lock", "build"} : pc' = [pc EXCEPT ![c] = s]
      BY <1>1 DEF IoctlEnter, IoctlLock, IoctlFails
    <2>2. \A d \in Clients, s \in {"wait", "return"} : pc'[d] = s <=> pc[d] = s
      BY <1>0, <2>1 DEF TypeOK
    <2> QED
      BY <1>0, <2>1, <2>2 DEF CalmInv, Quiet
  <1>2. CASE MessageBuild(c) \/ SyncShutdown(c) \/ SyncReturn(c)
    <2>1. /\ UNCHANGED <<coreQ, curMsg, held, thread, done, status, timedOut>>
          /\ pc[c] \in {"build", "submit", "return"}
          /\ \E s \in {"submit", "idle"} : pc' = [pc EXCEPT ![c] = s]
      BY <1>2 DEF MessageBuild, SyncShutdown, SyncReturn, Leave
    <2>2. \A d \in Clients : /\ pc[d] # "wait"
                             /\ pc'[d] \notin {"wait", "return"}
      BY <1>0, <2>1, OneInside DEF TypeOK, Inside
    <2>3. Quiet /\ done = 0 /\ timedOut = {}
      BY <1>0, <2>1, <2>2 DEF CalmInv
    <2>4. thread \notin {"finalize", "complete"}
      BY <1>0, <2>3 DEF CurrentInv, Working, Quiet, NoMsg, Msgs
    <2> QED
      BY <2>1, <2>2, <2>3, <2>4 DEF CalmInv, Quiet
  <1>3. CASE SyncSubmit(c)
    <2>1. /\ UNCHANGED <<curMsg, held, thread, done, timedOut, submitted>>
          /\ pc[c] = "submit" /\ pc' = [pc EXCEPT ![c] = "wait"]
          /\ coreQ' = Append(coreQ, submitted)
      BY <1>0, <1>3 DEF SyncSubmit, SpiAsync, LockInv
    <2>2. /\ \A d \in Clients : pc[d] # "wait" /\ pc'[d] # "return"
          /\ pc'[c] = "wait"
      BY <1>0, <2>1, OneInside DEF TypeOK, Inside
    <2>3. Quiet /\ done = 0 /\ timedOut = {}
      BY <1>0, <2>1, <2>2 DEF CalmInv
    <2>4. thread \notin {"finalize", "complete"}
      BY <1>0, <2>3 DEF CurrentInv, Working, Quiet, NoMsg, Msgs
    <2>5. coreQ' = <<submitted>>
      BY <2>1, <2>3 DEF Quiet
    <2> QED
      BY <2>1, <2>2, <2>3, <2>4, <2>5 DEF CalmInv, Quiet
  <1>4. CASE SyncWake(c)
    <2>1. /\ UNCHANGED <<coreQ, curMsg, held, thread, timedOut, submitted,
                         status>>
          /\ done > 0 /\ done' = done - 1
          /\ pc[c] = "wait" /\ pc' = [pc EXCEPT ![c] = "return"]
      BY <1>4 DEF SyncWake
    <2>2. done = 1 /\ Quiet /\ status[submitted] = "ok" /\ timedOut = {}
      BY <1>0, <2>1 DEF CalmInv
    <2> QED
      BY <1>0, <2>1, <2>2 DEF CalmInv, Quiet
  <1>5. CASE SyncTimeout(c)
    BY <1>5 DEF SyncTimeout
  <1> QED
    BY <1>1, <1>2, <1>3, <1>4, <1>5 DEF ClientStep

LEMMA ThreadKeepsCalm ==
  ASSUME IInv, ThreadStep, timedOut = {}
  PROVE  CalmInv'
  <1> USE DEF coreVars, threadVars, memVars, clientVars
  <1>0. /\ TypeOK /\ ControllerTypeOK /\ CalmInv /\ CurrentInv
        /\ NoMsg \notin Msgs /\ submitted \in Nat
    BY MessagesAreNumbers DEF IInv, TypeOK, NoMsg, Msgs
  <1>a. (\A m \in References : m \notin freed) /\ (\A m \in Msgs : at[m] = m)
    BY DEF IInv, CommandInv, LateOnlyAfterTimeout, DanglingOnlyAfterTimeout,
       MixedOnlyAfterTimeout
  <1>1. UNCHANGED <<coreQ, pc, submitted, timedOut>>
    BY DEF ThreadStep, ThreadWake, ThreadTimesOut, ThreadChecksStop,
       ThreadPick, ThreadProgram, ThreadPoll, ThreadCollect, ThreadFinalize,
       Complete, ThreadComplete
  <1>2. CASE /\ \/ ThreadWake \/ ThreadTimesOut \/ ThreadChecksStop
                \/ ThreadProgram \/ ThreadPoll
             /\ UNCHANGED clientVars
    <2>1. /\ UNCHANGED <<curMsg, held, done, status>>
          /\ thread' \notin {"finalize", "complete"}
      BY <1>2 DEF ThreadWake, ThreadTimesOut, ThreadChecksStop, ThreadProgram,
         ThreadPoll
    <2> QED
      BY <1>0, <1>1, <2>1 DEF CalmInv, Quiet
  <1>3. CASE ThreadPick /\ UNCHANGED clientVars
    <2>1. /\ held' = curMsg /\ curMsg # NoMsg /\ thread' = "program"
          /\ UNCHANGED <<curMsg, done, status>>
      BY <1>0, <1>3 DEF ThreadPick, CurrentInv
    <2> QED
      BY <1>0, <1>1, <2>1 DEF CalmInv, Quiet
  <1>4. CASE ThreadCollect /\ UNCHANGED clientVars
    <2>1. /\ held = curMsg /\ held \in Msgs /\ thread' = "finalize"
          /\ status' = [status EXCEPT ![held] = "ok"]
          /\ UNCHANGED <<curMsg, held, done>>
      BY <1>0, <1>a, <1>4 DEF ThreadCollect, CurrentInv, Working
    <2>2. held = submitted /\ status'[submitted] = "ok"
      BY <1>0, <2>1 DEF CalmInv, ControllerTypeOK
    <2> QED
      BY <1>0, <1>1, <2>1, <2>2 DEF CalmInv, Quiet
  <1>5. CASE ThreadFinalize /\ UNCHANGED clientVars
    <2>1. /\ held' = curMsg /\ held = curMsg /\ curMsg' = NoMsg
          /\ held \in Msgs /\ thread = "finalize"
          /\ UNCHANGED <<done, status>>
      BY <1>0, <1>5 DEF ThreadFinalize, CurrentInv, Working
    <2> QED
      BY <1>0, <1>1, <2>1 DEF CalmInv, Quiet
  <1>6. CASE Complete
    <2>1. /\ thread = "complete" /\ held \in Msgs /\ held' = NoMsg
          /\ thread' = "wait" /\ held \in References
          /\ UNCHANGED <<curMsg, status>>
      BY <1>0, <1>6 DEF Complete, ThreadComplete, CurrentInv, References
    <2>0. done' = done + 1
      BY <1>a, <1>6, <2>1 DEF Complete
    <2>2. curMsg = NoMsg /\ coreQ = <<>> /\ done = 0 /\ status[submitted] = "ok"
      BY <1>0, <2>1 DEF CalmInv, Quiet
    <2>3. \E c \in Clients : pc[c] = "wait"
      BY <1>0, <2>1 DEF CalmInv, Quiet
    <2> QED
      BY <1>0, <1>1, <2>0, <2>1, <2>2, <2>3 DEF CalmInv, Quiet
  <1> QED
    BY <1>2, <1>3, <1>4, <1>5, <1>6 DEF ThreadStep

LEMMA CalmInvStep == IInv /\ [Next]_vars => CalmInv'
  <1> SUFFICES ASSUME IInv, [Next]_vars, timedOut' = {} PROVE CalmInv'
    BY DEF CalmInv
  <1> USE DEF ctlVars, coreVars, threadVars, memVars, clientVars
  <1>0. CalmInv /\ CurrentInv /\ TypeOK /\ ControllerTypeOK
    BY DEF IInv, TypeOK
  <1>1. CASE ThreadStep
    <2>1. timedOut = {}
      BY <1>1 DEF ThreadStep, Complete
    <2> QED
      BY <1>1, <2>1, ThreadKeepsCalm
  <1>2. CASE PumpMessages /\ UNCHANGED clientVars
    <2>1. /\ curMsg = NoMsg /\ coreQ # <<>>
          /\ curMsg' = Head(coreQ) /\ coreQ' = Tail(coreQ)
          /\ UNCHANGED <<held, thread, status, clientVars>>
      BY <1>2 DEF PumpMessages
    <2>2. coreQ = <<submitted>> /\ held = NoMsg
      BY <1>0, <2>1 DEF CalmInv
    <2>3. curMsg' = submitted /\ coreQ' = <<>>
      BY <2>1, <2>2
    <2> QED
      BY <1>0, <2>1, <2>2, <2>3 DEF CalmInv, Quiet
  <1>3. CASE (HardwareIdle /\ UNCHANGED clientVars) \/ RemoveStep \/ Environment
    <2>1. /\ UNCHANGED <<coreQ, curMsg, held, done, status, submitted, pc,
                         timedOut>>
          /\ UNCHANGED thread \/ thread' \in {"wait", "none", "poll"}
      BY <1>3 DEF HardwareIdle, RemoveStep, RemoveUnmap, RemoveStopQueue,
         DetachDevice, RemoveChildren, Environment, ProbeStart, ProbeRegister,
         RemoveStop, RemoveStopNoThread, RemoveFailed, AttachDevice
    <2> QED
      BY <1>0, <2>1 DEF CalmInv, Quiet
  <1>4. CASE UNCHANGED vars
    BY <1>0, <1>4 DEF vars, CalmInv, Quiet
  <1> QED
    BY <1>1, <1>2, <1>3, <1>4, ClientsKeepCalm DEF Next
-----------------------------------------------------------------------------
LEMMA QuietMeansNoReferences ==
  ASSUME CurrentInv, Quiet
  PROVE  References = {}
  <1>1. msgQ = <<>> /\ coreQ = <<>>
    BY DEF CurrentInv, Quiet, NoMsg, Msgs
  <1> QED
    BY <1>1 DEF References, Quiet

\* Nothing but spi_async makes a new reference.
LEMMA ReferencesOnlyMove ==
  ASSUME TypeOK, CurrentInv, Next, ~ \E c \in Clients : SyncSubmit(c)
  PROVE  References' \subseteq References
  <1> USE DEF ctlVars, coreVars, threadVars, memVars, clientVars
  <1>1. CASE UNCHANGED <<coreQ, msgQ, curMsg, held>>
    BY <1>1 DEF References
  <1>2. ASSUME NEW c \in Clients, IoctlEnter(c) \/ ClientStep(c)
        PROVE  UNCHANGED <<coreQ, msgQ, curMsg, held>>
    BY <1>2 DEF IoctlEnter, ClientStep, IoctlLock, MessageBuild, IoctlFails,
       SyncShutdown, SyncWake, SyncTimeout, SyncReturn
  <1>3. CASE \/ ThreadWake \/ ThreadTimesOut \/ ThreadChecksStop
             \/ ThreadProgram \/ ThreadPoll \/ ThreadCollect
             \/ HardwareIdle \/ RemoveStep \/ Environment
    <2>1. UNCHANGED <<coreQ, msgQ, curMsg, held>>
      BY <1>3 DEF ThreadWake, ThreadTimesOut, ThreadChecksStop, ThreadProgram,
         ThreadPoll, ThreadCollect, HardwareIdle, RemoveStep, RemoveUnmap,
         RemoveStopQueue, DetachDevice, RemoveChildren, Environment,
         ProbeStart, ProbeRegister, RemoveStop, RemoveStopNoThread, RemoveFailed, AttachDevice
    <2> QED
      BY <1>1, <2>1
  <1>4. CASE ThreadPick
    <2>1. msgQ = <<curMsg>> /\ curMsg # NoMsg
      BY <1>4 DEF ThreadPick, CurrentInv, NoMsg, Msgs
    <2>2. msgQ' = <<>> /\ held' = curMsg /\ UNCHANGED <<coreQ, curMsg>>
      BY <1>4, <2>1 DEF ThreadPick
    <2> QED
      BY <2>1, <2>2 DEF References
  <1>5. CASE ThreadFinalize
    BY <1>5 DEF ThreadFinalize, References
  <1>6. CASE Complete
    BY <1>6 DEF Complete, ThreadComplete, References
  <1>7. CASE PumpMessages
    <2>1. /\ coreQ # <<>> /\ msgQ = <<>> /\ UNCHANGED held
          /\ curMsg' = Head(coreQ) /\ coreQ' = Tail(coreQ)
          /\ msgQ' = <<Head(coreQ)>>
      BY <1>7 DEF PumpMessages, TransferOneMessage, CurrentInv, NoMsg, Msgs
    <2>2. /\ Head(coreQ) = coreQ[1] /\ 1 \in DOMAIN coreQ
          /\ \A i \in DOMAIN coreQ' :
               i + 1 \in DOMAIN coreQ /\ coreQ'[i] = coreQ[i + 1]
      BY <2>1, TailElements DEF TypeOK, ControllerTypeOK
    <2> QED
      BY <2>1, <2>2 DEF References
  <1> QED
    BY <1>1, <1>2, <1>3, <1>4, <1>5, <1>6, <1>7 DEF Next, ThreadStep

\* Results and freed messages change only when a call leaves.
LEMMA OnlyLeaveEnds ==
  ASSUME Next
  PROVE  \/ UNCHANGED <<ret, freed>>
         \/ \E c \in Clients : SyncShutdown(c) \/ SyncReturn(c)
  <1> USE DEF ctlVars, coreVars, threadVars, memVars, clientVars
  <1>1. ASSUME NEW c \in Clients, IoctlEnter(c) \/ ClientStep(c)
        PROVE  \/ UNCHANGED <<ret, freed>>
               \/ SyncShutdown(c) \/ SyncReturn(c)
    BY <1>1 DEF IoctlEnter, ClientStep, IoctlLock, MessageBuild, IoctlFails,
       SyncSubmit, SpiAsync, SyncWake, SyncTimeout
  <1>2. ASSUME ThreadStep
        PROVE  UNCHANGED <<ret, freed>>
    BY <1>2 DEF ThreadStep, ThreadWake, ThreadTimesOut, ThreadChecksStop,
       ThreadPick, ThreadProgram, ThreadPoll, ThreadCollect, ThreadFinalize,
       Complete, ThreadComplete
  <1>3. ASSUME \/ (PumpMessages \/ HardwareIdle) /\ UNCHANGED clientVars
               \/ RemoveStep \/ Environment
        PROVE  UNCHANGED <<ret, freed>>
    BY <1>3 DEF PumpMessages, HardwareIdle, RemoveStep, RemoveUnmap,
       RemoveStopQueue, DetachDevice, RemoveChildren, Environment, ProbeStart,
       ProbeRegister, RemoveStop, RemoveStopNoThread, RemoveFailed, AttachDevice
  <1> QED
    BY <1>1, <1>2, <1>3 DEF Next

LEMMA UnfinishedStep ==
  IInv /\ [Next]_vars => UnfinishedOnlyAfterTimeout'
  <1> SUFFICES ASSUME IInv, [Next]_vars PROVE UnfinishedOnlyAfterTimeout'
    OBVIOUS
  <1> USE DEF UnfinishedOnlyAfterTimeout
  <1>0. /\ UnfinishedOnlyAfterTimeout /\ CalmInv /\ LockInv /\ TypeOK
        /\ submitted \in Nat
    BY MessagesAreNumbers DEF IInv, LateOnlyAfterTimeout
  <1>1. ASSUME NEW c \in Clients, SyncShutdown(c) \/ SyncReturn(c)
        PROVE  UnfinishedOnlyAfterTimeout'
    <2>1. /\ msg[c] = submitted /\ UNCHANGED timedOut
          /\ \E r \in {"shutdown", "fault", status[submitted]} :
               ret' = [ret EXCEPT ![submitted] = r]
          /\ SyncShutdown(c) => \E r \in {"shutdown", "fault"} :
               ret' = [ret EXCEPT ![submitted] = r]
          /\ SyncReturn(c) => pc[c] = "return"
      BY <1>0, <1>1 DEF SyncShutdown, SyncReturn, Leave, LockInv
    <2>2. CASE timedOut = {}
      <3>1. ret'[submitted] # "inprogress" \/ submitted \notin Msgs
        BY <1>0, <1>1, <2>1, <2>2 DEF CalmInv, TypeOK
      <3> QED
        BY <1>0, <2>1, <3>1 DEF TypeOK
    <2>3. CASE timedOut # {}
      <3>1. \E n \in timedOut : n <= submitted
        BY <1>0, <2>3 DEF LockInv
      <3> QED
        BY <1>0, <2>1, <3>1 DEF TypeOK
    <2> QED
      BY <2>2, <2>3
  <1>2. CASE Next /\ UNCHANGED ret
    BY <1>0, <1>2, TimedOutGrows
  <1>3. CASE UNCHANGED vars
    BY <1>0, <1>3 DEF vars, clientVars
  <1> QED
    BY <1>1, <1>2, <1>3, OnlyLeaveEnds

LEMMA DanglingStep == IInv /\ [Next]_vars => DanglingOnlyAfterTimeout'
  <1> SUFFICES ASSUME IInv, [Next]_vars PROVE DanglingOnlyAfterTimeout'
    OBVIOUS
  <1> USE DEF DanglingOnlyAfterTimeout
  <1>0. /\ DanglingOnlyAfterTimeout /\ CalmInv /\ LockInv
        /\ TypeOK /\ CurrentInv
    BY DEF IInv, LateOnlyAfterTimeout
  <1>1. ASSUME NEW c \in Clients, SyncSubmit(c)
        PROVE  DanglingOnlyAfterTimeout'
    <2>1. /\ coreQ' = Append(coreQ, submitted) /\ submitted \notin freed
          /\ submitted \in Msgs
          /\ UNCHANGED <<msgQ, curMsg, held, freed, timedOut>>
      BY <1>0, <1>1 DEF SyncSubmit, SpiAsync, LockInv, TypeOK, memVars
    <2>2. References' \subseteq References \cup {submitted}
      BY <1>0, <2>1, AppendElements DEF References, TypeOK, ControllerTypeOK
    <2> QED
      BY <1>0, <2>1, <2>2
  <1>2. ASSUME NEW c \in Clients, SyncShutdown(c) \/ SyncReturn(c)
        PROVE  DanglingOnlyAfterTimeout'
    <2>1. /\ msg[c] = submitted /\ freed' = freed \cup {submitted}
          /\ pc[c] \in {"submit", "return"}
          /\ UNCHANGED <<coreQ, msgQ, curMsg, held, timedOut>>
      BY <1>0, <1>2 DEF SyncShutdown, SyncReturn, Leave, LockInv, coreVars,
         threadVars
    <2>2. References' = References
      BY <2>1 DEF References
    <2>3. CASE timedOut = {}
      <3>1. \A d \in Clients : pc[d] # "wait"
        BY <1>0, <2>1, OneInside DEF Inside
      <3>2. References = {}
        BY <1>0, <2>3, <3>1, QuietMeansNoReferences DEF CalmInv
      <3> QED
        BY <2>2, <3>2
    <2>4. CASE timedOut # {}
      <3>1. \E n \in timedOut : n <= submitted
        BY <1>0, <2>4 DEF LockInv
      <3> QED
        BY <1>0, <2>1, <2>2, <3>1
    <2> QED
      BY <2>3, <2>4
  <1>3. CASE /\ Next /\ UNCHANGED freed
             /\ ~ \E c \in Clients : SyncSubmit(c)
    BY <1>0, <1>3, ReferencesOnlyMove, TimedOutGrows
  <1>4. CASE UNCHANGED vars
    <2>1. References' = References /\ UNCHANGED <<freed, timedOut>>
      BY <1>4 DEF vars, ctlVars, coreVars, threadVars, memVars, clientVars, References
    <2> QED
      BY <1>0, <2>1
  <1> QED
    BY <1>1, <1>2, <1>3, <1>4, OnlyLeaveEnds

\* An abandoned place is that of a message that is still referred to although
\* its call has returned.
LEMMA AbandonedIsDangling ==
  ASSUME IInv, Abandoned # {}
  PROVE  \E m \in References : m \in freed
  <1>1. PICK m \in OnItsWay : at[m] \in freed
    BY DEF Abandoned
  <1>2. m \in References /\ m \in Msgs
    <2>1. OnItsWay \subseteq References
      BY DEF OnItsWay, Queued, References, IInv, CurrentInv, Working, NoMsg, Msgs
    <2> QED
      BY <2>1, MessagesAreNumbers DEF IInv
  <1>3. m \in freed
    BY <1>1, <1>2 DEF IInv, CommandInv
  <1> QED
    BY <1>2, <1>3

LEMMA MixedStep == IInv /\ [Next]_vars => MixedOnlyAfterTimeout'
  <1> SUFFICES ASSUME IInv, [Next]_vars PROVE MixedOnlyAfterTimeout'
    OBVIOUS
  <1> USE DEF MixedOnlyAfterTimeout
  <1>0. /\ MixedOnlyAfterTimeout /\ DanglingOnlyAfterTimeout /\ OrderInv
        /\ timedOut \subseteq timedOut' /\ timedOut \subseteq Nat /\ submitted \in Nat
    BY TimedOutGrows DEF IInv, LateOnlyAfterTimeout, TypeOK, Msgs
  <1>1. ASSUME NEW c \in Clients, MessageBuild(c), ~ UNCHANGED over
        PROVE  MixedOnlyAfterTimeout'
    <2>1. Abandoned # {} /\ over' = over \cup {submitted + 1}
      BY <1>1 DEF MessageBuild
    <2>2. PICK m \in References : m \in freed
      BY <2>1, AbandonedIsDangling
    <2>3. PICK n \in timedOut : n <= m
      BY <1>0, <2>2 DEF DanglingOnlyAfterTimeout
    <2>4. m <= submitted /\ m \in Nat
      BY <1>0, <2>2, MessagesAreNumbers DEF OrderInv, IInv
    <2>5. n < submitted + 1
      BY <1>0, <2>3, <2>4
    <2> QED
      BY <1>0, <2>1, <2>5
  <1>2. UNCHANGED over \/ \E c \in Clients : MessageBuild(c)
    BY DEF vars, Next, clientVars, ClientStep, IoctlEnter, IoctlLock, IoctlFails,
       SyncSubmit, SyncShutdown, SyncWake, SyncTimeout, SyncReturn, ThreadStep,
       Complete, RemoveStep, DetachDevice, Environment, AttachDevice
  <1> QED
    BY <1>0, <1>1, <1>2
-----------------------------------------------------------------------------
(***************************************************************************)
(* The theorems.                                                           *)
(***************************************************************************)

\* IInv holds in every reachable state: the argument all the others rest on.
THEOREM Invariance == Spec => []IInv
  <1>1. IInv /\ [Next]_vars => IInv'
    BY CtlInvStep, TypeOKStep, CurrentInvStep, LockInvStep, OrderInvStep,
       CommandInvStep, CalmInvStep, UnfinishedStep, DanglingStep, MixedStep
    DEF IInv, LateOnlyAfterTimeout
  <1> QED
    BY InitIInv, <1>1, PTL DEF Spec

\* Every variable keeps its type: the completion's counter never goes below
\* zero and every status a call returns is one spirom_sync can return.
THEOREM TypeCorrect == Spec => []TypeOK
  BY Invariance, PTL DEF IInv

\* The lock-free msg_queue is safe: amd_spi_master_transfer and the thread
\* are never both at work on it, as the driver has the current message only.
THEOREM QueueHoldsCurrent == Spec => []DriverHoldsCurrent
  <1>1. ASSUME IInv PROVE DriverHoldsCurrent
    <2>1. CurrentInv /\ NoMsg \notin Msgs /\ msgQ \in Seq(Msgs)
      BY <1>1 DEF IInv, TypeOK, ControllerTypeOK, NoMsg, Msgs
    <2>2. CASE thread \in Working
      <3>1. held = curMsg /\ held \in Msgs /\ msgQ = <<>>
        BY <2>1, <2>2 DEF CurrentInv
      <3>2. held # NoMsg /\ thread # "complete" /\ <<held>> \in Seq(Msgs)
        BY <2>1, <2>2, <3>1 DEF Working
      <3>3. InDriver = <<held>> \o <<>>
        BY <3>1, <3>2 DEF InDriver
      <3>4. InDriver = <<held>>
        BY <3>2, <3>3, ConcatEmptySeq
      <3> QED
        BY <3>1, <3>2, <3>4 DEF DriverHoldsCurrent
    <2>3. CASE thread \notin Working
      <3>1. InDriver = <<>> \o msgQ
        BY <2>1, <2>3 DEF CurrentInv, InDriver
      <3>2. InDriver = msgQ
        BY <2>1, <3>1, ConcatEmptySeq
      <3>3. msgQ = IF curMsg = NoMsg THEN <<>> ELSE <<curMsg>>
        BY <2>1, <2>3 DEF CurrentInv
      <3> QED
        BY <3>2, <3>3 DEF DriverHoldsCurrent
    <2> QED
      BY <2>2, <2>3
  <1> QED
    BY Invariance, <1>1, PTL

\* No use of the controller's registers after iounmap in amd_spi_pci_remove,
\* nor after a probe that failed.
THEOREM RegistersStayMapped == Spec => []RegistersMapped
  <1>1. IInv => RegistersMapped
    BY DEF IInv, TypeOK, ControllerTypeOK, CtlStates, CtlInv, RegistersMapped,
       UsesRegisters
  <1> QED
    BY Invariance, <1>1, PTL

\* Commands are executed in the order the calls of spirom_ioctl built them, and
\* at most once unless a call has timed out; but for messages that were built
\* over others which were still on their way.
THEOREM CommandsInOrder == Spec => []ExecutedInOrder
  BY Invariance, PTL DEF IInv, OrderInv

\* When spirom_sync returns 0, the caller's own command was executed, unless the
\* message had been built over another that was still on its way.
THEOREM SuccessIsReal == Spec => []SuccessMeansExecuted
  BY Invariance, PTL DEF IInv, CommandInv

\* -EINPROGRESS is returned only by, or after, a call that timed out.
THEOREM UnfinishedExplained == Spec => []UnfinishedOnlyAfterTimeout
  BY Invariance, PTL DEF IInv, LateOnlyAfterTimeout

\* A message on a stack frame that has ended is referred to only after a
\* timeout of its own call or of an earlier one.
THEOREM DanglingExplained == Spec => []DanglingOnlyAfterTimeout
  BY Invariance, PTL DEF IInv, LateOnlyAfterTimeout

\* Both of these, and messages that share a place: without a removal nothing
\* goes wrong until a call times out.
THEOREM LateExplained == Spec => []LateOnlyAfterTimeout
  BY Invariance, PTL DEF IInv

\* The kernel crashes in the five named situations only.  Everything else that
\* is dereferenced on the way is alive: a freed message needs a timeout.
THEOREM CrashesAreExplained == Spec => []CrashesExplained
  <1>1. Init => CrashesExplained
    BY DEF Init, ControllerInit, CrashesExplained
  <1>2. ASSUME IInv, CrashesExplained, [Next]_vars
        PROVE  CrashesExplained'
    <2>0. /\ DanglingOnlyAfterTimeout /\ CurrentInv /\ NoMsg \notin Msgs
          /\ TypeOK /\ CommandInv /\ LateOnlyAfterTimeout
      BY <1>2 DEF IInv, LateOnlyAfterTimeout, NoMsg, Msgs
    <2>1. CASE UNCHANGED vars
      BY <1>2, <2>1 DEF vars, ctlVars, threadVars, memVars, clientVars, CrashesExplained
    <2>2. CASE Next /\ UNCHANGED oops
      BY <2>2 DEF Next, CrashesExplained
    <2>3. CASE \/ ThreadPick \/ ThreadProgram \/ ThreadCollect \/ Complete
               \/ PumpMessages
      <3>1. ASSUME References \cap freed = {}
            PROVE  UNCHANGED oops
        <4>1. CASE ThreadPick
          <5>1. msgQ = <<curMsg>> /\ curMsg # NoMsg
            BY <2>0, <4>1 DEF ThreadPick, CurrentInv
          <5>2. Head(msgQ) \in References
            BY <5>1 DEF References
          <5> QED
            BY <3>1, <4>1, <5>2 DEF ThreadPick, MayCrash
        <4>2. CASE ThreadProgram \/ ThreadCollect \/ Complete
          <5>1. held \in References
            BY <2>0, <4>2 DEF ThreadProgram, ThreadCollect, Complete,
               ThreadComplete, CurrentInv, Working, References
          <5> QED
            BY <3>1, <4>2, <5>1 DEF ThreadProgram, ThreadCollect, Complete,
               ThreadComplete, MayCrash
        <4>3. CASE PumpMessages
          <5>1. Head(coreQ) = coreQ[1] /\ 1 \in DOMAIN coreQ
            BY <2>0, <4>3, TailElements
            DEF PumpMessages, TypeOK, ControllerTypeOK
          <5> QED
            BY <3>1, <4>3, <5>1 DEF PumpMessages, MayCrash, References
        <4> QED
          BY <2>3, <4>1, <4>2, <4>3
      <3>2. CASE References \cap freed # {}
        <4>1. timedOut # {}
          BY <2>0, <3>2 DEF DanglingOnlyAfterTimeout
        <4>2. timedOut' # {} \/ UNCHANGED vars
          BY <1>2, <4>1, TimedOutGrows
        <4> QED
          BY <2>1, <4>2 DEF CrashesExplained
      <3>3. CASE References \cap freed = {}
        BY <1>2, <2>1, <2>2, <3>1, <3>3
      <3> QED
        BY <3>2, <3>3
    <2>4. CASE ThreadTimesOut
      BY <1>2, <2>1, <2>2, <2>4 DEF ThreadTimesOut, MayCrash, CrashesExplained
    <2>5. CASE RemoveFailed \/ RemoveStopNoThread \/ DetachDevice
      BY <2>5 DEF RemoveFailed, RemoveStopNoThread, DetachDevice, RemoveChildren,
         CrashesExplained, threadVars
    <2>6. CASE AttachDevice
      BY <1>2, <2>1, <2>2, <2>6 DEF AttachDevice, CrashesExplained
    <2>7. ASSUME Next
          PROVE  \/ UNCHANGED oops
                 \/ ThreadPick \/ ThreadProgram \/ ThreadCollect \/ Complete
                 \/ PumpMessages \/ ThreadTimesOut
                 \/ RemoveFailed \/ RemoveStopNoThread \/ DetachDevice
                 \/ AttachDevice \/ Abandoned # {}
      <3>1. ASSUME NEW c \in Clients, IoctlEnter(c) \/ ClientStep(c), Abandoned = {}
            PROVE  UNCHANGED oops
        BY <3>1 DEF IoctlEnter, ClientStep, IoctlLock, MessageBuild,
           IoctlFails, SyncSubmit, SpiAsync, SyncShutdown, SyncWake,
           SyncTimeout, SyncReturn, ctlVars, MayCrash
      <3>2. ASSUME \/ ThreadWake \/ ThreadChecksStop \/ ThreadPoll
                   \/ ThreadFinalize \/ HardwareIdle \/ RemoveUnmap
                   \/ RemoveStopQueue \/ ProbeStart \/ ProbeRegister
                   \/ RemoveStop
            PROVE  UNCHANGED oops
        BY <3>2 DEF ThreadWake, ThreadChecksStop, ThreadPoll, ThreadFinalize,
           HardwareIdle, RemoveUnmap, RemoveStopQueue, ProbeStart,
           ProbeRegister, RemoveStop
      <3> QED
        BY <2>7, <3>1, <3>2 DEF Next, ThreadStep, RemoveStep, Environment
    <2>8. CASE Abandoned # {}
      <3>1. timedOut # {}
        BY <1>2, <2>0, <2>8, AbandonedIsDangling DEF DanglingOnlyAfterTimeout
      <3> QED
        BY <1>2, <3>1, TimedOutGrows DEF CrashesExplained
    <2> QED
      BY <1>2, <2>1, <2>2, <2>3, <2>4, <2>5, <2>6, <2>7, <2>8
  <1> QED
    BY Invariance, <1>1, <1>2, PTL DEF Spec
=============================================================================
