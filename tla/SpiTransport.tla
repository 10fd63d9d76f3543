---------------------------- MODULE SpiTransport -----------------------------
(***************************************************************************)
(* The path of one SPI command from an ioctl on /dev/spirom through the    *)
(* SPI core to the controller's thread and back: spirom_ioctl,             *)
(* spirom_message and spirom_sync (spirom.c) composed with the controller  *)
(* driver of SpiController.                                                *)
(*                                                                         *)
(* Each call builds a message on its stack and hands the address to the    *)
(* SPI core.  It waits one second at most for the completion, then returns *)
(* and the message is gone, whoever still holds its address.  A later call *)
(* on the same stack puts its message in the same place: whoever held the  *)
(* address of the first then finds the second.  The completion is one      *)
(* counter for the whole device, set up in probe and never reset.          *)
(***************************************************************************)
EXTENDS SpiController, Integers, FiniteSets

CONSTANT Clients    \* the calls that may be in spirom_ioctl at once

VARIABLES
  spi,       \* the spirom device: "none", "bound" (spirom->spi set), "removed"
  bufLock,   \* holders of spirom->buf_lock
  done,      \* tokens in spirom->done
  pc,        \* where each client is
  msg,       \* the message on each client's stack
  submitted, \* how many messages have been built: the last message's number
  ret,       \* what the call that built a message returned
  timedOut,  \* messages whose call waited the full second in vain
  over       \* (history) messages built over one that was still on its way

clientVars == <<spi, bufLock, done, pc, msg, submitted, ret, timedOut, over>>
vars == <<ctlVars, clientVars>>

Results == {"none", "ok", "inprogress", "shutdown", "fault"}

TypeOK ==
  /\ ControllerTypeOK
  /\ spi \in {"none", "bound", "removed"}
  /\ bufLock \in SUBSET Clients
  /\ done \in Nat
  /\ pc \in [Clients -> {"idle", "lock", "build", "submit", "wait", "return"}]
  /\ msg \in [Clients -> Msgs \cup {NoMsg}]
  /\ submitted \in 0 .. MaxMsgs
  /\ ret \in [Msgs -> Results]
  /\ timedOut \in SUBSET Msgs
  /\ over \in SUBSET Msgs

Init ==
  /\ ControllerInit
  /\ spi = "none" /\ bufLock = {} /\ done = 0
  /\ pc = [c \in Clients |-> "idle"]
  /\ msg = [c \in Clients |-> NoMsg]
  /\ submitted = 0
  /\ ret = [m \in Msgs |-> "none"]
  /\ timedOut = {} /\ over = {}
-----------------------------------------------------------------------------
(***************************************************************************)
(* The client: spirom_ioctl -> spirom_message -> spirom_sync.              *)
(***************************************************************************)

\* spi_dev_get under spi_lock; NULL gives -ESHUTDOWN at once (no step).
IoctlEnter(c) ==
  /\ pc[c] = "idle" /\ spi = "bound"
  /\ pc' = [pc EXCEPT ![c] = "lock"]
  /\ UNCHANGED <<ctlVars, spi, bufLock, done, msg, submitted, ret, timedOut, over>>

IoctlLock(c) ==
  /\ pc[c] = "lock" /\ bufLock = {}
  /\ bufLock' = {c}
  /\ pc' = [pc EXCEPT ![c] = "build"]
  /\ UNCHANGED <<ctlVars, spi, done, msg, submitted, ret, timedOut, over>>

\* The messages that wait in a list.
Queued ==
  {coreQ[i] : i \in DOMAIN coreQ} \cup {msgQ[i] : i \in DOMAIN msgQ}

\* ... and the one that is being executed: all that are still to be read or
\* answered.
OnItsWay ==
  Queued \cup IF thread \in {"program", "poll", "asleep", "collect"} THEN {held} ELSE {}

\* Nobody walks the lists any more: the thread is gone, and the message it was
\* to take stays the current one for ever.
Stuck == thread \in {"none", "exited"} /\ curMsg # NoMsg

\* What is on its way of the messages that lay at a place.
LyingAt(place) == {m \in OnItsWay : at[m] = place}

\* Places of calls that have returned, where somebody still expects a message.
Abandoned == {at[m] : m \in OnItsWay} \cap freed

\* spirom_message puts the command's transfers into a message on the stack: on
\* a fresh one, or in an abandoned place.  In place of a list entry this clears
\* the entry's links: the list is destroyed, or the entry is still found.
MessageBuild(c) ==
  /\ pc[c] = "build" /\ submitted < MaxMsgs
  /\ submitted' = submitted + 1
  /\ msg' = [msg EXCEPT ![c] = submitted + 1]
  /\ \/ UNCHANGED <<at, over, oops>>
     \/ \E place \in Abandoned :
          /\ at' = [m \in Msgs |->
                      IF m \in LyingAt(place) THEN submitted + 1 ELSE at[m]]
          /\ over' = over \cup {submitted + 1}
          /\ MayCrash(LyingAt(place) \cap Queued # {} /\ ~Stuck)
  /\ pc' = [pc EXCEPT ![c] = "submit"]
  /\ UNCHANGED <<coreVars, threadVars, stop, busy, mapped, ctl, freed,
                 spi, bufLock, done, ret, timedOut>>

\* The request is refused, cannot be copied or finds no memory: -ENOTTY,
\* -EFAULT or -ENOMEM, and out.  Half a message over one that is on its way
\* counts as damage.
IoctlFails(c) ==
  /\ pc[c] = "build"
  /\ pc' = [pc EXCEPT ![c] = "idle"]
  /\ bufLock' = bufLock \ {c}
  /\ MayCrash(Abandoned # {})
  /\ UNCHANGED <<coreVars, threadVars, stop, busy, mapped, ctl, memVars,
                 spi, done, msg, submitted, ret, timedOut, over>>

\* The end of spirom_message and spirom_ioctl: copying what was received to
\* the caller may fail, the transfers are freed, the stack frame ends, the lock
\* is released.
Leave(c, result) ==
  /\ \E r \in {result, "fault"} : ret' = [ret EXCEPT ![msg[c]] = r]
  /\ freed' = freed \cup {msg[c]} /\ UNCHANGED at
  /\ msg' = [msg EXCEPT ![c] = NoMsg]
  /\ pc' = [pc EXCEPT ![c] = "idle"]
  /\ bufLock' = bufLock \ {c}

\* The locked part of spirom_sync.
SyncSubmit(c) ==
  /\ pc[c] = "submit"
  /\ spi = "bound" /\ running
  /\ SpiAsync(msg[c])
  /\ pc' = [pc EXCEPT ![c] = "wait"]
  /\ UNCHANGED <<spi, bufLock, done, msg, submitted, ret, timedOut, over>>

\* spirom->spi is NULL, or the core's queue has been stopped.
SyncShutdown(c) ==
  /\ pc[c] = "submit"
  /\ ~(spi = "bound" /\ running)
  /\ Leave(c, "shutdown")
  /\ UNCHANGED <<coreVars, threadVars, stop, busy, mapped, ctl, oops,
                 spi, done, submitted, timedOut, over>>

\* Faulty variant: the wait can be interrupted by a signal.
SyncWakeOnSignal(c) ==
  /\ pc[c] = "wait"
  /\ done' = IF done > 0 THEN done - 1 ELSE 0
  /\ pc' = [pc EXCEPT ![c] = "return"]
  /\ UNCHANGED <<ctlVars, spi, bufLock, msg, submitted, ret, timedOut, over>>

\* wait_for_completion_timeout takes a token, whoever it was meant for ...
SyncWake(c) ==
  /\ pc[c] = "wait" /\ done > 0
  /\ done' = done - 1
  /\ pc' = [pc EXCEPT ![c] = "return"]
  /\ UNCHANGED <<ctlVars, spi, bufLock, msg, submitted, ret, timedOut, over>>

\* Faulty variant: the wait has no time limit.
SyncTimeoutNever(c) == c \notin Clients /\ UNCHANGED vars

\* Faulty variant: the token is taken back although none has come.
SyncTimeoutTakesToken(c) ==
  /\ pc[c] = "wait" /\ done = 0
  /\ timedOut' = timedOut \cup {msg[c]}
  /\ done' = done - 1
  /\ pc' = [pc EXCEPT ![c] = "return"]
  /\ UNCHANGED <<ctlVars, spi, bufLock, msg, submitted, ret, over>>

\* ... or gives up after HZ jiffies.
SyncTimeout(c) ==
  /\ pc[c] = "wait" /\ done = 0
  /\ timedOut' = timedOut \cup {msg[c]}
  /\ pc' = [pc EXCEPT ![c] = "return"]
  /\ UNCHANGED <<ctlVars, spi, bufLock, done, msg, submitted, ret, over>>

\* status = message->status, and out.
SyncReturn(c) ==
  /\ pc[c] = "return"
  /\ Leave(c, status[msg[c]])
  /\ UNCHANGED <<coreVars, threadVars, stop, busy, mapped, ctl, oops,
                 spi, done, submitted, timedOut, over>>
-----------------------------------------------------------------------------
(***************************************************************************)
(* The controller's steps, and where the two meet.                         *)
(***************************************************************************)

\* spirom_complete: one more token.  Where the message of a call that has
\* returned lay, a message may just be being built and have no pointer to
\* spirom_complete yet.
Complete ==
  /\ ThreadComplete
  /\ \/ done' = done + 1
     \/ /\ held \in freed /\ \E c \in Clients : pc[c] = "submit"
        /\ done' = done
  /\ UNCHANGED <<spi, bufLock, pc, msg, submitted, ret, timedOut, over>>

\* modprobe spirom: add_spi_device_to_bus finds the master, spi_new_device
\* calls amd_spi_master_setup, which writes a register, and spirom_probe runs.
AttachDevice ==
  /\ Registered /\ spi = "none"
  /\ IF mapped
       THEN spi' = "bound" /\ UNCHANGED oops
       ELSE oops' = TRUE /\ UNCHANGED spi
  /\ UNCHANGED <<coreVars, threadVars, stop, busy, mapped, ctl, memVars,
                 bufLock, done, pc, msg, submitted, ret, timedOut, over>>

\* Unregistering the children runs spirom_remove, which clears spirom->spi.
DetachDevice ==
  /\ RemoveChildren
  /\ spi' = "removed"
  /\ UNCHANGED <<bufLock, done, pc, msg, submitted, ret, timedOut, over>>

ClientStep(c) ==
  \/ IoctlLock(c) \/ MessageBuild(c) \/ IoctlFails(c)
  \/ SyncSubmit(c) \/ SyncShutdown(c)
  \/ SyncWake(c) \/ SyncTimeout(c) \/ SyncReturn(c)

ThreadStep ==
  \/ /\ \/ ThreadWake \/ ThreadTimesOut \/ ThreadChecksStop \/ ThreadPick
        \/ ThreadProgram \/ ThreadPoll \/ ThreadCollect \/ ThreadFinalize
     /\ UNCHANGED clientVars
  \/ Complete

RemoveStep ==
  \/ (RemoveUnmap \/ RemoveStopQueue) /\ UNCHANGED clientVars
  \/ DetachDevice

Environment ==
  \/ (\/ ProbeStart \/ ProbeRegister
      \/ RemoveStop \/ RemoveStopNoThread \/ RemoveFailed)
       /\ UNCHANGED clientVars
  \/ AttachDevice

Next ==
  /\ ~oops
  /\ \/ \E c \in Clients : IoctlEnter(c) \/ ClientStep(c)
     \/ ThreadStep
     \/ (PumpMessages \/ HardwareIdle) /\ UNCHANGED clientVars
     \/ RemoveStep
     \/ Environment

Spec == Init /\ [][Next]_vars

(***************************************************************************)
(* Fairness: a call that has entered the kernel is scheduled and its timer *)
(* fires; the mutex serves its waiters in turn; the two kernel threads are *)
(* scheduled; a remove that has begun goes on; a command ends on the       *)
(* hardware.  Nobody has to call ioctl, to load or to unload a module.     *)
(***************************************************************************)
Fairness ==
  /\ \A c \in Clients : /\ WF_vars(~oops /\ ClientStep(c))
                        /\ SF_vars(~oops /\ IoctlLock(c))
  /\ WF_vars(~oops /\ ThreadStep)
  /\ WF_vars(~oops /\ PumpMessages /\ UNCHANGED clientVars)
  /\ WF_vars(~oops /\ HardwareIdle /\ UNCHANGED clientVars)
  /\ WF_vars(~oops /\ RemoveStep)

FairSpec == Spec /\ Fairness
-----------------------------------------------------------------------------
(***************************************************************************)
(* Properties.                                                             *)
(***************************************************************************)

\* The messages the driver has been given and has not handed back.
InDriver ==
  (IF held # NoMsg /\ thread # "complete" THEN <<held>> ELSE <<>>) \o msgQ

\* Everyone who still has the address of a message.
References ==
  {coreQ[i] : i \in DOMAIN coreQ} \cup {msgQ[i] : i \in DOMAIN msgQ}
    \cup ({curMsg, held} \ {NoMsg})

\* The driver holds the core's current message and nothing else.  This is why
\* amd_spi_master_transfer may add to msg_queue, and the thread delete from
\* it, without a lock: they never do so at the same time.
DriverHoldsCurrent ==
  InDriver = IF curMsg = NoMsg THEN <<>> ELSE <<curMsg>>

\* Commands reach the hardware in the order the calls built them, whatever
\* timed out or was removed in between, and one is repeated only after a
\* timeout.  Nothing is said of a command that was built over another.
ExecutedInOrder ==
  \A i, j \in DOMAIN execLog :
    i < j /\ {execLog[i], execLog[j]} \cap over = {} =>
      /\ execLog[i] <= execLog[j]
      /\ execLog[i] = execLog[j] => timedOut # {}

\* A call that reports success had its own command executed, even when the
\* token it woke up with belonged to another message; except one that built its
\* message over another, whose success may be meant.
SuccessMeansExecuted ==
  \A m \in Msgs \ over :
    ret[m] = "ok" => \E i \in DOMAIN execLog : execLog[i] = m

\* A call returns -EINPROGRESS only if it, or a call before it, waited its
\* whole second: an early wake-up needs a token somebody left behind.
UnfinishedOnlyAfterTimeout ==
  \A m \in Msgs : ret[m] = "inprogress" => \E n \in timedOut : n <= m

\* The address of a message whose call has returned is only ever held by the
\* SPI core or the controller after a timeout, of that call or an earlier one.
DanglingOnlyAfterTimeout ==
  \A m \in References : m \in freed => \E n \in timedOut : n <= m

\* A message is built over another only after an earlier call has timed out.
MixedOnlyAfterTimeout == \A m \in over : \E n \in timedOut : n < m

\* Whatever goes wrong on the command path without a removal begins with a call
\* that gave up waiting: early answers, dangling messages and messages built
\* over others alike.
LateOnlyAfterTimeout ==
  /\ UnfinishedOnlyAfterTimeout
  /\ DanglingOnlyAfterTimeout
  /\ MixedOnlyAfterTimeout

\* The thread never uses the controller's registers after iounmap.
RegistersMapped == thread \in UsesRegisters => mapped

\* The driver crashes the kernel in five situations only: after a timeout,
\* after a probe that failed and returned 0, when a controller without a thread
\* is removed, when spirom is loaded while the controller is being removed, and
\* in the second spi_master_put.
CrashesExplained ==
  oops => \/ timedOut # {}
          \/ ctl = "bound" /\ thread = "none"
          \/ ctl \in {"failed", "gone"}
          \/ spi = "none" /\ ~mapped

\* Every ioctl returns, whatever becomes of the controller: the timeout in
\* spirom_sync is what guarantees it.
IoctlReturns ==
  \A c \in Clients : pc[c] # "idle" ~> (pc[c] = "idle" \/ oops)

\* kthread_stop returns, unless the thread sleeps on a busy bus.
StopReturns ==
  ctl = "joining" ~> (ctl # "joining" \/ thread = "asleep" \/ oops)

\* A message that was accepted is taken by the thread and given a status,
\* however long its call has been gone.  Excepted are a controller that is being
\* removed or has no thread, a thread that sleeps on a busy bus, and a message
\* over which another has been built.
AcceptedIsCompleted ==
  \A m \in Msgs : status[m] = "inprogress" ~>
                  (\/ status[m] = "ok" \/ at[m] # m
                   \/ stop \/ thread \in {"none", "asleep"} \/ oops)

\* The command path is what its callers take it for: every step is one of
\* SerialChannel, or none that they can see.
Channel == INSTANCE SerialChannel
             WITH given <- submitted, running <- thread \in {"poll", "asleep"},
                  executed <- execLog, answer <- ret, mixed <- over

ImplementsChannel == Channel!Spec

\* "poll for SPI bus to become idle" (amd_spi_execute_opcode): once the bus
\* is idle the thread goes on.
PollSeesIdle ==
  (thread = "asleep" /\ ~busy) ~> (thread # "asleep" \/ oops)
=============================================================================
