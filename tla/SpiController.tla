---------------------------- MODULE SpiController ----------------------------
(***************************************************************************)
(* The AMD SPI master controller driver (spi_amd.c): one kernel thread     *)
(* that takes messages off amd_spi->msg_queue, runs each on the hardware   *)
(* and hands it back to the SPI core.  The part of the SPI core the driver *)
(* relies on (its queue, its message pump and spi_finalize_current_message)*)
(* is modelled from how the driver uses it.                                *)
(*                                                                         *)
(* The driver exists in two forms: the thread of Steppe Eagle and of the   *)
(* Falcon waits without a time limit, the thread of V1000 and of Snowy Owl *)
(* wakes every 1000 jiffies to look at kthread_should_stop().              *)
(*                                                                         *)
(* The clients that own the messages are in SpiTransport.                  *)
(***************************************************************************)
EXTENDS Naturals, Sequences

CONSTANTS
  MaxMsgs,    \* bound: how many messages are ever submitted
  WaitKind    \* "untimed": wait_event_interruptible, "timed": ..._timeout

ASSUME SpiControllerAssumption ==
  /\ MaxMsgs \in Nat \ {0}
  /\ WaitKind \in {"untimed", "timed"}

Msgs == 1 .. MaxMsgs
NoMsg == 0

VARIABLES
  coreQ,     \* master->queue of the SPI core
  curMsg,    \* master->cur_msg
  running,   \* master->running: the core accepts and pumps messages
  msgQ,      \* amd_spi->msg_queue
  thread,    \* where amd_spi_thread is
  held,      \* its local variable message
  loaded,    \* the message whose command is in the controller's registers
  stop,      \* kthread_should_stop()
  busy,      \* the BUSY bit of CTRL0
  mapped,    \* amd_spi->io_remap_addr is mapped
  ctl,       \* progress of amd_spi_pci_probe and amd_spi_pci_remove
  status,    \* message->status
  execLog,   \* messages the hardware has executed, in order
  freed,     \* messages whose call has returned, and their memory with it
  at,        \* at[m]: the message that lies where m was put and is looked for
  oops       \* the kernel has crashed, or its memory is damaged

coreVars   == <<coreQ, curMsg, running>>
threadVars == <<msgQ, thread, held, loaded, status, execLog>>
memVars    == <<freed, at>>
ctlVars    == <<coreVars, threadVars, stop, busy, mapped, ctl, memVars, oops>>

ThreadStates ==
  {"none", "wait", "check", "checkTimedOut", "pick", "program", "poll",
   "asleep", "collect", "finalize", "complete", "exited"}

\* In these states the thread is about to use the controller's registers.
UsesRegisters == {"pick", "program", "poll", "asleep", "collect"}

CtlStates ==
  {"absent", "probing", "bound", "failed",
   "joining", "unmapped", "orphaned", "gone"}

\* The SPI core knows the master, so children can be added and messages sent.
Registered == ctl \in {"bound", "joining", "unmapped", "orphaned"}

ControllerTypeOK ==
  /\ coreQ \in Seq(Msgs)
  /\ curMsg \in Msgs \cup {NoMsg}
  /\ running \in BOOLEAN
  /\ msgQ \in Seq(Msgs)
  /\ thread \in ThreadStates
  /\ held \in Msgs \cup {NoMsg}
  /\ loaded \in Msgs \cup {NoMsg}
  /\ stop \in BOOLEAN
  /\ busy \in BOOLEAN
  /\ mapped \in BOOLEAN
  /\ ctl \in CtlStates
  /\ status \in [Msgs -> {"unset", "inprogress", "ok"}]
  /\ execLog \in Seq(Msgs \cup {NoMsg})
  /\ freed \in SUBSET Msgs
  /\ at \in [Msgs -> Msgs]
  /\ oops \in BOOLEAN

ControllerInit ==
  /\ coreQ = <<>> /\ curMsg = NoMsg /\ running = FALSE
  /\ msgQ = <<>> /\ thread = "none" /\ held = NoMsg /\ loaded = NoMsg
  /\ stop = FALSE /\ busy = FALSE /\ mapped = FALSE /\ ctl = "absent"
  /\ status = [m \in Msgs |-> "unset"]
  /\ execLog = <<>> /\ oops = FALSE
  /\ freed = {} /\ at = [m \in Msgs |-> m]

\* Using memory that has been given back either still finds what was left
\* there or does damage, which counts as a crash.
MayCrash(bad) == oops' \in IF bad THEN BOOLEAN ELSE {oops}
-----------------------------------------------------------------------------
(***************************************************************************)
(* The SPI core.                                                           *)
(***************************************************************************)

\* spi_async: the message is queued unless the queue has been stopped.
SpiAsync(m) ==
  /\ coreQ' = Append(coreQ, m)
  /\ status' = [status EXCEPT ![m] = "inprogress"]
  /\ UNCHANGED <<curMsg, running, msgQ, thread, held, loaded, execLog,
                 stop, busy, mapped, ctl, memVars, oops>>

\* amd_spi_master_transfer, run by the core's pump when no message is current:
\* list_add_tail without a lock, then wake_up_interruptible.
TransferOneMessage(m) == msgQ' = Append(msgQ, m)

PumpMessages ==
  /\ running /\ curMsg = NoMsg /\ coreQ # <<>>
  /\ curMsg' = Head(coreQ)
  /\ coreQ' = Tail(coreQ)
  /\ TransferOneMessage(Head(coreQ))
  /\ MayCrash(Head(coreQ) \in freed)
  /\ UNCHANGED <<running, thread, held, loaded, status, execLog,
                 stop, busy, mapped, ctl, memVars>>
-----------------------------------------------------------------------------
(***************************************************************************)
(* amd_spi_thread.                                                         *)
(***************************************************************************)

\* The wait queue's condition holds: there is a message.
ThreadWake ==
  /\ thread = "wait" /\ msgQ # <<>>
  /\ thread' = "check"
  /\ UNCHANGED <<coreVars, msgQ, held, loaded, status, execLog,
                 stop, busy, mapped, ctl, memVars, oops>>

\* Faulty variant: the timed wait never returns on its own.
ThreadTimesOutNever == FALSE /\ UNCHANGED ctlVars

\* 1000 jiffies passed and there is still no message.  After a failed probe
\* the wait queue itself has been freed with the master.
ThreadTimesOut ==
  /\ WaitKind = "timed"
  /\ thread = "wait" /\ msgQ = <<>>
  /\ thread' = "checkTimedOut"
  /\ MayCrash(ctl = "failed")
  /\ UNCHANGED <<coreVars, msgQ, held, loaded, status, execLog,
                 stop, busy, mapped, ctl, memVars>>

ThreadChecksStop ==
  /\ thread \in {"check", "checkTimedOut"}
  /\ thread' = IF stop THEN "exited"
               ELSE IF thread = "check" THEN "pick" ELSE "wait"
  /\ UNCHANGED <<coreVars, msgQ, held, loaded, status, execLog,
                 stop, busy, mapped, ctl, memVars, oops>>

\* Faulty variant: the message stays on the list.
ThreadPickKeepsEntry ==
  /\ thread = "pick"
  /\ held' = Head(msgQ)
  /\ thread' = "program"
  /\ MayCrash(Head(msgQ) \in freed)
  /\ UNCHANGED <<coreVars, msgQ, loaded, status, execLog,
                 stop, busy, mapped, ctl, memVars>>

\* Take the first message off the queue and select its chip.
ThreadPick ==
  /\ thread = "pick"
  /\ held' = Head(msgQ)
  /\ msgQ' = Tail(msgQ)
  /\ thread' = "program"
  /\ MayCrash(Head(msgQ) \in freed)
  /\ UNCHANGED <<coreVars, loaded, status, execLog,
                 stop, busy, mapped, ctl, memVars>>

\* Walk the transfers, fill the FIFO, set the counts, set the EXEC bit.  What
\* is walked is the message that lies at the address by now.  A call that has
\* returned has left its list of transfers empty: then the command that is in
\* the registers since the last time is executed once more.
ThreadProgram ==
  /\ thread = "program"
  /\ loaded' = IF at[held] \in freed THEN loaded ELSE at[held]
  /\ busy' = TRUE
  /\ thread' = "poll"
  /\ MayCrash(held \in freed)
  /\ UNCHANGED <<coreVars, msgQ, held, status, execLog,
                 stop, mapped, ctl, memVars>>

\* One read of BUSY in amd_spi_execute_opcode: idle ends the loop, busy puts
\* the thread to sleep with schedule().
ThreadPoll ==
  /\ thread = "poll"
  /\ IF busy
       THEN thread' = "asleep" /\ UNCHANGED execLog
       ELSE thread' = "collect" /\ execLog' = Append(execLog, loaded)
  /\ UNCHANGED <<coreVars, msgQ, held, loaded, status,
                 stop, busy, mapped, ctl, memVars, oops>>

\* Faulty variant: the status of the message is never set.
ThreadCollectForgetsStatus ==
  /\ thread = "collect"
  /\ thread' = "finalize"
  /\ MayCrash(held \in freed)
  /\ UNCHANGED <<coreVars, msgQ, held, loaded, status, execLog,
                 stop, busy, mapped, ctl, memVars>>

\* Copy the answer out of the FIFO, set actual_length and status: of the
\* message that lies at the address by now.
ThreadCollect ==
  /\ thread = "collect"
  /\ status' = [status EXCEPT ![at[held]] = "ok"]
  /\ thread' = "finalize"
  /\ MayCrash(held \in freed)
  /\ UNCHANGED <<coreVars, msgQ, held, loaded, execLog,
                 stop, busy, mapped, ctl, memVars>>

\* spi_finalize_current_message, its locked half: the pump may go on.
ThreadFinalize ==
  /\ thread = "finalize"
  /\ held' = curMsg
  /\ curMsg' = NoMsg
  /\ thread' = "complete"
  /\ UNCHANGED <<coreQ, running, msgQ, loaded, status, execLog,
                 stop, busy, mapped, ctl, memVars, oops>>

\* ... and its second half, which calls message->complete(message->context).
ThreadComplete ==
  /\ thread = "complete"
  /\ held' = NoMsg
  /\ thread' = "wait"
  /\ MayCrash(held \in freed)
  /\ UNCHANGED <<coreVars, msgQ, loaded, status, execLog,
                 stop, busy, mapped, ctl, memVars>>

\* The hardware finishes the command.
HardwareIdle ==
  /\ busy
  /\ busy' = FALSE
  /\ UNCHANGED <<coreVars, threadVars, stop, mapped, ctl, memVars, oops>>
-----------------------------------------------------------------------------
(***************************************************************************)
(* amd_spi_pci_probe and amd_spi_pci_remove.                               *)
(***************************************************************************)

\* ioremap_nocache and kthread_run; if the mapping fails probe gives the
\* master back and still returns 0.  Nobody looks whether the thread could be
\* created: without it probe goes on, with an error code for its address.
ProbeStart ==
  /\ ctl = "absent"
  /\ \/ ctl' = "probing" /\ mapped' = TRUE /\ thread' \in {"wait", "none"}
     \/ ctl' = "failed" /\ UNCHANGED <<mapped, thread>>
  /\ UNCHANGED <<coreVars, msgQ, held, loaded, status, execLog,
                 stop, busy, memVars, oops>>

\* spi_register_master; if it fails probe unmaps the registers, gives the
\* master back, leaves the thread running and still returns 0.
ProbeRegister ==
  /\ ctl = "probing"
  /\ \/ ctl' = "bound" /\ running' = TRUE /\ UNCHANGED mapped
     \/ ctl' = "failed" /\ mapped' = FALSE /\ UNCHANGED running
  /\ UNCHANGED <<coreQ, curMsg, threadVars, stop, busy, memVars, oops>>

\* kthread_stop sets the stop flag and wakes the thread once, wherever it
\* sleeps.  A thread in wait_event goes back to sleep while its condition is
\* false; the one asleep on a busy bus reads BUSY again.
RemoveStop ==
  /\ ctl = "bound" /\ thread # "none"
  /\ stop' = TRUE
  /\ ctl' = "joining"
  /\ thread' = IF thread = "asleep" THEN "poll" ELSE thread
  /\ UNCHANGED <<coreVars, msgQ, held, loaded, status, execLog,
                 busy, mapped, memVars, oops>>

\* kthread_stop of a thread that could not be created: its address is an
\* error code.
RemoveStopNoThread ==
  /\ ctl = "bound" /\ thread = "none"
  /\ oops' = TRUE
  /\ UNCHANGED <<coreVars, threadVars, stop, busy, mapped, ctl, memVars>>

\* Remove of a device whose probe failed: its driver data is NULL.
RemoveFailed ==
  /\ ctl = "failed"
  /\ oops' = TRUE
  /\ UNCHANGED <<coreVars, threadVars, stop, busy, mapped, ctl, memVars>>

\* Faulty variant: the registers are unmapped before the thread has stopped.
RemoveUnmapEarly ==
  /\ ctl = "joining"
  /\ mapped' = FALSE
  /\ ctl' = "unmapped"
  /\ UNCHANGED <<coreVars, threadVars, stop, busy, memVars, oops>>

\* kthread_stop returns when the thread has exited; then iounmap.
RemoveUnmap ==
  /\ ctl = "joining" /\ thread = "exited"
  /\ mapped' = FALSE
  /\ ctl' = "unmapped"
  /\ UNCHANGED <<coreVars, threadVars, stop, busy, memVars, oops>>

\* spi_unregister_master first stops the core's queue: it waits until the
\* queue is idle, and gives up after a while, leaving it running.
RemoveStopQueue ==
  /\ ctl = "unmapped"
  /\ \/ coreQ = <<>> /\ curMsg = NoMsg /\ running' = FALSE
     \/ ~(coreQ = <<>> /\ curMsg = NoMsg) /\ UNCHANGED running
  /\ ctl' = "orphaned"
  /\ UNCHANGED <<coreQ, curMsg, threadVars, stop, busy, mapped, memVars, oops>>

\* ... then unregisters the children and drops the driver's reference to the
\* master.  amd_spi_pci_remove drops it once more, and the last of the two
\* users of the master finds freed memory.
RemoveChildren ==
  /\ ctl = "orphaned"
  /\ ctl' = "gone"
  /\ MayCrash(TRUE)
  /\ UNCHANGED <<coreVars, threadVars, stop, busy, mapped, memVars>>
=============================================================================
