----------------------- MODULE SpiTransportRefinement -----------------------
(***************************************************************************)
(* SpiTransport implements SerialChannel, proved for any set of clients,   *)
(* any number of messages and both forms of the controller's thread.       *)
(*                                                                         *)
(* AnswerInv says what IInv does not: which messages have had no answer    *)
(* yet, and that the caller of one that is still on its way does not know  *)
(* what becomes of it.                                                     *)
(***************************************************************************)
EXTENDS SpiTransportProofs

AnswerInv ==
  /\ \A m \in Msgs : m <= submitted /\ ret[m] = "none" => \E c \in Clients : msg[c] = m
  /\ \A c \in Clients : msg[c] # NoMsg => ret[msg[c]] = "none"
  /\ \A m \in Msgs : m > submitted => ret[m] = "none"
  /\ freed = {m \in Msgs : ret[m] # "none"}
  /\ over # {} => Channel!Unknown
  /\ \A m \in OnItsWay \ over :
       status[m] # "ok" /\ ret[m] \in {"none", "inprogress", "fault"}

LEMMA InitAnswerInv == Init => AnswerInv
  BY DEF Init, ControllerInit, AnswerInv, OnItsWay, Queued, Msgs, NoMsg

\* Which steps touch what AnswerInv is about.
LEMMA AnswersOnlyMove ==
  ASSUME Next
  PROVE  \/ UNCHANGED <<msg, ret, submitted, over, freed>>
         \/ \E c \in Clients : MessageBuild(c) \/ SyncShutdown(c) \/ SyncReturn(c)
  <1> USE DEF ctlVars, coreVars, threadVars, memVars, clientVars
  <1>1. ASSUME NEW c \in Clients, IoctlEnter(c) \/ ClientStep(c)
        PROVE  \/ UNCHANGED <<msg, ret, submitted, over>>
               \/ MessageBuild(c) \/ SyncShutdown(c) \/ SyncReturn(c)
    BY <1>1 DEF IoctlEnter, ClientStep, IoctlLock, IoctlFails,
       SyncSubmit, SpiAsync, SyncWake, SyncTimeout
  <1>2. ASSUME ThreadStep
        PROVE  UNCHANGED <<msg, ret, submitted, over>>
    BY <1>2 DEF ThreadStep, Complete
  <1>3. ASSUME \/ (PumpMessages \/ HardwareIdle) /\ UNCHANGED clientVars
               \/ RemoveStep \/ Environment
        PROVE  UNCHANGED <<msg, ret, submitted, over>>
    BY <1>3 DEF RemoveStep, DetachDevice, Environment, AttachDevice
  <1> QED
    BY <1>1, <1>2, <1>3, OnlyLeaveEnds DEF Next

\* Where the messages are, and what becomes of their status.
LEMMA WaysOnlyShrink ==
  ASSUME IInv, Next, ~ \E c \in Clients : SyncSubmit(c)
  PROVE  /\ OnItsWay' \subseteq OnItsWay
         /\ \/ UNCHANGED status
            \/ /\ status' = [status EXCEPT ![at[held]] = "ok"]
               /\ held \in Msgs /\ held \notin OnItsWay'
  <1> USE DEF ctlVars, coreVars, threadVars, clientVars
  <1>0. TypeOK /\ ControllerTypeOK /\ CurrentInv /\ OrderInv /\ NoMsg \notin Msgs
    BY DEF IInv, TypeOK, NoMsg, Msgs
  <1>1. ASSUME NEW c \in Clients, IoctlEnter(c) \/ ClientStep(c)
        PROVE  UNCHANGED <<coreQ, msgQ, held, thread, status>>
    BY <1>1 DEF IoctlEnter, ClientStep, IoctlLock, MessageBuild, IoctlFails,
       SyncShutdown, SyncWake, SyncTimeout, SyncReturn
  <1>2. CASE \/ /\ HardwareIdle \/ ThreadWake \/ ThreadTimesOut \/ ThreadChecksStop
                /\ UNCHANGED clientVars
             \/ RemoveStep \/ Environment
    <2>1. /\ UNCHANGED <<coreQ, msgQ, held, status>>
          /\ thread' \in {"program", "poll", "asleep", "collect"} =>
               thread \in {"program", "poll", "asleep", "collect"}
      BY <1>2, EnvironmentMovesNothing DEF Commanded
    <2> QED
      BY <2>1 DEF OnItsWay, Queued
  <1>3. CASE ThreadProgram \/ ThreadPoll
    <2>1. /\ UNCHANGED <<coreQ, msgQ, held, status>>
          /\ thread \in {"program", "poll"}
      BY <1>3 DEF ThreadProgram, ThreadPoll
    <2> QED
      BY <2>1 DEF OnItsWay, Queued
  <1>4. CASE ThreadPick
    <2>1. msgQ = <<curMsg>> /\ curMsg # NoMsg
      BY <1>0, <1>4 DEF ThreadPick, CurrentInv
    <2>2. msgQ' = <<>> /\ held' = curMsg /\ UNCHANGED <<coreQ, status>>
      BY <1>4, <2>1 DEF ThreadPick
    <2> QED
      BY <2>1, <2>2 DEF OnItsWay, Queued
  <1>5. CASE ThreadCollect
    <2>1. /\ held = curMsg /\ held \in Msgs /\ msgQ = <<>>
          /\ UNCHANGED <<coreQ, msgQ>> /\ thread' = "finalize"
          /\ status' = [status EXCEPT ![at[held]] = "ok"]
      BY <1>0, <1>5 DEF ThreadCollect, CurrentInv, Working
    <2>2. \A i \in DOMAIN coreQ : held < coreQ[i] /\ held # coreQ[i]
      BY <1>0, <2>1 DEF OrderInv, Msgs
    <2> QED
      BY <2>1, <2>2 DEF OnItsWay, Queued
  <1>6. CASE ThreadFinalize \/ Complete
    <2>1. /\ UNCHANGED <<coreQ, msgQ, status>> /\ thread' \in {"complete", "wait"}
      BY <1>6 DEF ThreadFinalize, Complete, ThreadComplete
    <2> QED
      BY <2>1 DEF OnItsWay, Queued
  <1>7. CASE PumpMessages
    <2>0. msgQ = <<>>
      BY <1>0, <1>7 DEF PumpMessages, CurrentInv
    <2>1. /\ coreQ # <<>> /\ UNCHANGED <<held, thread, status>>
          /\ coreQ' = Tail(coreQ) /\ msgQ' = <<Head(coreQ)>>
      BY <2>0, <1>7 DEF PumpMessages, TransferOneMessage
    <2>2. /\ Head(coreQ) = coreQ[1] /\ 1 \in DOMAIN coreQ
          /\ \A i \in DOMAIN coreQ' :
               i + 1 \in DOMAIN coreQ /\ coreQ'[i] = coreQ[i + 1]
      BY <1>0, <2>1, TailElements DEF ControllerTypeOK
    <2> QED
      BY <2>0, <2>1, <2>2 DEF OnItsWay, Queued
  <1>8. CASE UNCHANGED <<coreQ, msgQ, held, thread, status>>
    BY <1>8 DEF OnItsWay, Queued
  <1> QED
    BY <1>1, <1>2, <1>3, <1>4, <1>5, <1>6, <1>7, <1>8 DEF Next, ThreadStep

\* Whose message is still expected where it lay does not know its fate.
LEMMA GoneIsUnknown ==
  ASSUME IInv, AnswerInv, NEW m \in OnItsWay, at[m] \in freed
  PROVE  Channel!Unknown
  <1>1. m \in References /\ m \in Msgs
    <2>1. OnItsWay \subseteq References
      BY DEF OnItsWay, Queued, References, IInv, CurrentInv, Working, NoMsg, Msgs
    <2> QED
      BY <2>1, MessagesAreNumbers DEF IInv
  <1>2. CASE m \in over \/ at[m] # m
    BY <1>1, <1>2 DEF IInv, CommandInv, AnswerInv
  <1>3. CASE m \notin over /\ at[m] = m
    <2>1. ret[m] \in {"inprogress", "fault"}
      BY <1>1, <1>3 DEF AnswerInv
    <2>2. m \in 1 .. submitted
      BY <1>1 DEF IInv, OrderInv, TypeOK, Msgs
    <2> QED
      BY <2>1, <2>2 DEF Channel!Unknown
  <1> QED
    BY <1>2, <1>3

LEMMA BuildKeepsAnswers ==
  ASSUME IInv, AnswerInv, NEW c \in Clients, MessageBuild(c)
  PROVE  AnswerInv'
  <1>1. /\ submitted \in 0 .. MaxMsgs - 1 /\ submitted' = submitted + 1
        /\ msg' = [msg EXCEPT ![c] = submitted + 1]
        /\ UNCHANGED <<ret, coreQ, msgQ, held, thread, status, freed>>
        /\ over \subseteq over'
        /\ msg \in [Clients -> Msgs \cup {NoMsg}] /\ MaxMsgs \in Nat
    BY SpiControllerAssumption
    DEF IInv, TypeOK, MessageBuild, ctlVars, coreVars, threadVars
  <1>2. pc[c] = "build" /\ \A d \in Clients : msg[d] = NoMsg
    BY OneInside DEF IInv, LockInv, Inside, MessageBuild
  <1>3. OnItsWay' = OnItsWay
    BY <1>1 DEF OnItsWay, Queued
  <1>4. ret[submitted + 1] = "none" /\ submitted + 1 \in Msgs
    BY <1>1 DEF AnswerInv, Msgs
  <1>5. \A m \in Msgs : m <= submitted => ret[m] # "none"
    BY <1>2 DEF AnswerInv, Msgs, NoMsg
  <1>6. \A m \in Msgs : m <= submitted' /\ ret'[m] = "none" =>
          \E d \in Clients : msg'[d] = m
    <2> SUFFICES ASSUME NEW m \in Msgs, m <= submitted', ret'[m] = "none"
                 PROVE  msg'[c] = m
      OBVIOUS
    <2>1. m = submitted + 1
      BY <1>1, <1>5 DEF Msgs
    <2> QED
      BY <1>1, <2>1
  <1>7. \A d \in Clients : msg'[d] # NoMsg => ret'[msg'[d]] = "none"
    BY <1>1, <1>2, <1>4
  <1>8. \A m \in Msgs : m > submitted' => ret'[m] = "none"
    BY <1>1 DEF AnswerInv, Msgs
  <1>9. over' # {} => Channel!Unknown'
    <2>1. UNCHANGED over \/ Abandoned # {}
      BY DEF MessageBuild
    <2>2. over' # {} => Channel!Unknown
      BY <2>1, GoneIsUnknown DEF AnswerInv, Abandoned
    <2> QED
      BY <1>1, <2>2 DEF Channel!Unknown
  <1>10. \A m \in OnItsWay' \ over' :
           status'[m] # "ok" /\ ret'[m] \in {"none", "inprogress", "fault"}
    BY <1>1, <1>3 DEF AnswerInv
  <1>11. freed' = {m \in Msgs : ret'[m] # "none"}
    BY <1>1 DEF AnswerInv
  <1> QED
    BY <1>6, <1>7, <1>8, <1>9, <1>10, <1>11 DEF AnswerInv

\* What a call does to the message it has been waiting for.
LEMMA LeaveAnswersNewest ==
  ASSUME IInv, AnswerInv, NEW c \in Clients, SyncShutdown(c) \/ SyncReturn(c)
  PROVE  /\ submitted \in Msgs /\ msg[c] = submitted /\ ret[submitted] = "none"
         /\ \E r \in {"ok", "inprogress", "shutdown", "fault"} :
              /\ ret' = [ret EXCEPT ![submitted] = r]
              /\ submitted \notin over =>
                   /\ r = "ok" => submitted \in Executed
                   /\ r = "shutdown" => submitted \notin {loaded} \cup Executed
                   /\ submitted \in OnItsWay => r \in {"inprogress", "fault"}
         /\ msg' = [msg EXCEPT ![c] = NoMsg]
         /\ freed' = freed \cup {submitted}
         /\ UNCHANGED <<submitted, execLog, loaded, over, coreQ, msgQ, held, thread,
                        status>>
  <1> USE DEF coreVars, threadVars
  <1>0. TypeOK /\ ControllerTypeOK /\ LockInv /\ OrderInv /\ CommandInv /\ CurrentInv
    BY DEF IInv, TypeOK
  <1>1. /\ msg[c] = submitted /\ submitted \in Msgs
        /\ msg' = [msg EXCEPT ![c] = NoMsg]
        /\ freed' = freed \cup {submitted} /\ submitted \notin freed
        /\ UNCHANGED <<submitted, execLog, loaded, over, coreQ, msgQ, held, thread,
                       status>>
    BY <1>0 DEF SyncShutdown, SyncReturn, Leave, LockInv, TypeOK
  <1>a. ret[submitted] = "none"
    BY <1>1 DEF AnswerInv, NoMsg, Msgs
  <1>2. CASE SyncShutdown(c)
    <2>1. Unsubmitted
      BY <1>2 DEF SyncShutdown, Unsubmitted
    <2>2. submitted \notin References \cup Past
      BY <1>0, <1>1, <2>1 DEF OrderInv, Msgs
    <2>3. OnItsWay \subseteq References
      BY <1>0 DEF OnItsWay, Queued, References, CurrentInv, Working, NoMsg, Msgs
    <2>4. \E r \in {"shutdown", "fault"} : ret' = [ret EXCEPT ![submitted] = r]
      BY <1>1, <1>2 DEF SyncShutdown, Leave
    <2> QED
      BY <1>1, <1>a, <2>2, <2>3, <2>4 DEF Past
  <1>3. CASE SyncReturn(c)
    <2>1. status[submitted] \in {"inprogress", "ok"}
      BY <1>0, <1>1, <1>3 DEF SyncReturn, LockInv, ControllerTypeOK
    <2>2. status[submitted] = "ok" => submitted \in Executed \cup over
      BY <1>0, <1>1 DEF CommandInv
    <2>3. submitted \in OnItsWay \ over => status[submitted] # "ok"
      BY DEF AnswerInv
    <2>4. \E r \in {status[submitted], "fault"} : ret' = [ret EXCEPT ![submitted] = r]
      BY <1>1, <1>3 DEF SyncReturn, Leave
    <2> QED
      BY <1>1, <1>a, <2>1, <2>2, <2>3, <2>4
  <1> QED
    BY <1>2, <1>3

LEMMA LeaveKeepsAnswers ==
  ASSUME IInv, AnswerInv, NEW c \in Clients, SyncShutdown(c) \/ SyncReturn(c)
  PROVE  AnswerInv'
  <1>1. PICK r \in {"ok", "inprogress", "shutdown", "fault"} :
          /\ ret' = [ret EXCEPT ![submitted] = r]
          /\ submitted \in OnItsWay \ over => r \in {"inprogress", "fault"}
    BY LeaveAnswersNewest
  <1>2. /\ submitted \in Msgs /\ msg[c] = submitted /\ ret[submitted] = "none"
        /\ msg' = [msg EXCEPT ![c] = NoMsg] /\ freed' = freed \cup {submitted}
        /\ UNCHANGED <<submitted, coreQ, msgQ, held, thread, status, over>>
        /\ msg \in [Clients -> Msgs \cup {NoMsg}] /\ ret \in [Msgs -> Results]
    BY LeaveAnswersNewest DEF IInv, TypeOK
  <1>3. OnItsWay' = OnItsWay
    BY <1>2 DEF OnItsWay, Queued
  <1>4. \A d \in Clients : d # c => msg[d] = NoMsg
    BY <1>2, OneInside DEF IInv, LockInv, Inside, NoMsg, Msgs
  <1>5. \A m \in Msgs : m # submitted => ret'[m] = ret[m]
    BY <1>1, <1>2
  <1>6. ret'[submitted] = r
    BY <1>1, <1>2
  <1>7. \A m \in Msgs : m <= submitted /\ ret'[m] = "none" => \E d \in Clients : msg'[d] = m
    BY <1>2, <1>4, <1>5, <1>6 DEF AnswerInv, NoMsg, Msgs
  <1>8. \A d \in Clients : msg'[d] = NoMsg
    BY <1>2, <1>4
  <1>9. \A m \in OnItsWay' \ over' :
          status'[m] # "ok" /\ ret'[m] \in {"none", "inprogress", "fault"}
    <2>1. OnItsWay \subseteq Msgs
      BY MessagesAreNumbers
      DEF OnItsWay, Queued, References, IInv, CurrentInv, Working, NoMsg, Msgs
    <2> QED
      BY <1>1, <1>2, <1>3, <1>5, <1>6, <2>1 DEF AnswerInv
  <1>10. \A m \in Msgs : m > submitted => ret'[m] = "none"
    BY <1>2, <1>5 DEF AnswerInv, Msgs
  <1>11. freed' = {m \in Msgs : ret'[m] # "none"}
    BY <1>1, <1>2, <1>5, <1>6 DEF AnswerInv
  <1>12. over' # {} => Channel!Unknown'
    <2>1. Channel!Unknown => Channel!Unknown'
      <3> SUFFICES ASSUME Channel!Unknown PROVE Channel!Unknown'
        OBVIOUS
      <3>1. PICK m \in 1 .. submitted : ret[m] \in {"inprogress", "fault"}
        BY DEF Channel!Unknown
      <3>2. m \in Msgs /\ m # submitted
        BY <1>2, <3>1, SpiControllerAssumption DEF Msgs
      <3> QED
        BY <1>2, <1>5, <3>1, <3>2 DEF Channel!Unknown
    <2> QED
      BY <1>2, <2>1 DEF AnswerInv
  <1> QED
    BY <1>2, <1>7, <1>8, <1>9, <1>10, <1>11, <1>12 DEF AnswerInv

LEMMA AnswerInvStep == IInv /\ AnswerInv /\ [Next]_vars => AnswerInv'
  <1> SUFFICES ASSUME IInv, AnswerInv, [Next]_vars PROVE AnswerInv'
    OBVIOUS
  <1>1. CASE Next /\ UNCHANGED <<msg, ret, submitted, over, freed>>
    <2>1. \A m \in OnItsWay' \ over :
            status'[m] # "ok" /\ ret[m] \in {"none", "inprogress", "fault"}
      <3>1. CASE ~ \E c \in Clients : SyncSubmit(c)
        <4>1. CASE UNCHANGED status
          BY <1>1, <3>1, <4>1, WaysOnlyShrink DEF AnswerInv
        <4>2. CASE /\ status' = [status EXCEPT ![at[held]] = "ok"]
                   /\ held \in Msgs /\ held \notin OnItsWay'
          <5>1. at[held] = held \/ at[held] \in over
            BY <4>2 DEF IInv, CommandInv
          <5>2. \A m \in OnItsWay' \ over : m # at[held] /\ m \in OnItsWay
            BY <1>1, <3>1, <4>2, <5>1, WaysOnlyShrink
          <5>3. status \in [Msgs -> {"unset", "inprogress", "ok"}]
            BY DEF IInv, TypeOK, ControllerTypeOK
          <5>4. \A m \in OnItsWay' \ over : status'[m] = status[m]
            BY <4>2, <5>2, <5>3
          <5> QED
            BY <5>2, <5>4 DEF AnswerInv
        <4> QED
          BY <1>1, <3>1, <4>1, <4>2, WaysOnlyShrink
      <3>2. ASSUME NEW c \in Clients, SyncSubmit(c)
            PROVE  \A m \in OnItsWay' \ over :
                     status'[m] # "ok" /\ ret[m] \in {"none", "inprogress", "fault"}
        <4>1. /\ msg[c] # NoMsg /\ msg[c] \in Msgs
              /\ coreQ' = Append(coreQ, msg[c]) /\ UNCHANGED <<msgQ, held, thread>>
              /\ coreQ \in Seq(Msgs)
              /\ status' = [status EXCEPT ![msg[c]] = "inprogress"]
              /\ status \in [Msgs -> {"unset", "inprogress", "ok"}]
          BY <3>2 DEF IInv, TypeOK, ControllerTypeOK, LockInv, SyncSubmit, SpiAsync
        <4>2. /\ DOMAIN coreQ' = DOMAIN coreQ \cup {Len(coreQ) + 1}
              /\ \A i \in DOMAIN coreQ : coreQ'[i] = coreQ[i]
              /\ coreQ'[Len(coreQ) + 1] = msg[c]
          BY <4>1, AppendElements
        <4>3. OnItsWay' \subseteq OnItsWay \cup {msg[c]}
          BY <4>1, <4>2 DEF OnItsWay, Queued
        <4>4. ret[msg[c]] = "none" /\ status'[msg[c]] = "inprogress"
          BY <4>1 DEF AnswerInv
        <4>5. \A m \in OnItsWay : m # msg[c] => status'[m] = status[m]
          BY <4>1
        <4> QED
          BY <4>3, <4>4, <4>5 DEF AnswerInv
      <3> QED
        BY <3>1, <3>2
    <2>2. Channel!Unknown' <=> Channel!Unknown
      BY <1>1 DEF Channel!Unknown
    <2> QED
      BY <1>1, <2>1, <2>2 DEF AnswerInv
  <1>2. CASE UNCHANGED vars
    <2>1. /\ UNCHANGED <<msg, ret, submitted, over, freed, status>>
          /\ OnItsWay' = OnItsWay /\ (Channel!Unknown' <=> Channel!Unknown)
      BY <1>2 DEF vars, ctlVars, coreVars, threadVars, memVars, clientVars,
         OnItsWay, Queued, Channel!Unknown
    <2> QED
      BY <2>1 DEF AnswerInv
  <1> QED
    BY <1>1, <1>2, AnswersOnlyMove, BuildKeepsAnswers, LeaveKeepsAnswers
-----------------------------------------------------------------------------
\* The abstract running: the controller works on a command.
Runs == thread \in {"poll", "asleep"}

\* Only two steps of the thread are seen in the channel.
LEMMA ThreadMoves ==
  ASSUME IInv, Next
  PROVE  \/ UNCHANGED <<loaded, Runs, execLog>>
         \/ ThreadProgram /\ UNCHANGED clientVars
         \/ ThreadPoll /\ ~busy /\ UNCHANGED clientVars
  <1> USE DEF ctlVars, coreVars, threadVars
  <1>1. ASSUME NEW c \in Clients, IoctlEnter(c) \/ ClientStep(c)
        PROVE  UNCHANGED <<loaded, thread, execLog>>
    BY <1>1 DEF IoctlEnter, ClientStep, IoctlLock, IoctlFails, MessageBuild,
       SyncSubmit, SpiAsync, SyncShutdown, SyncWake, SyncTimeout, SyncReturn
  <1>2. CASE \/ /\ HardwareIdle \/ ThreadWake \/ ThreadTimesOut \/ ThreadChecksStop
                /\ UNCHANGED clientVars
             \/ RemoveStep \/ Environment
    <2>1. /\ UNCHANGED <<loaded, execLog>>
          /\ \/ UNCHANGED thread
             \/ {thread, thread'} \subseteq {"poll", "asleep"}
             \/ {thread, thread'} \cap {"poll", "asleep"} = {}
      BY <1>2, EnvironmentMovesNothing DEF Commanded
    <2>2. Runs <=> Runs'
      BY <2>1 DEF Runs
    <2> QED
      BY <2>1, <2>2 DEF Runs
  <1>3. CASE ThreadPick \/ ThreadCollect \/ ThreadFinalize \/ Complete \/ PumpMessages
    BY <1>3 DEF ThreadPick, ThreadCollect, ThreadFinalize, Complete, ThreadComplete,
       PumpMessages, Runs
  <1>4. CASE ThreadPoll /\ busy
    BY <1>4 DEF ThreadPoll, Runs
  <1> QED
    BY <1>1, <1>2, <1>3, <1>4 DEF Next, ThreadStep, Runs

\* A command is loaded whose call waits, or the last one is repeated because
\* the caller of the message in hand is gone.
LEMMA ProgramIsAbstract ==
  ASSUME IInv, AnswerInv, ThreadProgram, UNCHANGED clientVars
  PROVE  Channel!Repeat \/ \E m \in 1 .. submitted : Channel!Load(m)
  <1>1. /\ UNCHANGED <<submitted, execLog, ret, over>> /\ ~Runs /\ Runs'
        /\ thread = "program" /\ held \in OnItsWay
    BY DEF ThreadProgram, clientVars, OnItsWay, Runs
  <1>2. CASE at[held] \in freed
    <2>1. Channel!Unknown /\ loaded' = loaded
      BY <1>1, <1>2, GoneIsUnknown, WhatIsLoaded
    <2> QED
      BY <1>1, <2>1 DEF Channel!Repeat, Runs
  <1>3. CASE at[held] \notin freed
    <2>1. /\ loaded' = at[held] /\ at[held] \in Msgs
          /\ held = curMsg /\ curMsg \in References /\ curMsg \in Msgs
      BY <1>3, WhatIsLoaded DEF IInv, TypeOK, ControllerTypeOK
    <2>2. at[held] \in 1 .. submitted
      <3>1. CASE at[held] = held
        BY <2>1, <3>1 DEF IInv, OrderInv, TypeOK, Msgs
      <3>2. CASE at[held] # held
        BY <2>1, <3>2 DEF IInv, CommandInv
      <3> QED
        BY <3>1, <3>2
    <2>3. ret[at[held]] = "none"
      BY <1>3, <2>1 DEF AnswerInv
    <2>4. {at[held], loaded} \cap over = {} => loaded < at[held]
      <3> SUFFICES ASSUME at[held] \notin over, loaded \notin over
                   PROVE  loaded < at[held]
        OBVIOUS
      <3>1. at[held] = curMsg /\ loaded \in Past
        BY <2>1 DEF IInv, CommandInv, Past
      <3> QED
        BY <1>1, <2>1, <3>1 DEF IInv, OrderInv, Commanded, NoMsg, Msgs
    <2>5. Channel!Load(at[held])
      BY <1>1, <2>1, <2>3, <2>4 DEF Channel!Load, Runs
    <2> QED
      BY <2>2, <2>5
  <1> QED
    BY <1>2, <1>3

LEMMA PollIsAbstract ==
  ASSUME ThreadPoll, ~busy, UNCHANGED clientVars
  PROVE  Channel!Execute
  BY DEF ThreadPoll, clientVars, Channel!Execute

LEMMA BuildIsAbstract ==
  ASSUME IInv, AnswerInv, NEW c \in Clients, MessageBuild(c)
  PROVE  Channel!Give
  <1>1. /\ submitted < MaxMsgs /\ submitted' = submitted + 1
        /\ UNCHANGED <<execLog, ret, loaded, thread>>
    BY DEF MessageBuild, ctlVars, threadVars
  <1>2. \A d \in Clients : msg[d] = NoMsg
    BY OneInside DEF IInv, LockInv, Inside, MessageBuild
  <1>3. \A m \in 1 .. submitted : ret[m] # "none"
    BY <1>2, SpiControllerAssumption DEF AnswerInv, IInv, TypeOK, NoMsg, Msgs
  <1>4. over' = over \/ (Channel!Unknown /\ over' = over \cup {submitted + 1})
    BY GoneIsUnknown DEF MessageBuild, Abandoned
  <1> QED
    BY <1>1, <1>3, <1>4 DEF Channel!Give

LEMMA LeaveIsAbstract ==
  ASSUME IInv, AnswerInv, NEW c \in Clients, SyncShutdown(c) \/ SyncReturn(c)
  PROVE  \E m \in 1 .. submitted, r \in {"ok", "inprogress", "shutdown", "fault"} :
           Channel!Answer(m, r)
  <1>1. PICK r \in {"ok", "inprogress", "shutdown", "fault"} :
          /\ ret' = [ret EXCEPT ![submitted] = r]
          /\ submitted \notin over =>
               /\ r = "ok" => submitted \in Executed
               /\ r = "shutdown" => submitted \notin {loaded} \cup Executed
    BY LeaveAnswersNewest
  <1>2. /\ submitted \in 1 .. submitted /\ ret[submitted] = "none"
        /\ UNCHANGED <<submitted, execLog, loaded, thread, over>>
    BY LeaveAnswersNewest DEF Msgs
  <1>3. Channel!Answer(submitted, r)
    BY <1>1, <1>2 DEF Channel!Answer, Executed
  <1> QED
    BY <1>2, <1>3

\* The callers of /dev/spirom may take the whole path, spirom_ioctl,
\* spirom_sync, the SPI core and amd_spi_thread, for the serial channel that
\* SerialChannel describes, whatever is removed or times out meanwhile and
\* wherever the messages lie.
THEOREM ChannelImplemented == Spec => ImplementsChannel
  <1>1. Init => Channel!Init
    BY DEF Init, ControllerInit, Channel!Init, Msgs, NoMsg
  <1>2. IInv /\ AnswerInv /\ [Next]_vars => [Channel!Next]_Channel!vars
    <2> SUFFICES ASSUME IInv, AnswerInv, [Next]_vars
                 PROVE  Channel!Next \/ UNCHANGED <<submitted, loaded, Runs, execLog,
                                                    ret, over>>
      BY DEF Channel!vars, Runs
    <2>1. CASE ThreadProgram /\ UNCHANGED clientVars
      BY <2>1, ProgramIsAbstract DEF Channel!Next
    <2>2. CASE ThreadPoll /\ ~busy /\ UNCHANGED clientVars
      BY <2>2, PollIsAbstract DEF Channel!Next
    <2>3. ASSUME NEW c \in Clients, MessageBuild(c) \/ SyncShutdown(c) \/ SyncReturn(c)
          PROVE  Channel!Next
      BY <2>3, BuildIsAbstract, LeaveIsAbstract DEF Channel!Next
    <2>4. CASE UNCHANGED vars
      BY <2>4 DEF vars, ctlVars, threadVars, clientVars, Runs
    <2> QED
      BY <2>1, <2>2, <2>3, <2>4, ThreadMoves, AnswersOnlyMove
  <1>3. IInv /\ AnswerInv /\ [Next]_vars => AnswerInv'
    BY AnswerInvStep
  <1> QED
    BY <1>1, <1>2, <1>3, InitAnswerInv, Invariance, PTL DEF Spec, ImplementsChannel, Channel!Spec
=============================================================================
