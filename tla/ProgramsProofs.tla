--------------------------- MODULE ProgramsProofs ---------------------------
(***************************************************************************)
(* What holds of smbus-test and rtc-test for every set of adapters,        *)
(* addresses, registers and files, and any number of open files.  No       *)
(* fairness is used.                                                       *)
(***************************************************************************)
EXTENDS Programs, TLAPS

Waited == {"update", "periodic"}

\* How far a call that has the mailbox for itself has brought the command to the IMC.
Delivered(c) ==
  /\ \A d \in Callers \ {c} : at[d] = 0
  /\ at[c] = 4 => index = REG1
  /\ at[c] \in {5, 6} => message[REG1] = ENTER
  /\ at[c] = 6 => index = SYS_TO_IMC
  /\ at[c] = 7 => scratch \/ (ringing /\ message[REG1] = ENTER)
  /\ at[c] \in {8, 9} => scratch

\* The command to go back to the ROM is never in the mailbox, and an open that has had the
\* mailbox for itself leaves the IMC in its scratch RAM.
MailInv ==
  /\ message[REG1] # EXIT
  /\ \A c \in Callers : at[c] > 0 => imc_enabled /\ (alone[c] => Delivered(c))
  /\ imc_enabled /\ spc = "opening" /\ at[Smbus] = 0 /\ alone[Smbus] => scratch
  /\ imc_enabled /\ spirom = "opening" /\ at[Spirom] = 0 /\ alone[Spirom] => scratch
  /\ KeptOffFlash

\* Which of the two interrupts may be on, where.
LoopInv ==
  /\ rpc = "out" => on \cap Waited = {}
  /\ ~failed => on \cap Waited \subseteq (IF rpc \in Looping \cup {"off"} THEN {waits} ELSE {})

\* What the alarm's flag and its handler say of the past.
AlarmInv ==
  /\ handler = "alarm" => failed \/ rpc \in {"set", "poll", "clean", "out"}
  /\ signal_recvd => failed \/ rpc \in {"set", "poll", "clean", "clear", "out"}
  /\ rpc \in {"set", "poll"} /\ signal_recvd => ctrl \/ before
  /\ rpc = "set" => said = "none"
  /\ rpc = "poll" => "alarm" \in on \/ fired \/ signal_recvd
  /\ AlarmToldTruly

\* The files of the kernel, as the type invariant needs them.
OpenFile == [open : {TRUE}, adapter : Adapters, addr : 0..127]

FilesInv == files \in [Descriptors -> {NoFile} \cup OpenFile]

\* Open files fill the descriptors from below, so setadapternum finds its own at the top; what
\* the program reports of the file in use is so, but for an address it was never given.
FileInv ==
  /\ spc = "out" => \A d \in Descriptors : ~files[d].open
  /\ spc \in {"prompt", "opening"} =>
       \A d, e \in Descriptors : files[d].open /\ e < d => files[e].open
  /\ spc = "opening" =>
       \E d \in Descriptors : /\ files[d].open /\ files[d].addr = 0
                              /\ \A e \in Descriptors : files[e].open => e <= d
  /\ spc = "prompt" /\ fd # 0 =>
       files[fd].adapter = adapter_nr /\ files[fd].addr \in {0, slave_addr}
  /\ TransferAsTold

IInv == TypeOK /\ FilesInv /\ MailInv /\ FileInv /\ LoopInv /\ AlarmInv
----------------------------------------------------------------------------
(* Types. *)

\* What a call, and each step of a call or of the IMC, leaves of the mailbox's types.
LEMMA ImcTypes ==
  ASSUME ImcTypeOK,
         \/ ImcStep
         \/ \E c \in Callers, f \in {ENTER, EXIT} : Call(c, f)
         \/ UNCHANGED imc
  PROVE  ImcTypeOK'
<1> USE DEF ImcTypeOK
<1>1. ASSUME NEW c \in Callers, NEW f \in {ENTER, EXIT}, Call(c, f) PROVE ImcTypeOK'
  <2>1. alone' \in [Callers -> BOOLEAN]
    BY <1>1, Zenon DEF Call
  <2>2. at' \in [Callers -> 0..9] /\ which' \in [Callers -> {ENTER, EXIT}]
    BY <1>1 DEF Call
  <2> QED
    BY <1>1, <2>1, <2>2 DEF Call
<1>2. ASSUME NEW c \in Callers, Write(c) PROVE ImcTypeOK'
  <2> DEFINE a == Access(which[c], at[c])
  <2>1. a.port \in {"index", "data"} /\ a.value \in Bytes \cup {REG0, REG1, SYS_TO_IMC}
    BY <1>2 DEF Write, Access, Command, Bytes
  <2>2. a.port = "index" => a.value \in {REG0, REG1, SYS_TO_IMC}
    BY <1>2 DEF Write, Access
  <2>3. a.port = "data" => a.value \in Bytes
    BY <1>2 DEF Write, Access, Command, Bytes
  <2>4. index' \in {REG0, REG1, SYS_TO_IMC} /\ message' \in [{REG0, REG1} -> Bytes]
    BY <1>2, <2>1, <2>2, <2>3 DEF Write
  <2>5. ringing' \in BOOLEAN
    BY <1>2, Zenon DEF Write
  <2>6. at' \in [Callers -> 0..9]
    BY <1>2 DEF Write
  <2>7. UNCHANGED <<imc_enabled, scratch, which, alone>>
    BY <1>2 DEF Write
  <2> QED
    BY <2>4, <2>5, <2>6, <2>7
<1>3. ASSUME NEW c \in Callers, Slept(c) \/ SelectAnswer(c) \/ Return(c) PROVE ImcTypeOK'
  BY <1>3 DEF Slept, SelectAnswer, Return
<1>4. ASSUME ImcServes PROVE ImcTypeOK'
  BY <1>4 DEF ImcServes, Bytes
<1>5. ASSUME UNCHANGED imc PROVE ImcTypeOK'
  BY <1>5 DEF imc
<1> QED
  BY <1>1, <1>2, <1>3, <1>4, <1>5 DEF ImcStep

\* The first states are of the right type.
LEMMA InitTypes == Init => TypeOK /\ FilesInv
<1> SUFFICES ASSUME Init PROVE TypeOK /\ FilesInv
  OBVIOUS
<1>1. ImcTypeOK
  <2>1. alone \in [Callers -> BOOLEAN]
    BY DEF Init, SmbusInit, ImcInit
  <2>2. at \in [Callers -> 0..9]
    BY DEF Init, SmbusInit, ImcInit
  <2> QED
    BY <2>1, <2>2 DEF Init, SmbusInit, ImcInit, ImcTypeOK, Bytes
<1>2. FilesInv
  BY DEF Init, SmbusInit, FilesInv
<1>3. SmbusTypeOK
  BY <1>1, SmbusAssumption DEF Init, SmbusInit, SmbusTypeOK
<1>4. RtcTypeOK
  BY DEF Init, RtcInit, RtcTypeOK
<1> QED
  BY <1>2, <1>3, <1>4 DEF TypeOK

\* A step of smbus-test, of spirom's user or of the IMC keeps the types.
LEMMA SmbusTypes == SmbusTypeOK /\ FilesInv /\ SmbusNext => SmbusTypeOK' /\ FilesInv'
<1> SUFFICES ASSUME SmbusTypeOK, FilesInv, SmbusNext PROVE SmbusTypeOK' /\ FilesInv'
  OBVIOUS
<1> USE SmbusAssumption
<1>1. ImcTypeOK'
  <2> USE ImcTypes DEF SmbusTypeOK
  <2>1. CASE SmbusImc
    BY <2>1 DEF SmbusImc
  <2>2. CASE SmbusRun \/ Transfer \/ WriteBlock \/ SmbusExit \/ SmbusEnded \/ SetAdapterNum
    BY <2>2 DEF SmbusRun, Transfer, WriteBlock, Transferred, SmbusExit, SmbusEnded, SetAdapterNum
  <2>3. CASE SmbusClose \/ \E a \in Adapters, d \in Descriptors : OpenAdapter(a, d)
    <3>1. Smbus \in Callers /\ \E f \in {ENTER, EXIT} : Call(Smbus, f)
      BY <2>3 DEF SmbusClose, OpenAdapter
    <3> QED
      BY <3>1
  <2>4. CASE SpiromOpen \/ SpiromClose
    <3>1. Spirom \in Callers /\ (UNCHANGED imc \/ \E f \in {ENTER, EXIT} : Call(Spirom, f))
      BY <2>4 DEF SpiromOpen, SpiromClose
    <3> QED
      BY <3>1
  <2>5. CASE \E x \in Addresses : SetSlaveAddr(x)
    BY <2>5 DEF SetSlaveAddr
  <2> QED
    BY <2>1, <2>2, <2>3, <2>4, <2>5 DEF SmbusNext
<1>2. FilesInv'
  <2> USE DEF FilesInv
  <2>1. CASE SmbusClose
    BY <2>1 DEF SmbusClose
  <2>2. ASSUME NEW a \in Adapters, NEW d \in Descriptors, OpenAdapter(a, d) PROVE FilesInv'
    <3>1. FileOf(a) \in OpenFile
      BY DEF FileOf, OpenFile
    <3> QED
      BY <2>2, <3>1 DEF OpenAdapter
  <2>3. ASSUME NEW x \in Addresses, SetSlaveAddr(x) PROVE FilesInv'
    <3>1. fd \in Descriptors /\ files[fd].open
      BY <2>3 DEF SetSlaveAddr, SmbusTypeOK, Descriptors
    <3>2. files[fd] \in OpenFile
      BY <3>1 DEF NoFile
    <3>3. x \in 0..127
      <4>1. x \in Nat
        BY <2>3, SmbusAssumption
      <4>2. x <= 127
        BY <2>3 DEF SetSlaveAddr
      <4> QED
        BY <4>1, <4>2
    <3>4. [files[fd] EXCEPT !.addr = x] \in OpenFile
      BY <3>2, <3>3 DEF OpenFile
    <3>5. files' = [files EXCEPT ![fd] = [files[fd] EXCEPT !.addr = x]]
      BY <2>3 DEF SetSlaveAddr
    <3> QED
      BY <3>1, <3>4, <3>5
  <2>4. CASE UNCHANGED files
    BY <2>4
  <2> QED
    BY <2>1, <2>2, <2>3, <2>4 DEF SmbusNext, SmbusRun, SetAdapterNum, Transfer, WriteBlock,
         Transferred, SmbusExit, SmbusEnded, SpiromOpen, SpiromClose, SmbusImc
<1>3. \A d \in Descriptors :
        files'[d] = NoFile \/ (files'[d].adapter \in Adapters /\ files'[d].addr \in 0..127)
  BY <1>2 DEF FilesInv, OpenFile
<1>4. fd' \in 0..MaxFiles /\ (spc' = "prompt" /\ fd' # 0 => files'[fd'].open)
  <2> USE DEF SmbusTypeOK
  <2>1. ASSUME NEW x \in Addresses, SetSlaveAddr(x)
        PROVE  fd' \in 0..MaxFiles /\ (spc' = "prompt" /\ fd' # 0 => files'[fd'].open)
    BY <2>1 DEF SetSlaveAddr, FilesInv, Descriptors
  <2>2. CASE SetAdapterNum
    BY <2>2 DEF SetAdapterNum, Descriptors
  <2>3. CASE SmbusRun \/ SmbusExit \/ SmbusClose \/ SmbusEnded
             \/ \E a \in Adapters, d \in Descriptors : OpenAdapter(a, d)
    BY <2>3 DEF SmbusRun, SmbusExit, SmbusClose, SmbusEnded, OpenAdapter
  <2>4. CASE UNCHANGED <<fd, spc, files>>
    BY <2>4
  <2> QED
    BY <2>1, <2>2, <2>3, <2>4 DEF SmbusNext, Transfer, WriteBlock, Transferred,
         SpiromOpen, SpiromClose, SmbusImc
<1>5. /\ spc' \in {"out", "prompt", "opening", "ending"}
      /\ adapter_nr' \in Adapters \cup {-1}
      /\ slave_addr' \in Addresses \cup {Unset}
  <2> USE DEF SmbusTypeOK
  <2>1. CASE SetAdapterNum
    BY <2>1 DEF SetAdapterNum, NoFile
  <2>2. CASE ~SetAdapterNum
    BY <2>2 DEF SmbusNext, SmbusRun, OpenAdapter, SetSlaveAddr, Transfer, WriteBlock,
         Transferred, SmbusExit, SmbusClose, SmbusEnded, SpiromOpen, SpiromClose, SmbusImc
  <2> QED
    BY <2>1, <2>2
<1>6. /\ spirom' \in {"none", "opening", "open", "closing"}
      /\ quiet' \subseteq Descriptors \cup {SpiromFile}
  <2> USE DEF SmbusTypeOK
  <2>1. CASE SpiromOpen \/ SpiromClose
    BY <2>1 DEF SpiromOpen, SpiromClose
  <2>2. CASE SetAdapterNum \/ SmbusClose
    BY <2>2 DEF SetAdapterNum, SmbusClose
  <2>3. CASE UNCHANGED <<spirom, quiet>>
    BY <2>3
  <2> QED
    BY <2>1, <2>2, <2>3 DEF SmbusNext, SmbusRun, OpenAdapter, SetSlaveAddr, Transfer,
       WriteBlock, Transferred, SmbusExit, SmbusEnded, SmbusImc
<1> QED
  BY <1>1, <1>2, <1>3, <1>4, <1>5, <1>6 DEF SmbusTypeOK

\* A step of rtc-test or of the clock keeps the types.
LEMMA RtcTypes == RtcTypeOK /\ RtcNext => RtcTypeOK'
<1> SUFFICES ASSUME RtcTypeOK, RtcNext PROVE RtcTypeOK'
  OBVIOUS
<1> USE DEF RtcTypeOK, Looping, clock, told
<1>1. CASE RtcRun \/ RtcExit
  BY <1>1 DEF RtcRun, RtcExit
<1>2. CASE UpdateOn \/ PeriodicArm \/ TurnOff \/ AlarmArm
  BY <1>2 DEF UpdateOn, PeriodicArm, TurnOff, AlarmArm
<1>3. CASE Arm \/ EnterLoop \/ TestLoop \/ Select \/ Selected \/ Read \/ LoopOff
  BY <1>3 DEF Arm, EnterLoop, TestLoop, Select, Selected, Read, LoopOff
<1>4. CASE AlarmSet \/ AlarmPoll \/ AlarmClean \/ AlarmClear
  BY <1>4 DEF AlarmSet, AlarmPoll, AlarmClean, AlarmClear, AlarmHandler
<1>5. CASE CtrlC
  BY <1>5 DEF CtrlC, AlarmHandler, LoopHandler
<1>6. CASE CtrlCPrompt \/ Tick \/ AlarmFires
  BY <1>6 DEF CtrlCPrompt, Tick, AlarmFires
<1> QED
  BY <1>1, <1>2, <1>3, <1>4, <1>5, <1>6 DEF RtcNext, RtcProgram
----------------------------------------------------------------------------
(* The IMC mailbox. *)

\* What MailInv says of one call.
CallInv(c) == at[c] > 0 => imc_enabled /\ (alone[c] => Delivered(c))

\* The IMC never leaves its scratch RAM: no step of a call or of the IMC lets it.
LEMMA ScratchStays ==
  ASSUME ImcTypeOK, message[REG1] # EXIT,
         ImcStep \/ \E c \in Callers, f \in {ENTER, EXIT} : Call(c, f)
  PROVE  message'[REG1] # EXIT /\ (scratch => scratch') /\ UNCHANGED imc_enabled
<1>1. CASE ImcServes
  BY <1>1 DEF ImcServes, ImcTypeOK, REG0, REG1, ENTER, EXIT
<1>2. ASSUME NEW c \in Callers, Write(c) PROVE message'[REG1] # EXIT /\ UNCHANGED <<scratch, imc_enabled>>
  <2>1. Access(which[c], at[c]).value # EXIT
    BY <1>2 DEF Write, Access, Command, REG0, REG1, SYS_TO_IMC, ENTER, EXIT, SEM, NOT_SUPP
  <2> QED
    BY <1>2, <2>1 DEF Write, REG0, REG1
<1>3. CASE \E c \in Callers : Slept(c) \/ SelectAnswer(c) \/ Return(c)
  BY <1>3 DEF Slept, SelectAnswer, Return
<1>4. CASE \E c \in Callers, f \in {ENTER, EXIT} : Call(c, f)
  BY <1>4 DEF Call
<1> QED
  BY <1>1, <1>2, <1>3, <1>4 DEF ImcStep

\* A call begins with nobody else inside, or knows that somebody is; it spoils the claim of
\* those it finds inside.
LEMMA CallBegins ==
  ASSUME ImcTypeOK, \A c \in Callers : CallInv(c),
         NEW e \in Callers, NEW f \in {ENTER, EXIT}, Call(e, f)
  PROVE  \A c \in Callers : CallInv(c)'
<1> SUFFICES ASSUME NEW c \in Callers, at'[c] > 0 PROVE imc_enabled' /\ (alone'[c] => Delivered(c)')
  BY DEF CallInv
<1> USE DEF ImcTypeOK, Call
<1>1. imc_enabled'
  BY DEF CallInv
<1>2. CASE c = e
  <2>1. at'[c] = 1
    BY <1>2
  <2>2. alone'[c] => \A d \in Callers \ {c} : at'[d] = 0
    BY <1>2
  <2> QED
    BY <1>1, <2>1, <2>2 DEF Delivered
<1>3. CASE c # e
  <2>1. at'[c] = at[c]
    BY <1>3
  <2>2. at[c] # 0 /\ imc_enabled
    BY <1>1, <2>1
  <2>3. ~alone'[c]
    BY <1>3, <2>2, Zenon
  <2> QED
    BY <1>1, <2>3
<1> QED
  BY <1>2, <1>3

\* A port access of a call that is alone is the next in its row, and nobody undoes it.
LEMMA CallGoesOn ==
  ASSUME ImcTypeOK, \A c \in Callers : CallInv(c), NEW e \in Callers,
         Write(e) \/ Slept(e) \/ SelectAnswer(e) \/ Return(e)
  PROVE  \A c \in Callers : CallInv(c)'
<1> SUFFICES ASSUME NEW c \in Callers, at'[c] > 0 PROVE imc_enabled' /\ (alone'[c] => Delivered(c)')
  BY DEF CallInv
<1>1. UNCHANGED <<imc_enabled, alone, scratch>> /\ at[e] \in 1..9
  BY DEF Write, Slept, SelectAnswer, Return
<1>2. \A d \in Callers \ {e} : at'[d] = at[d]
  BY DEF Write, Slept, SelectAnswer, Return, ImcTypeOK
<1>3. CASE c # e
  <2>1. at[c] > 0 /\ imc_enabled /\ ~alone[c]
    BY <1>1, <1>2, <1>3 DEF CallInv, Delivered
  <2> QED
    BY <1>1, <2>1
<1>4. CASE c = e
  <2>1. imc_enabled /\ (alone[e] => Delivered(e))
    BY <1>1 DEF CallInv
  <2>2. SUFFICES ASSUME alone[e] PROVE Delivered(e)'
    BY <1>1, <1>4, <2>1
  <2>3. Delivered(e) /\ \A d \in Callers \ {e} : at'[d] = 0
    BY <1>2, <2>1, <2>2 DEF Delivered
  <2>4. CASE Write(e)
    <3>1. at'[e] = at[e] + 1 /\ at[e] \in 1..6
      BY <2>4 DEF Write, ImcTypeOK
    <3>2. CASE at[e] \in {1, 2}
      BY <2>3, <3>1, <3>2 DEF Delivered
    <3>3. CASE at[e] = 3
      <4>1. index' = REG1
        BY <2>4, <3>3 DEF Write, Access
      <4> QED
        BY <2>3, <3>1, <3>3, <4>1 DEF Delivered
    <3>4. CASE at[e] = 4
      <4>1. message'[REG1] = ENTER
        BY <2>3, <2>4, <3>4 DEF Write, Access, Command, Delivered, REG0, REG1
      <4> QED
        BY <2>3, <3>1, <3>4, <4>1 DEF Delivered
    <3>5. CASE at[e] = 5
      <4>1. index' = SYS_TO_IMC /\ message'[REG1] = ENTER
        BY <2>3, <2>4, <3>5 DEF Write, Access, Delivered
      <4> QED
        BY <2>3, <3>1, <3>5, <4>1 DEF Delivered
    <3>6. CASE at[e] = 6
      <4> DEFINE a == Access(which[e], at[e])
      <4>1. a.port = "data" /\ a.port # "index" /\ a.value = SEM
        BY <3>6 DEF Access
      <4>2. index = SYS_TO_IMC /\ message[REG1] = ENTER
        BY <2>3, <3>6 DEF Delivered
      <4>3. ringing'
        BY <2>4, <4>1, <4>2, Zenon DEF Write
      <4>4. message'[REG1] = ENTER
        BY <2>4, <4>1, <4>2 DEF Write, ImcTypeOK, REG0, REG1, SYS_TO_IMC
      <4> QED
        BY <2>3, <3>1, <3>6, <4>3, <4>4 DEF Delivered
    <3> QED
      BY <3>1, <3>2, <3>3, <3>4, <3>5, <3>6
  <2>5. CASE Slept(e) \/ SelectAnswer(e) \/ Return(e)
    <3>1. at'[e] \in {0, 8, 9} /\ scratch'
      BY <1>1, <2>3, <2>5 DEF Slept, SelectAnswer, Return, Delivered, ImcTypeOK
    <3> QED
      BY <2>3, <3>1 DEF Delivered
  <2> QED
    BY <2>4, <2>5
<1> QED
  BY <1>3, <1>4

\* What the IMC does is what a call that is alone has told it.
LEMMA ImcDelivers ==
  ASSUME ImcTypeOK, message[REG1] # EXIT, \A c \in Callers : CallInv(c), ImcServes
  PROVE  \A c \in Callers : CallInv(c)'
<1> SUFFICES ASSUME NEW c \in Callers, at'[c] > 0 PROVE imc_enabled' /\ (alone'[c] => Delivered(c)')
  BY DEF CallInv
<1>1. UNCHANGED <<imc_enabled, index, at, alone>> /\ message'[REG1] = message[REG1]
  BY DEF ImcServes, ImcTypeOK, REG0, REG1
<1>2. (message[REG1] = ENTER => scratch') /\ (scratch => scratch')
  BY DEF ImcServes, ENTER, EXIT
<1>3. imc_enabled /\ (alone[c] => Delivered(c))
  BY <1>1 DEF CallInv
<1> QED
  BY <1>1, <1>2, <1>3 DEF Delivered

\* Every step of smbus-test and of spirom's user keeps the mailbox's invariant.
LEMMA MailStep == SmbusTypeOK /\ MailInv /\ SmbusNext => MailInv'
<1> SUFFICES ASSUME SmbusTypeOK, MailInv, SmbusNext PROVE MailInv'
  OBVIOUS
<1>1. ImcTypeOK /\ message[REG1] # EXIT /\ \A c \in Callers : CallInv(c)
  BY DEF SmbusTypeOK, MailInv, CallInv
<1>2. SUFFICES /\ message'[REG1] # EXIT
               /\ \A c \in Callers : CallInv(c)'
               /\ /\ imc_enabled' /\ spc' = "opening" /\ at'[Smbus] = 0 /\ alone'[Smbus]
                  => scratch'
               /\ /\ imc_enabled' /\ spirom' = "opening" /\ at'[Spirom] = 0 /\ alone'[Spirom]
                  => scratch'
               /\ KeptOffFlash'
  BY DEF MailInv, CallInv
<1>3. Smbus \in Callers /\ Spirom \in Callers /\ Smbus # Spirom
  BY SmbusAssumption DEF Smbus, Spirom
<1>4. CASE SmbusImc
  <2>1. message'[REG1] # EXIT /\ (scratch => scratch') /\ UNCHANGED imc_enabled
    BY <1>1, <1>4, ScratchStays DEF SmbusImc
  <2>2. \A c \in Callers : CallInv(c)'
    BY <1>1, <1>4, CallGoesOn, ImcDelivers DEF SmbusImc, ImcStep
  <2>3. UNCHANGED <<spc, spirom, quiet>>
    BY <1>4 DEF SmbusImc
  <2>4. ASSUME NEW c \in Callers, imc_enabled, at'[c] = 0, alone'[c],
               (at[c] = 0 /\ alone[c]) => scratch
        PROVE  scratch'
    <3>1. CASE at[c] = 0
      <4>1. UNCHANGED alone
        BY <1>4 DEF SmbusImc, ImcStep, ImcServes, Write, Slept, SelectAnswer, Return
      <4> QED
        BY <2>1, <2>4, <3>1, <4>1
    <3>2. CASE at[c] # 0
      <4>1. ~ImcServes /\ ImcStep
        BY <1>4, <2>4, <3>2 DEF SmbusImc, ImcServes
      <4>2. PICK d \in Callers : Write(d) \/ Slept(d) \/ SelectAnswer(d) \/ Return(d)
        BY <4>1 DEF ImcStep
      <4>3. c = d /\ at[c] = 9
        <5>1. at \in [Callers -> 0..9]
          BY <1>1 DEF ImcTypeOK
        <5>2. PICK n \in 0..10 : at' = [at EXCEPT ![d] = n] /\ (n = 0 => at[d] = 9)
          BY <4>2, <5>1 DEF Write, Slept, SelectAnswer, Return
        <5> QED
          BY <2>4, <3>2, <5>1, <5>2
      <4>4. UNCHANGED alone
        BY <4>2 DEF Write, Slept, SelectAnswer, Return
      <4>5. Delivered(c)
        BY <1>1, <2>4, <4>3, <4>4 DEF CallInv
      <4> QED
        BY <2>1, <4>3, <4>5 DEF Delivered
    <3> QED
      BY <3>1, <3>2
  <2> QED
    BY <1>3, <2>1, <2>2, <2>3, <2>4 DEF MailInv, KeptOffFlash
<1>5. CASE UNCHANGED imc /\ UNCHANGED spirom /\ UNCHANGED quiet /\ spc' # "opening"
  BY <1>1, <1>5 DEF imc, MailInv, KeptOffFlash, CallInv, Delivered
<1>6. CASE SetAdapterNum
  <2>1. spc = "opening" /\ at[Smbus] = 0 /\ spc' # "opening" /\ UNCHANGED <<imc, spirom>>
    BY <1>6 DEF SetAdapterNum
  <2>2. quiet' = quiet \/ alone[Smbus]
    BY <1>6 DEF SetAdapterNum
  <2>3. KeptOffFlash'
    BY <2>1, <2>2 DEF MailInv, KeptOffFlash, imc
  <2> QED
    BY <1>1, <2>1, <2>3 DEF imc, MailInv, CallInv, Delivered
<1>7. CASE SmbusClose \/ \E a \in Adapters, d \in Descriptors : OpenAdapter(a, d)
  <2>1. PICK f \in {ENTER, EXIT} : Call(Smbus, f)
    BY <1>7 DEF SmbusClose, OpenAdapter
  <2>2. UNCHANGED spirom /\ quiet' \subseteq quiet /\ spc' # "prompt"
    BY <1>7 DEF SmbusClose, OpenAdapter
  <2>3. message'[REG1] # EXIT /\ UNCHANGED <<scratch, imc_enabled>>
    BY <1>1, <2>1 DEF Call
  <2>4. \A c \in Callers : CallInv(c)'
    BY <1>1, <1>3, <2>1, CallBegins
  <2>5. imc_enabled => at'[Smbus] # 0
    BY <1>1, <1>3, <2>1 DEF Call, ImcTypeOK
  <2>6. imc_enabled /\ at'[Spirom] = 0 /\ alone'[Spirom] => at[Spirom] = 0 /\ alone[Spirom]
    <3>1. at'[Spirom] = at[Spirom]
      BY <1>1, <1>3, <2>1 DEF Call, ImcTypeOK
    <3>2. alone'[Spirom] => alone[Spirom]
      BY <1>3, <2>1, Zenon DEF Call
    <3> QED
      BY <3>1, <3>2
  <2> QED
    BY <2>2, <2>3, <2>4, <2>5, <2>6 DEF MailInv, KeptOffFlash
<1>8. CASE SpiromOpen \/ SpiromClose
  <2>1. CASE UNCHANGED imc /\ spirom' # "opening"
    <3>1. UNCHANGED spc
      BY <1>8 DEF SpiromOpen, SpiromClose
    <3>2. \/ quiet' \subseteq quiet
          \/ spirom = "opening" /\ at[Spirom] = 0 /\ (quiet' = quiet \/ alone[Spirom])
      BY <1>8 DEF SpiromOpen, SpiromClose
    <3>3. KeptOffFlash'
      BY <2>1, <3>2 DEF imc, MailInv, KeptOffFlash
    <3> QED
      BY <1>1, <2>1, <3>1, <3>3 DEF imc, MailInv, CallInv, Delivered
  <2>2. CASE quiet' \subseteq quiet /\ \E f \in {ENTER, EXIT} : Call(Spirom, f)
    <3>1. PICK f \in {ENTER, EXIT} : Call(Spirom, f)
      BY <2>2
    <3>2. UNCHANGED spc
      BY <1>8 DEF SpiromOpen, SpiromClose
    <3>3. message'[REG1] # EXIT /\ UNCHANGED <<scratch, imc_enabled>>
      BY <1>1, <3>1 DEF Call
    <3>4. \A c \in Callers : CallInv(c)'
      BY <1>1, <1>3, <3>1, CallBegins
    <3>5. imc_enabled => at'[Spirom] # 0
      BY <1>1, <1>3, <3>1 DEF Call, ImcTypeOK
    <3>6. imc_enabled /\ at'[Smbus] = 0 /\ alone'[Smbus] => at[Smbus] = 0 /\ alone[Smbus]
      <4>1. at'[Smbus] = at[Smbus]
        BY <1>1, <1>3, <3>1 DEF Call, ImcTypeOK
      <4>2. alone'[Smbus] => alone[Smbus]
        BY <1>3, <3>1, Zenon DEF Call
      <4> QED
        BY <4>1, <4>2
    <3> QED
      BY <2>2, <3>2, <3>3, <3>4, <3>5, <3>6 DEF MailInv, KeptOffFlash
  <2> QED
    BY <1>8, <2>1, <2>2 DEF SpiromOpen, SpiromClose
<1> QED
  BY <1>4, <1>5, <1>6, <1>7, <1>8 DEF SmbusNext, SmbusRun, Transfer, WriteBlock, Transferred,
     SmbusExit, SmbusEnded, SetSlaveAddr
----------------------------------------------------------------------------
(* The files of smbus-test. *)

\* The numbers at the head of a file are sent, each as its low byte, and a file of numbers alone
\* is sent up to the limit.
LEMMA BlockIsFile ==
  ASSUME NEW f \in Tokens
  PROVE  LET limit == IF Len(f) > BlockMax THEN BlockMax ELSE Len(f)
         IN /\ \A i \in 1..limit :
                 (\A j \in 1..i : IsNumber(f[j])) =>
                    i \in DOMAIN BlockOf(f) /\ BlockOf(f)[i] = f[i].value % 256
            /\ (\A i \in 1..Len(f) : IsNumber(f[i])) => DOMAIN BlockOf(f) = 1..limit
<1> DEFINE limit == IF Len(f) > BlockMax THEN BlockMax ELSE Len(f)
           n == IF (\E i \in 1..Len(f) : ~IsNumber(f[i])) \/ Len(f) > BlockMax
                THEN BlockMax ELSE Len(f)
<1>1. Len(f) \in Nat /\ BlockMax \in Nat /\ limit \in 0..n /\ n \in Nat
  BY SmbusAssumption
<1>2. BlockOf(f) = [k \in 1..n |-> Datum(f, k)]
  BY DEF BlockOf
<1>3. ASSUME NEW i \in 1..limit, \A j \in 1..i : IsNumber(f[j])
      PROVE  Datum(f, i) = f[i].value % 256
  <2>1. i \in NumbersRead(f, i) /\ \A j \in NumbersRead(f, i) : j \in 1..i
    BY <1>1, <1>3 DEF NumbersRead
  <2>2. (CHOOSE m \in NumbersRead(f, i) : \A j \in NumbersRead(f, i) : j <= m) = i
    <3> DEFINE m == CHOOSE m \in NumbersRead(f, i) : \A j \in NumbersRead(f, i) : j <= m
    <3>1. \A j \in NumbersRead(f, i) : j <= i
      BY <2>1
    <3>2. m \in NumbersRead(f, i) /\ \A j \in NumbersRead(f, i) : j <= m
      BY <2>1, <3>1, Zenon
    <3> QED
      BY <2>1, <3>2
  <2> QED
    BY <2>1, <2>2 DEF Datum
<1> QED
  BY <1>1, <1>2, <1>3

\* What a transfer tells of itself is so.
LEMMA TransferTold ==
  SmbusTypeOK /\ FilesInv /\ FileInv /\ (Transfer \/ WriteBlock) => TransferAsTold'
<1> SUFFICES ASSUME SmbusTypeOK, FilesInv, FileInv, Transfer \/ WriteBlock PROVE TransferAsTold'
  OBVIOUS
<1>1. ASSUME NEW reg \in Nat, NEW block,
             \/ block.sent = <<>> /\ block.file = <<>>
             \/ block.file \in Tokens /\ block.sent = BlockOf(block.file),
             Transferred(reg, block)
      PROVE  TransferAsTold'
  <2>1. files[fd].adapter = adapter_nr /\ files[fd].addr \in {0, slave_addr}
    BY <1>1 DEF FileInv, Transferred
  <2>2. /\ last'.adapter = files[fd].adapter /\ last'.addr = files[fd].addr
        /\ last'.reg = reg % 256 /\ last'.block = block
        /\ last'.told.adapter = adapter_nr /\ last'.told.addr = slave_addr /\ last'.told.reg = reg
    BY <1>1 DEF Transferred
  <2>3. reg < 256 => reg % 256 = reg
    OBVIOUS
  <2>4. LET f == block.file
            limit == IF Len(f) > BlockMax THEN BlockMax ELSE Len(f)
        IN /\ \A i \in 1..limit :
                (\A j \in 1..i : IsNumber(f[j])) =>
                   i \in DOMAIN block.sent /\ block.sent[i] = f[i].value % 256
           /\ (\A i \in 1..Len(f) : IsNumber(f[i])) => DOMAIN block.sent = 1..limit
    <3>1. CASE block.file \in Tokens /\ block.sent = BlockOf(block.file)
      BY <3>1, BlockIsFile
    <3>2. CASE block.sent = <<>> /\ block.file = <<>>
      BY <3>2, SmbusAssumption
    <3> QED
      BY <1>1, <3>1, <3>2
  <2> QED
    BY <2>1, <2>2, <2>3, <2>4 DEF TransferAsTold
<1>2. CASE Transfer
  <2>1. PICK reg \in Registers \cup {0} : Transferred(reg, NoBlock)
    BY <1>2 DEF Transfer
  <2>2. NoBlock.sent = <<>> /\ NoBlock.file = <<>> /\ reg \in Nat
    BY SmbusAssumption DEF NoBlock
  <2> QED
    BY <1>1, <2>1, <2>2
<1>3. CASE WriteBlock
  <2>1. PICK f \in Tokens, reg \in Registers : Transferred(reg, [file |-> f, sent |-> BlockOf(f)])
    BY <1>3 DEF WriteBlock
  <2>2. reg \in Nat
    BY SmbusAssumption
  <2> QED
    BY <1>1, <2>1, <2>2
<1> QED
  BY <1>2, <1>3

\* Every step of smbus-test keeps what is known of its files.
LEMMA FileStep == SmbusTypeOK /\ FilesInv /\ FileInv /\ SmbusNext => FileInv'
<1> SUFFICES ASSUME SmbusTypeOK, FilesInv, FileInv, SmbusNext PROVE FileInv'
  OBVIOUS
<1> USE SmbusAssumption DEF FileInv, FilesInv, SmbusTypeOK
<1>1. last' = NoTransfer => TransferAsTold'
  BY DEF TransferAsTold
<1>2. CASE Transfer \/ WriteBlock
  <2>1. TransferAsTold'
    BY <1>2, TransferTold
  <2>2. UNCHANGED <<spc, fd, adapter_nr, slave_addr, files>>
    BY <1>2 DEF Transfer, WriteBlock, Transferred
  <2> QED
    BY <2>1, <2>2
<1>3. CASE SmbusRun \/ SmbusExit \/ SmbusEnded
  BY <1>1, <1>3 DEF SmbusRun, SmbusExit, SmbusEnded
<1>4. CASE SmbusClose
  BY <1>1, <1>4 DEF SmbusClose
<1>5. ASSUME NEW a \in Adapters, NEW d \in Descriptors, OpenAdapter(a, d) PROVE FileInv'
  <2> USE DEF Descriptors, NoFile, FileOf
  <2>1. files' = [files EXCEPT ![d] = FileOf(a)] /\ last' = NoTransfer /\ spc' = "opening"
    BY <1>5 DEF OpenAdapter
  <2>2. spc = "prompt" /\ files[d] = NoFile /\ \A e \in 1..(d - 1) : files[e].open
    BY <1>5 DEF OpenAdapter
  <2>3. ~files[d].open
    BY <2>2
  <2>4. \A e \in Descriptors : files[e].open => e < d
    BY <2>2, <2>3
  <2>5. \A e \in Descriptors : files'[e].open <=> e = d \/ files[e].open
    BY <2>1
  <2>6. files'[d].open /\ files'[d].addr = 0
    BY <2>1
  <2>7. \A e \in Descriptors : files'[e].open => e <= d
    BY <2>4, <2>5
  <2>8. \A e, g \in Descriptors : files'[e].open /\ g < e => files'[g].open
    BY <2>2, <2>5, <2>7
  <2> QED
    BY <1>1, <2>1, <2>6, <2>7, <2>8
<1>6. CASE SetAdapterNum
  <2>1. PICK d \in Descriptors :
          /\ files[d].open /\ \A e \in Descriptors : files[e].open => e <= d
          /\ fd' = d /\ adapter_nr' = files[d].adapter
    BY <1>6 DEF SetAdapterNum
  <2>2. spc = "opening" /\ spc' = "prompt" /\ last' = NoTransfer /\ UNCHANGED <<files, slave_addr>>
    BY <1>6 DEF SetAdapterNum
  <2>3. files[d].addr = 0
    BY <2>1, <2>2 DEF Descriptors
  <2> QED
    BY <1>1, <2>1, <2>2, <2>3
<1>7. ASSUME NEW x \in Addresses, SetSlaveAddr(x) PROVE FileInv'
  <2>1. /\ fd \in Descriptors /\ spc = "prompt" /\ spc' = "prompt" /\ last' = NoTransfer
        /\ UNCHANGED <<fd, adapter_nr>> /\ slave_addr' = x
        /\ files' = [files EXCEPT ![fd].addr = x]
    BY <1>7 DEF SetSlaveAddr, Descriptors
  <2>2. files[fd] \in OpenFile
    BY <2>1 DEF NoFile
  <2>3. files'[fd].adapter = files[fd].adapter /\ files'[fd].addr = x /\ files'[fd].open
    BY <2>1, <2>2 DEF OpenFile
  <2>4. \A e \in Descriptors : files'[e].open <=> files[e].open
    BY <2>1, <2>2, <2>3 DEF OpenFile
  <2> QED
    BY <1>1, <2>1, <2>3, <2>4
<1>8. CASE SpiromOpen \/ SpiromClose \/ SmbusImc
  BY <1>1, <1>8 DEF SpiromOpen, SpiromClose, SmbusImc
<1> QED
  BY <1>2, <1>3, <1>4, <1>5, <1>6, <1>7, <1>8 DEF SmbusNext

----------------------------------------------------------------------------
(* The clock. *)

\* Every step of rtc-test keeps what is known of the interrupts that are on.
LEMMA LoopStep == RtcTypeOK /\ LoopInv /\ RtcNext => LoopInv'
<1> SUFFICES ASSUME RtcTypeOK, LoopInv, RtcNext PROVE LoopInv'
  OBVIOUS
<1> USE DEF RtcTypeOK, LoopInv, Looping, Waited, clock, told
<1>1. CASE RtcRun \/ RtcExit
  BY <1>1 DEF RtcRun, RtcExit
<1>2. CASE UpdateOn \/ PeriodicArm
  BY <1>2 DEF UpdateOn, PeriodicArm
<1>3. CASE TurnOff \/ AlarmArm
  BY <1>3 DEF TurnOff, AlarmArm
<1>4. CASE Arm \/ LoopOff
  BY <1>4 DEF Arm, LoopOff
<1>5. CASE EnterLoop \/ TestLoop \/ Select \/ Selected \/ Read
  BY <1>5 DEF EnterLoop, TestLoop, Select, Selected, Read
<1>6. CASE AlarmSet \/ AlarmPoll \/ AlarmClean \/ AlarmClear
  BY <1>6 DEF AlarmSet, AlarmPoll, AlarmClean, AlarmClear, AlarmHandler
<1>7. CASE CtrlC
  BY <1>7 DEF CtrlC, AlarmHandler, LoopHandler
<1>8. CASE CtrlCPrompt \/ Tick \/ AlarmFires
  BY <1>8 DEF CtrlCPrompt, Tick, AlarmFires
<1> QED
  BY <1>1, <1>2, <1>3, <1>4, <1>5, <1>6, <1>7, <1>8 DEF RtcNext, RtcProgram

\* Every step of rtc-test keeps what the alarm's flag says of the past.
LEMMA AlarmStep == RtcTypeOK /\ AlarmInv /\ RtcNext => AlarmInv'
<1> SUFFICES ASSUME RtcTypeOK, AlarmInv, RtcNext PROVE AlarmInv'
  OBVIOUS
<1> USE DEF RtcTypeOK, AlarmInv, AlarmToldTruly, Looping, clock, told
<1>1. CASE RtcRun \/ RtcExit
  BY <1>1 DEF RtcRun, RtcExit
<1>2. CASE UpdateOn \/ PeriodicArm
  BY <1>2 DEF UpdateOn, PeriodicArm
<1>3. CASE TurnOff \/ AlarmArm
  BY <1>3 DEF TurnOff, AlarmArm
<1>4. CASE Arm \/ LoopOff
  BY <1>4 DEF Arm, LoopOff
<1>5. CASE EnterLoop \/ TestLoop \/ Select \/ Selected \/ Read
  BY <1>5 DEF EnterLoop, TestLoop, Select, Selected, Read
<1>6. CASE AlarmSet
  BY <1>6 DEF AlarmSet
<1>7. CASE AlarmPoll
  BY <1>7 DEF AlarmPoll
<1>8. CASE AlarmClean \/ AlarmClear
  BY <1>8 DEF AlarmClean, AlarmClear, AlarmHandler
<1>9. CASE CtrlC
  BY <1>9 DEF CtrlC, AlarmHandler, LoopHandler
<1>10. CASE CtrlCPrompt \/ Tick \/ AlarmFires
  BY <1>10 DEF CtrlCPrompt, Tick, AlarmFires
<1> QED
  BY <1>1, <1>2, <1>3, <1>4, <1>5, <1>6, <1>7, <1>8, <1>9, <1>10 DEF RtcNext, RtcProgram

----------------------------------------------------------------------------
(* Together. *)

\* The invariant holds at the start.
LEMMA InitIInv == Init => IInv
<1> SUFFICES ASSUME Init PROVE IInv
  OBVIOUS
<1>1. TypeOK /\ FilesInv
  BY InitTypes
<1>2. MailInv
  BY DEF Init, SmbusInit, ImcInit, MailInv, KeptOffFlash, NOT_SUPP, EXIT, REG0, REG1
<1>3. FileInv
  BY DEF Init, SmbusInit, FileInv, TransferAsTold, NoFile
<1>4. LoopInv /\ AlarmInv
  BY DEF Init, RtcInit, LoopInv, AlarmInv, AlarmToldTruly, Looping
<1> QED
  BY <1>1, <1>2, <1>3, <1>4 DEF IInv

\* Every step keeps it.
LEMMA StepIInv == IInv /\ [Next]_vars => IInv'
<1> SUFFICES ASSUME IInv, [Next]_vars PROVE IInv'
  OBVIOUS
<1>1. ASSUME UNCHANGED smbus PROVE SmbusTypeOK' /\ FilesInv' /\ MailInv' /\ FileInv'
  BY <1>1 DEF IInv, TypeOK, SmbusTypeOK, ImcTypeOK, FilesInv, MailInv, Delivered, KeptOffFlash,
     FileInv, TransferAsTold, smbus, imc
<1>2. ASSUME UNCHANGED rtc PROVE RtcTypeOK' /\ LoopInv' /\ AlarmInv'
  BY <1>2 DEF IInv, TypeOK, RtcTypeOK, LoopInv, AlarmInv, AlarmToldTruly, rtc, clock, told
<1>3. CASE SmbusNext /\ UNCHANGED rtc
  BY <1>2, <1>3, SmbusTypes, MailStep, FileStep DEF IInv, TypeOK
<1>4. CASE RtcNext /\ UNCHANGED smbus
  BY <1>1, <1>4, RtcTypes, LoopStep, AlarmStep DEF IInv, TypeOK
<1>5. CASE UNCHANGED vars
  BY <1>1, <1>2, <1>5 DEF IInv, TypeOK, vars
<1> QED
  BY <1>3, <1>4, <1>5 DEF Next

\* The inductive invariant, for all adapters, addresses, registers and numbers of open files.
THEOREM Invariance == Spec => []IInv
BY InitIInv, StepIInv, PTL DEF Spec

\* Types: the address of an open file has seven bits whatever the user types, and the program's
\* descriptor is open whenever it prompts.
THEOREM TypeCorrect == Spec => []TypeOK
<1>1. IInv => TypeOK
  BY DEF IInv
<1> QED
  BY Invariance, <1>1, PTL

\* While a file is open whose open had the mailbox for itself, the IMC does not fetch from the
\* flash ROM.
THEOREM FlashIsFree == Spec => []KeptOffFlash
<1>1. IInv => KeptOffFlash
  BY DEF IInv, MailInv
<1> QED
  BY Invariance, <1>1, PTL

\* rtc-test is at its prompt only with the interrupts it waited for off, unless a call failed.
THEOREM InterruptsAreOff == Spec => []NothingLeftOn
<1>1. IInv => NothingLeftOn
  BY DEF IInv, LoopInv, NothingLeftOn, Looping, Waited
<1> QED
  BY Invariance, <1>1, PTL

\* setwakealarm reports an alarm that has come and an interruption that has been.
THEOREM AlarmIsTrue == Spec => []AlarmToldTruly
<1>1. IInv => AlarmToldTruly
  BY DEF IInv, AlarmInv
<1> QED
  BY Invariance, <1>1, PTL

\* A transfer reported a success went where the program says, with the low bytes of the
\* numbers its file starts with.
THEOREM TransferIsTold == Spec => []TransferAsTold
<1>1. IInv => TransferAsTold
  BY DEF IInv, FileInv
<1> QED
  BY Invariance, <1>1, PTL
=============================================================================
