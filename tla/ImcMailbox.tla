----------------------------- MODULE ImcMailbox -----------------------------
(***************************************************************************)
(* The kernel routines by which a driver asks the integrated micro         *)
(* controller (IMC) to run from its scratch RAM while the flash ROM is in  *)
(* use, and to return to the ROM.  They talk to the IMC through message    *)
(* registers behind one index and one data port, take no lock, and count   *)
(* nothing: spirom and i2c-dev call the first from every open and the      *)
(* second from every close.  One port access is one step here.             *)
(***************************************************************************)
EXTENDS Naturals, Sequences

CONSTANT
  Callers      \* the processes that open and close such devices

REG0 == "REG0"            \* the IMC's answer
REG1 == "REG1"            \* the function to perform
SYS_TO_IMC == "SYS"       \* rings the bell
ENTER == "enter"          \* AMD_IMC_ENTER_SCRATCH_RAM
EXIT == "exit"            \* AMD_IMC_EXIT_SCRATCH_RAM
SEM == "sem"              \* AMD_IMC_ROM_OWNERSHIP_SEM
COMPLETED == "completed"  \* AMD_IMC_FUNC_COMPLETED
NOT_SUPP == "zero"        \* AMD_IMC_FUNC_NOT_SUPP is the 0 that is written first

Bytes == {ENTER, EXIT, SEM, COMPLETED, NOT_SUPP}

VARIABLES
  imc_enabled,  \* amd_imc_init has found the IMC and its registers
  index,        \* the register the index port selects
  message,      \* the contents of REG0 and REG1
  ringing,      \* the IMC has been told to look
  scratch,      \* the IMC runs from scratch RAM
  at,           \* per caller: how far its call is, 0 outside
  which,        \* per caller: the function its call is for
  alone         \* per caller (history): nobody else has been inside during its call

imc == <<imc_enabled, index, message, ringing, scratch, at, which, alone>>

ImcTypeOK ==
  /\ imc_enabled \in BOOLEAN /\ ringing \in BOOLEAN /\ scratch \in BOOLEAN
  /\ index \in {REG0, REG1, SYS_TO_IMC}
  /\ message \in [{REG0, REG1} -> Bytes]
  /\ at \in [Callers -> 0..9]
  /\ which \in [Callers -> {ENTER, EXIT}]
  /\ alone \in [Callers -> BOOLEAN]

\* amd_imc_init has run or not found what it looks for; the BIOS has left the registers.
ImcInit ==
  /\ imc_enabled \in BOOLEAN
  /\ index = REG0 /\ message = [r \in {REG0, REG1} |-> NOT_SUPP]
  /\ ringing = FALSE /\ scratch = FALSE
  /\ at = [c \in Callers |-> 0] /\ which = [c \in Callers |-> ENTER]
  /\ alone = [c \in Callers |-> TRUE]

----------------------------------------------------------------------------
\* Faulty variant: exit sends the command that its name and its comment promise.
CommandAsNamed(f) == f

\* What is written to REG1: both routines write the command to enter.
Command(f) == ENTER

\* The port accesses of a call, in their order; `index' selects, `data' writes.
Access(f, k) ==
  << [port |-> "index", value |-> REG0], [port |-> "data", value |-> NOT_SUPP],
     [port |-> "index", value |-> REG1], [port |-> "data", value |-> Command(f)],
     [port |-> "index", value |-> SYS_TO_IMC], [port |-> "data", value |-> SEM] >>[k]

\* The beginning of a call; a caller that finds no IMC returns at once.
Call(c, f) ==
  /\ at[c] = 0
  /\ at' = [at EXCEPT ![c] = IF imc_enabled THEN 1 ELSE 0]
  /\ which' = [which EXCEPT ![c] = f]
  /\ alone' = [d \in Callers |->
                IF d = c THEN \A o \in Callers \ {c} : at[o] = 0
                ELSE alone[d] /\ (at[d] = 0 \/ ~imc_enabled)]
  /\ UNCHANGED <<imc_enabled, index, message, ringing, scratch>>

Write(c) ==
  /\ at[c] \in 1..6
  /\ LET a == Access(which[c], at[c]) IN
       \/ /\ a.port = "index" /\ index' = a.value
          /\ UNCHANGED <<message, ringing>>
       \/ /\ a.port = "data"
          /\ message' = [r \in {REG0, REG1} |-> IF r = index THEN a.value ELSE message[r]]
          /\ ringing' = (ringing \/ (index = SYS_TO_IMC /\ a.value = SEM))
          /\ UNCHANGED index
  /\ at' = [at EXCEPT ![c] = @ + 1]
  /\ UNCHANGED <<imc_enabled, scratch, which, alone>>

\* msleep(50): by then the IMC has done what it was told, as its specification says.
Slept(c) ==
  /\ at[c] = 7 /\ ~ringing
  /\ at' = [at EXCEPT ![c] = 8]
  /\ UNCHANGED <<imc_enabled, index, message, ringing, scratch, which, alone>>

\* REG0 is selected again, ...
SelectAnswer(c) ==
  /\ at[c] = 8 /\ index' = REG0
  /\ at' = [at EXCEPT ![c] = 9]
  /\ UNCHANGED <<imc_enabled, message, ringing, scratch, which, alone>>

\* ... read, and a message printed; whatever it says, the call returns nothing.
Return(c) ==
  /\ at[c] = 9 /\ at' = [at EXCEPT ![c] = 0]
  /\ UNCHANGED <<imc_enabled, index, message, ringing, scratch, which, alone>>

\* The IMC performs the function in REG1, if it knows it.
ImcServes ==
  /\ ringing /\ ringing' = FALSE
  /\ scratch' = CASE message[REG1] = ENTER -> TRUE
                  [] message[REG1] = EXIT -> FALSE
                  [] OTHER -> scratch
  /\ message' = [message EXCEPT ![REG0] = IF message[REG1] \in {ENTER, EXIT} THEN COMPLETED
                                          ELSE NOT_SUPP]
  /\ UNCHANGED <<imc_enabled, index, at, which, alone>>

ImcStep == ImcServes \/ \E c \in Callers : Write(c) \/ Slept(c) \/ SelectAnswer(c) \/ Return(c)
=============================================================================
