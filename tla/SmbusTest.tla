----------------------------- MODULE SmbusTest -----------------------------
(***************************************************************************)
(* The program smbus-test over i2c-dev, beside a process that opens and    *)
(* closes spirom's device.  The program keeps the adapter and the slave    *)
(* address it was given last; the kernel keeps an address per open file,   *)
(* and the program opens a file for every adapter without closing the one  *)
(* before.  Opening and closing goes through the routines of ImcMailbox.   *)
(***************************************************************************)
EXTENDS ImcMailbox, Integers

CONSTANTS
  Adapters,    \* numbers of /dev/i2c-N
  Addresses,   \* slave addresses a user types
  Bound,       \* pairs of adapter and address that have a driver in the kernel
  Registers,   \* register numbers a user types
  Tokens,      \* files for writeblock: sequences of texts
  BlockMax,    \* 32 in the program
  MaxFiles     \* bound on the files one run opens

\* A number with its 0x; "bad" is what is none, "blank" white space before the first text.
Texts == [text : {"number", "bad", "blank"}, value : Int]
IsNumber(t) == t.text = "number"

Smbus == "smbus"     \* the caller that is the program
Spirom == "spirom"   \* the caller that uses spirom

ASSUME SmbusAssumption ==
  /\ Callers = {Smbus, Spirom}
  /\ MaxFiles \in Nat /\ BlockMax \in Nat
  /\ Addresses \subseteq Nat /\ Registers \subseteq Nat /\ Tokens \subseteq Seq(Texts)

Unset == 255         \* slave_addr at the start: 0xFF
NoFile == [open |-> FALSE]
SpiromFile == 0      \* the file of the other process, in `quiet'

VARIABLES
  spc,         \* out, prompt, opening, ending
  fd,          \* the descriptor in use, 0 if none
  adapter_nr,  \* the adapter the program reports, -1 if none
  slave_addr,  \* the address the program reports
  files,       \* the kernel's open files, by descriptor
  spirom,      \* what the other process does: none, opening, open, closing
  quiet,       \* (history) the files whose open has had the mailbox for itself
  last         \* (history) the transfer the last step has reported a success

smbus == <<imc, spc, fd, adapter_nr, slave_addr, files, spirom, quiet, last>>

Descriptors == 1..MaxFiles
NoTransfer == [adapter |-> 0]
NoBlock == [file |-> <<>>, sent |-> <<>>]
FileOf(a) == [open |-> TRUE, adapter |-> a, addr |-> 0]

SmbusTypeOK ==
  /\ ImcTypeOK
  /\ spc \in {"out", "prompt", "opening", "ending"}
  /\ fd \in 0..MaxFiles /\ (spc = "prompt" /\ fd # 0 => files[fd].open)
  /\ adapter_nr \in Adapters \cup {-1}
  /\ slave_addr \in Addresses \cup {Unset}
  /\ \A d \in Descriptors :
       files[d] = NoFile \/ (files[d].adapter \in Adapters /\ files[d].addr \in 0..127)
  /\ spirom \in {"none", "opening", "open", "closing"}
  /\ quiet \subseteq Descriptors \cup {SpiromFile}

SmbusInit ==
  /\ ImcInit
  /\ spc = "out" /\ fd = 0 /\ adapter_nr = -1 /\ slave_addr = Unset
  /\ files = [d \in Descriptors |-> NoFile]
  /\ spirom = "none" /\ quiet = {} /\ last = NoTransfer

----------------------------------------------------------------------------
(* The program: its life and its settings. *)

SmbusRun ==
  /\ spc = "out" /\ spc' = "prompt"
  /\ fd' = 0 /\ adapter_nr' = -1 /\ slave_addr' = Unset /\ last' = NoTransfer
  /\ UNCHANGED <<imc, files, spirom, quiet>>

\* setadapternum: i2cdev_open makes a file without an address and calls the IMC; ...
OpenAdapter(a, d) ==
  /\ spc = "prompt" /\ spc' = "opening"
  /\ files[d] = NoFile /\ \A e \in 1..(d - 1) : files[e].open
  /\ files' = [files EXCEPT ![d] = FileOf(a)]
  /\ Call(Smbus, ENTER)
  /\ last' = NoTransfer
  /\ UNCHANGED <<fd, adapter_nr, slave_addr, spirom, quiet>>

\* Faulty variant: the leak is mended with a close after the assignment to fd.
SetAdapterNumCloses ==
  /\ spc = "opening" /\ at[Smbus] = 0 /\ spc' = "prompt"
  /\ \E d \in Descriptors :
       /\ files[d].open /\ \A e \in Descriptors : files[e].open => e <= d
       /\ fd' = d /\ adapter_nr' = files[d].adapter /\ files' = [files EXCEPT ![d] = NoFile]
  /\ last' = NoTransfer
  /\ UNCHANGED <<imc, slave_addr, spirom, quiet>>

\* ... then the program takes the new descriptor; the address it reports stays.
SetAdapterNum ==
  /\ spc = "opening" /\ at[Smbus] = 0 /\ spc' = "prompt"
  /\ \E d \in Descriptors :
       /\ files[d].open /\ \A e \in Descriptors : files[e].open => e <= d
       /\ fd' = d /\ adapter_nr' = files[d].adapter
       /\ quiet' = IF alone[Smbus] THEN quiet \cup {d} ELSE quiet
  /\ last' = NoTransfer
  /\ UNCHANGED <<imc, slave_addr, files, spirom>>

\* Faulty variant: the address is stored before the kernel has taken it.
SetSlaveAddrEarly(x) ==
  /\ spc = "prompt"
  /\ slave_addr' = x
  /\ IF fd # 0 /\ x <= 127 /\ <<files[fd].adapter, x>> \notin Bound
     THEN files' = [files EXCEPT ![fd].addr = x]
     ELSE UNCHANGED files
  /\ last' = NoTransfer
  /\ UNCHANGED <<imc, spc, fd, adapter_nr, spirom, quiet>>

\* setslaveaddr: the kernel refuses a number over 7 bits and an address with a driver.
SetSlaveAddr(x) ==
  /\ spc = "prompt"
  /\ fd # 0 /\ x <= 127 /\ <<files[fd].adapter, x>> \notin Bound
  /\ files' = [files EXCEPT ![fd].addr = x] /\ slave_addr' = x
  /\ last' = NoTransfer
  /\ UNCHANGED <<imc, spc, fd, adapter_nr, spirom, quiet>>

----------------------------------------------------------------------------
(* The transfers: the functionality is asked for first, so fd must be open. *)

\* A transfer with a register number, and for writeblock its block.
Transferred(reg, block) ==
  /\ spc = "prompt" /\ fd # 0
  /\ last' = [adapter |-> files[fd].adapter, addr |-> files[fd].addr,
              reg |-> reg % 256, block |-> block,
              told |-> [adapter |-> adapter_nr, addr |-> slave_addr, reg |-> reg]]
  /\ UNCHANGED <<imc, spc, fd, adapter_nr, slave_addr, files, spirom, quiet>>

\* quicksend and receivebyte have no register, sendbyte puts its byte there; readbyte,
\* writebyte, readword, writeword and readblock differ in the size they ask for.
Transfer == \E reg \in Registers \cup {0} : Transferred(reg, NoBlock)

\* What an uninitialized int leaves in a byte, whatever it is.
Garbage == 256

\* The texts that fscanf has read after k calls: it does not consume one that does not match,
\* and skips white space only after a number, so it never gets past that one.
NumbersRead(f, k) == {i \in 1..k : i <= Len(f) /\ \A j \in 1..i : IsNumber(f[j])}

\* The k-th byte: the low byte of the number in `data', which a call without one leaves alone.
Datum(f, k) ==
  IF NumbersRead(f, k) = {} THEN Garbage
  ELSE LET i == CHOOSE i \in NumbersRead(f, k) : \A j \in NumbersRead(f, k) : j <= i
       IN f[i].value % 256

\* The bytes of writeblock: to the end of the file, at most BlockMax; a file with a text that is
\* no number never ends, since fscanf returns 0 and not EOF.
BlockOf(f) ==
  LET stuck == \E i \in 1..Len(f) : ~IsNumber(f[i])
      n == IF stuck \/ Len(f) > BlockMax THEN BlockMax ELSE Len(f)
  IN [k \in 1..n |-> Datum(f, k)]

WriteBlock ==
  \E f \in Tokens, reg \in Registers :
    Transferred(reg, [file |-> f, sent |-> BlockOf(f)])

----------------------------------------------------------------------------
(* The end of the program, and the other process. *)

\* exit closes the descriptor in use, the end of the process all others; each close calls the IMC.
SmbusExit ==
  /\ spc = "prompt" /\ spc' = "ending"
  /\ last' = NoTransfer
  /\ UNCHANGED <<imc, fd, adapter_nr, slave_addr, files, spirom, quiet>>

SmbusClose ==
  /\ spc = "ending" /\ at[Smbus] = 0
  /\ \E d \in Descriptors :
       /\ files[d].open /\ (fd # 0 /\ files[fd].open => d = fd)
       /\ files' = [files EXCEPT ![d] = NoFile] /\ quiet' = quiet \ {d}
       /\ Call(Smbus, EXIT)
  /\ last' = NoTransfer
  /\ UNCHANGED <<spc, fd, adapter_nr, slave_addr, spirom>>

SmbusEnded ==
  /\ spc = "ending" /\ at[Smbus] = 0 /\ \A d \in Descriptors : ~files[d].open
  /\ spc' = "out"
  /\ last' = NoTransfer
  /\ UNCHANGED <<imc, fd, adapter_nr, slave_addr, files, spirom, quiet>>

\* spirom_open and spirom_release in another process.
SpiromOpen ==
  /\ \/ spirom = "none" /\ spirom' = "opening" /\ Call(Spirom, ENTER) /\ UNCHANGED quiet
     \/ /\ spirom = "opening" /\ at[Spirom] = 0 /\ spirom' = "open"
        /\ quiet' = IF alone[Spirom] THEN quiet \cup {SpiromFile} ELSE quiet
        /\ UNCHANGED imc
  /\ last' = NoTransfer
  /\ UNCHANGED <<spc, fd, adapter_nr, slave_addr, files>>

SpiromClose ==
  /\ \/ /\ spirom = "open" /\ spirom' = "closing" /\ quiet' = quiet \ {SpiromFile}
        /\ Call(Spirom, EXIT)
     \/ spirom = "closing" /\ at[Spirom] = 0 /\ spirom' = "none" /\ UNCHANGED <<imc, quiet>>
  /\ last' = NoTransfer
  /\ UNCHANGED <<spc, fd, adapter_nr, slave_addr, files>>

SmbusImc ==
  /\ ImcStep /\ last' = NoTransfer
  /\ UNCHANGED <<spc, fd, adapter_nr, slave_addr, files, spirom, quiet>>

SmbusNext ==
  \/ SmbusRun \/ SetAdapterNum \/ Transfer \/ WriteBlock
  \/ SmbusExit \/ SmbusClose \/ SmbusEnded \/ SpiromOpen \/ SpiromClose \/ SmbusImc
  \/ \E a \in Adapters, d \in Descriptors : OpenAdapter(a, d)
  \/ \E x \in Addresses : SetSlaveAddr(x)

----------------------------------------------------------------------------
(* Properties. *)

\* While a file is open whose open had the mailbox for itself, the IMC does not fetch from the
\* flash ROM, however many other files are opened and closed meanwhile and however their port
\* accesses interleave.  It rests on amd_imc_exit_scratch_ram sending the command to enter: the
\* callers do not count, so a true exit at the first close would take the IMC back to the ROM
\* under the others.
KeptOffFlash == (imc_enabled /\ quiet # {}) => scratch

\* A transfer reported a success went to the adapter the program reports and to the slave
\* address it reports, or to address 0 of a file that was given none since setadapternum; the
\* register is the one it reports if that fits a byte; and writeblock has sent, up to the limit,
\* the low bytes of the numbers of its file that come before anything else, in their order, and
\* nothing but them if the file holds only numbers.
TransferAsTold ==
  last # NoTransfer =>
    /\ last.adapter = last.told.adapter /\ last.addr \in {0, last.told.addr}
    /\ last.told.reg < 256 => last.reg = last.told.reg
    /\ LET f == last.block.file
           sent == last.block.sent
           limit == IF Len(f) > BlockMax THEN BlockMax ELSE Len(f)
       IN /\ \A i \in 1..limit :
               (\A j \in 1..i : IsNumber(f[j])) =>
                  i \in DOMAIN sent /\ sent[i] = f[i].value % 256
          /\ (\A i \in 1..Len(f) : IsNumber(f[i])) => DOMAIN sent = 1..limit
=============================================================================
