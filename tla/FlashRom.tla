------------------------------ MODULE FlashRom ------------------------------
(***************************************************************************)
(* What spirom-test talks to: a serial flash ROM behind the ioctl of       *)
(* /dev/spirom.  The ROM is not part of this repository; it is modelled    *)
(* from the commands the program gives it and the status bits it reads.    *)
(* The ioctl does what module SerialChannel promises.  Commands are        *)
(* executed one at a time and in order; a call that succeeds has had its   *)
(* own executed; one that fails may leave its message in the queue, in     *)
(* whose place the command that is in the controller is executed once      *)
(* more.  A process whose message is still there may build the next one    *)
(* over it, since both are on its stack: then its command may be executed  *)
(* in place of the earlier, and the call may succeed without.  What the    *)
(* driver does when its queue is destroyed by that is no part of this.     *)
(*                                                                         *)
(* Addresses are counted in units of one chunk of Steppe Eagle's program.  *)
(***************************************************************************)
EXTENDS Naturals, Sequences

CONSTANTS
  Size,        \* units of the ROM; addresses are taken modulo this (24 bits)
  PageSize, SectorSize, BlockSize,  \* units that one command programs, erases
  FileSize,    \* units in the file that is written
  MaxErrors    \* bound: ioctls that fail

ASSUME FlashRomAssumption ==
  /\ Size \in Nat \ {0} /\ FileSize \in Nat /\ MaxErrors \in Nat
  /\ PageSize \in 1 .. Size /\ SectorSize \in 1 .. Size /\ BlockSize \in 1 .. Size

Units == 0 .. Size - 1

\* Contents of a unit: what was there, erased, of the file, zeros (programmed
\* from beyond the end of the file), or programmed without an erase.
Contents == {"old", "blank", "file", "zero", "mixed"}

VARIABLES
  mem,       \* the contents of each unit
  wel,       \* write enable latch, bit 1 of the status register
  job,       \* the erase or program in progress (bit 0, WIP), or Idle
  last,      \* the command in the controller, Idle for one that only reads
  pending,   \* the processes of the messages left behind in the queue
  errors     \* how many ioctls have failed

rom == <<mem, wel, job>>
channel == <<rom, last, pending, errors>>

Simple == {"WREN", "WRDI", "RDSR", "RDID"}
Changing == {"CHIP_ERASE", "SECTOR_ERASE", "BLOCK_ERASE", "WRITE"}

\* Every command has an address, a length and the place of its data in the
\* file, whether it uses them or not.
Command(op, at, len, from) == [op |-> op, at |-> at, len |-> len, from |-> from]
Plain(op) == Command(op, 0, 0, 0)
Idle == Plain("none")

RomInit ==
  /\ mem = [u \in Units |-> "old"] /\ wel = FALSE /\ job = Idle
  /\ last = Idle /\ pending = << >> /\ errors = 0

----------------------------------------------------------------------------
Aligned(at, size) == {u \in Units : u \div size = at \div size}

\* How far a unit is from an address on the same page, going around its end.
Past(at, u) == (u + PageSize - (at % PageSize)) % PageSize

\* Units a command changes.  A program wraps around at the end of its page.
Changes(c) ==
  CASE c.op = "CHIP_ERASE"   -> Units
    [] c.op = "SECTOR_ERASE" -> Aligned(c.at, SectorSize)
    [] c.op = "BLOCK_ERASE"  -> Aligned(c.at, BlockSize)
    [] c.op = "WRITE" -> {u \in Aligned(c.at, PageSize) : Past(c.at, u) < c.len}

\* Programming clears bits and sets none.
Programmed(before, i) ==
  CASE i >= FileSize                              -> "zero"
    [] i < FileSize /\ before \in {"blank", "file"} -> "file"
    [] i < FileSize /\ before = "zero"              -> "zero"
    [] OTHER                                        -> "mixed"

Result(c) ==
  [u \in Units |->
     IF u \notin Changes(c) THEN mem[u]
     ELSE IF c.op # "WRITE" THEN "blank"
     ELSE Programmed(mem[u], c.from + Past(c.at, u))]

\* While it is busy the ROM only answers RDSR, and without the latch it does
\* not erase or program.
Execute(c) ==
  /\ wel' = IF job # Idle \/ c.op \notin {"WREN", "WRDI"} THEN wel ELSE c.op = "WREN"
  /\ job' = IF job = Idle /\ wel /\ c.op \in Changing THEN c ELSE job
  /\ UNCHANGED mem

\* The end of an erase or a program: WIP and the latch are cleared.
RomFinishes ==
  /\ job # Idle
  /\ mem' = Result(job) /\ wel' = FALSE /\ job' = Idle
  /\ UNCHANGED <<last, pending, errors>>

----------------------------------------------------------------------------
\* To repeat a command that only reads changes nothing, whichever it is.
Kept(c) == IF c.op \in Changing \cup {"WREN", "WRDI"} THEN c ELSE Idle

Obeys(c) == Execute(c) /\ last' = Kept(c)

\* A message of this process may be built over an earlier one.
Confused(p) == \E i \in DOMAIN pending : pending[i] = p

\* The ioctl returns a positive value: the command was executed.
Answered(p, c) ==
  /\ \/ pending = << >> /\ Obeys(c) /\ UNCHANGED pending
     \/ Confused(p) /\ Obeys(c) /\ pending' \in {pending, Tail(pending)}
     \/ Confused(p) /\ UNCHANGED <<rom, last, pending>>
  /\ UNCHANGED errors

\* It fails, and the message is not queued, is left in the queue, or is the one
\* whose command is being executed.
Fails(p, c) ==
  /\ errors < MaxErrors
  /\ errors' = errors + 1
  /\ pending' \in {pending, Append(pending, p)}
  /\ \/ UNCHANGED last
     \/ (pending = << >> \/ Confused(p)) /\ pending' # pending /\ last' = Kept(c)
  /\ UNCHANGED rom

\* A message left behind has its turn.
ExecutesLate ==
  /\ pending # << >>
  /\ pending' = Tail(pending)
  /\ Execute(last)
  /\ UNCHANGED <<last, errors>>

\* The stack of a process that has ended becomes that of a new one.
Inherits(p, ended) ==
  \E taken \in SUBSET {i \in DOMAIN pending : pending[i] \in ended} :
    pending' = [i \in DOMAIN pending |-> IF i \in taken THEN p ELSE pending[i]]
============================================================================
