----------------------------- MODULE SpiromTest -----------------------------
(***************************************************************************)
(* The program spirom-test (spirom-test.c), one process for each user,     *)
(* over the ROM of module FlashRom.  Each command is a sequence of ioctls; *)
(* nothing keeps another process, or a process started after one that was  *)
(* killed, from sending its own in between.                                *)
(*                                                                         *)
(* read, write, sectorerase and blockerase go through their range by       *)
(* chunks; the three that change the ROM look first whether the latch is   *)
(* set, set it again for each chunk, and wait for WIP after each.          *)
(***************************************************************************)
EXTENDS FlashRom

CONSTANTS
  Programs,     \* processes
  Boards,       \* "S": Steppe Eagle's copy, 4 bytes a chunk; "V": 64 bytes
  Requests,     \* what users ask for: a command, an address and a length
  MaxCommands   \* bound: commands on a range, over all processes

Chunk(board) == IF board = "S" THEN 1 ELSE 2

\* A chip erase is one command.  The ROM and its pages hold whole chunks.
ASSUME SpiromTestAssumption ==
  /\ Boards \subseteq {"S", "V"} /\ MaxCommands \in Nat
  /\ \A b \in Boards : Size % Chunk(b) = 0 /\ PageSize % Chunk(b) = 0
  /\ Requests \subseteq [name : {"chiperase", "sectorerase", "blockerase", "read", "write"},
                         start : Units, length : Nat]
  /\ \A r \in Requests : r.name = "chiperase" => r.length = 1

VARIABLES
  board,     \* the copy of the program
  pc,        \* out, prompt, or in a command: check, enable, change, poll, read
  cmd,       \* the command: name, where it began, addr, and what is left
  said,      \* (history) the command ended with "completed successfully"
  alone,     \* (history) nobody else has changed the ROM since it began
  idle,      \* (history) the ROM had nothing to do when it began
  garbled,   \* (history) a read got an answer while the ROM was busy, or a false one
  asked,     \* (history) units that some command was to change
  commands   \* how many commands on a range were given

history == <<said, alone, idle, garbled>>
program == <<pc, cmd, history>>
vars == <<channel, board, program, asked, commands>>

NoCommand == [name |-> "none", start |-> 0, length |-> 0, addr |-> 0, left |-> 0]
Init ==
  /\ RomInit
  /\ board \in Boards
  /\ pc = [p \in Programs |-> "out"]
  /\ cmd = [p \in Programs |-> NoCommand]
  /\ said = [p \in Programs |-> FALSE] /\ alone = [p \in Programs |-> TRUE]
  /\ idle = [p \in Programs |-> TRUE] /\ garbled = [p \in Programs |-> FALSE]
  /\ asked = {} /\ commands = 0

\* How far the address moves on, and how much of the length is done with it.
Step(name) ==
  CASE name = "sectorerase" -> SectorSize
    [] name = "blockerase"  -> BlockSize
    [] OTHER                -> Chunk(board)

\* Faulty variant: what remains after the last whole chunk is taken for one.
TakenWhole(p) == IF cmd[p].name \in {"read", "write"} THEN Chunk(board) ELSE 1

Taken(p) == IF cmd[p].name \in {"read", "write"}
            THEN IF cmd[p].left < Chunk(board) THEN cmd[p].left ELSE Chunk(board)
            ELSE 1

\* The range of a command, as far as erases and pages reach.
Range(c) ==
  CASE c.name = "chiperase"   -> Units
    [] c.name = "sectorerase" ->
         UNION {Aligned((c.start + i * SectorSize) % Size, SectorSize) : i \in 0 .. c.length - 1}
    [] c.name = "blockerase"  ->
         UNION {Aligned((c.start + i * BlockSize) % Size, BlockSize) : i \in 0 .. c.length - 1}
    [] c.name \in {"read", "write"} -> {(c.start + i) % Size : i \in 0 .. c.length - 1}

Disturbs(c) == c.op \in Changing \cup {"WRDI"}
Others(p, c) ==
  alone' = [q \in Programs |-> alone[q] /\ (q = p \/ cmd[q] = NoCommand \/ ~ Disturbs(c))]

----------------------------------------------------------------------------
\* The program is started and given a device (device_opened is set).  A later
\* setdevice changes nothing here: the file open before is not closed, and
\* stays in use when the new one cannot be opened.
SetDevice(p) ==
  /\ pc[p] = "out" /\ pc' = [pc EXCEPT ![p] = "prompt"]
  /\ Inherits(p, {q \in Programs : pc[q] = "out"})
  /\ UNCHANGED <<rom, last, errors, board, cmd, history, asked, commands>>

\* wren, wrdi, rdsr, rdid.
One(p) ==
  /\ pc[p] = "prompt"
  /\ \E op \in Simple :
       /\ Answered(p, Plain(op)) \/ Fails(p, Plain(op))
       /\ Others(p, Plain(op))
  /\ UNCHANGED <<board, pc, cmd, said, idle, garbled, asked, commands>>

\* The parameters are read and the file is opened.
Begin(p) ==
  /\ pc[p] = "prompt" /\ commands < MaxCommands
  /\ \E r \in Requests :
       /\ cmd' = [cmd EXCEPT ![p] = [name |-> r.name, start |-> r.start, length |-> r.length,
                                    addr |-> r.start, left |-> r.length]]
       /\ pc' = [pc EXCEPT ![p] = IF r.name = "read" THEN "read" ELSE "check"]
  /\ said' = [said EXCEPT ![p] = FALSE] /\ alone' = [alone EXCEPT ![p] = TRUE]
  /\ idle' = [idle EXCEPT ![p] = job = Idle /\ pending = << >>]
  /\ garbled' = [garbled EXCEPT ![p] = FALSE]
  /\ commands' = commands + 1
  /\ UNCHANGED <<channel, board, asked>>

\* What the history of a process is without a command.
Forget(p) ==
  /\ cmd' = [cmd EXCEPT ![p] = NoCommand] /\ said' = [said EXCEPT ![p] = FALSE]
  /\ idle' = [idle EXCEPT ![p] = TRUE] /\ garbled' = [garbled EXCEPT ![p] = FALSE]

\* An ioctl that fails ends the command.
GivesUp(p, c) ==
  /\ Fails(p, c) /\ Others(p, c)
  /\ pc' = [pc EXCEPT ![p] = "prompt"]
  /\ Forget(p)
  /\ UNCHANGED <<board, asked, commands>>

\* The next step, or the end, of a command with so much left.
Continue(p, left, next) ==
  /\ pc' = [pc EXCEPT ![p] = IF left = 0 THEN "prompt" ELSE next]
  /\ said' = [said EXCEPT ![p] = left = 0]

\* RDSR, and out if the latch is not set; in a message built over another the
\* answer may be anything.  WIP is not looked at.  chiperase
\* relies on the latch it has found; the others go through their loop.
Check(p) ==
  /\ pc[p] = "check"
  /\ \/ /\ (wel \/ Confused(p)) /\ Answered(p, Plain("RDSR"))
        /\ Continue(p, cmd[p].left, IF cmd[p].name = "chiperase" THEN "change" ELSE "enable")
        /\ asked' = asked \cup
             IF cmd[p].name = "write"
             THEN UNION {Aligned(u, PageSize) : u \in Range(cmd[p])}
             ELSE Range(cmd[p])
        /\ UNCHANGED <<board, cmd, alone, idle, garbled, commands>>
     \/ /\ (~ wel \/ Confused(p)) /\ Answered(p, Plain("RDSR"))
        /\ pc' = [pc EXCEPT ![p] = "prompt"]
        /\ Forget(p)
        /\ UNCHANGED <<board, alone, asked, commands>>
     \/ GivesUp(p, Plain("RDSR"))

Enable(p) ==
  /\ pc[p] = "enable"
  /\ \/ /\ Answered(p, Plain("WREN"))
        /\ pc' = [pc EXCEPT ![p] = "change"]
        /\ UNCHANGED <<board, cmd, history, asked, commands>>
     \/ GivesUp(p, Plain("WREN"))

\* Faulty variant: the erase command of a block is sent for a sector.
ChangeCommandOfBlock(p) ==
  CASE cmd[p].name = "chiperase" -> Plain("CHIP_ERASE")
    [] cmd[p].name \in {"sectorerase", "blockerase"} ->
         Command("BLOCK_ERASE", cmd[p].addr, 0, 0)
    [] cmd[p].name = "write" ->
         Command("WRITE", cmd[p].addr, Taken(p), cmd[p].length - cmd[p].left)

\* The erase or the program of one chunk.
ChangeCommand(p) ==
  CASE cmd[p].name = "chiperase"   -> Plain("CHIP_ERASE")
    [] cmd[p].name = "sectorerase" -> Command("SECTOR_ERASE", cmd[p].addr, 0, 0)
    [] cmd[p].name = "blockerase"  -> Command("BLOCK_ERASE", cmd[p].addr, 0, 0)
    [] cmd[p].name = "write" ->
         Command("WRITE", cmd[p].addr, Taken(p), cmd[p].length - cmd[p].left)

Advance(p) ==
  cmd' = [cmd EXCEPT ![p].addr = (@ + Step(cmd[p].name)) % Size,
                     ![p].left = @ - Taken(p)]

Change(p) ==
  /\ pc[p] = "change"
  /\ \/ /\ Answered(p, ChangeCommand(p)) /\ Others(p, ChangeCommand(p))
        /\ Advance(p)
        /\ pc' = [pc EXCEPT ![p] = "poll"]
        /\ UNCHANGED <<board, said, idle, garbled, asked, commands>>
     \/ GivesUp(p, ChangeCommand(p))

\* Faulty variant: the latch is set for the first chunk only.
PollSkipsEnable(p) ==
  /\ pc[p] = "poll"
  /\ \/ /\ Answered(p, Plain("RDSR"))
        /\ \/ (job = Idle \/ Confused(p)) /\ Continue(p, cmd[p].left, "change")
           \/ (job # Idle \/ Confused(p)) /\ UNCHANGED <<pc, said>>
        /\ UNCHANGED <<board, cmd, alone, idle, garbled, asked, commands>>
     \/ GivesUp(p, Plain("RDSR"))

\* Faulty variant: the loop goes on until WIP is set.
PollInverted(p) ==
  /\ pc[p] = "poll"
  /\ \/ /\ Answered(p, Plain("RDSR"))
        /\ \/ (job # Idle \/ Confused(p)) /\ Continue(p, cmd[p].left, "enable")
           \/ (job = Idle \/ Confused(p)) /\ UNCHANGED <<pc, said>>
        /\ UNCHANGED <<board, cmd, alone, idle, garbled, asked, commands>>
     \/ GivesUp(p, Plain("RDSR"))

\* RDSR until WIP is clear.
Poll(p) ==
  /\ pc[p] = "poll"
  /\ \/ /\ Answered(p, Plain("RDSR"))
        /\ \/ (job = Idle \/ Confused(p)) /\ Continue(p, cmd[p].left, "enable")
           \/ (job # Idle \/ Confused(p)) /\ UNCHANGED <<pc, said>>
        /\ UNCHANGED <<board, cmd, alone, idle, garbled, asked, commands>>
     \/ GivesUp(p, Plain("RDSR"))

\* One chunk is read and written to the file.
Read(p) ==
  LET c == Command("READ", cmd[p].addr, Taken(p), 0)
  IN /\ pc[p] = "read"
     /\ \/ cmd[p].left = 0 /\ Continue(p, 0, "read")
           /\ UNCHANGED <<channel, board, cmd, alone, idle, garbled, asked, commands>>
        \/ /\ cmd[p].left > 0 /\ Answered(p, c)
           /\ garbled' = [garbled EXCEPT ![p] = @ \/ job # Idle \/ Confused(p)]
           /\ Advance(p) /\ Continue(p, cmd[p].left - Taken(p), "read")
           /\ UNCHANGED <<board, alone, idle, asked, commands>>
        \/ cmd[p].left > 0 /\ GivesUp(p, c)

\* exit, the end of the input, a signal that kills: the kernel closes the files.
Ends(p) ==
  /\ pc[p] # "out"
  /\ pc' = [pc EXCEPT ![p] = "out"]
  /\ alone' = [alone EXCEPT ![p] = TRUE] /\ Forget(p)
  /\ UNCHANGED <<channel, board, asked, commands>>

ProgramStep(p) ==
  Check(p) \/ Enable(p) \/ Change(p) \/ Poll(p) \/ Read(p)

Rom ==
  /\ RomFinishes \/ ExecutesLate
  /\ UNCHANGED <<board, program, asked, commands>>

Next ==
  \/ \E p \in Programs :
       SetDevice(p) \/ One(p) \/ Begin(p) \/ ProgramStep(p) \/ Ends(p)
  \/ Rom

Spec == Init /\ [][Next]_vars

\* A process in a command runs; the ROM ends what it has begun, and the thread
\* of the controller what it was given.
FairSpec ==
  /\ Spec
  /\ \A p \in Programs : WF_vars(ProgramStep(p))
  /\ WF_vars(Rom)
----------------------------------------------------------------------------
(* Properties *)

\* The types of the variables; the address never leaves the ROM and what is
\* left never goes below zero.
TypeOK ==
  /\ mem \in [Units -> Contents] /\ wel \in BOOLEAN /\ errors \in 0 .. MaxErrors
  /\ job = Idle \/ (job.op \in Changing /\ job.at \in Units)
  /\ last.at \in Units /\ \A i \in DOMAIN pending : pending[i] \in Programs
  /\ board \in Boards
  /\ pc \in [Programs -> {"out", "prompt", "check", "enable", "change", "poll", "read"}]
  /\ said \in [Programs -> BOOLEAN]
  /\ alone \in [Programs -> BOOLEAN] /\ idle \in [Programs -> BOOLEAN]
  /\ garbled \in [Programs -> BOOLEAN]
  /\ asked \subseteq Units /\ commands \in 0 .. MaxCommands
  /\ \A p \in Programs :
       /\ cmd[p].start \in Units /\ cmd[p].addr \in Units
       /\ cmd[p].left \in 0 .. cmd[p].length

\* "...completed successfully": the range is erased, holds what was to be
\* written (the file, then zeros for what the file is short of, if the range
\* was blank), or was read from an idle ROM.  So it is unless another process
\* changed the ROM meanwhile, or the ROM was still at work for an earlier
\* command, of a killed process or one whose ioctl had timed out, when this one
\* began: WEL is still set then, so that the test for it passes, but the ROM
\* ignores what it is sent.  A write must begin at a chunk: one that crosses
\* the end of a page wraps around.
SuccessMeansDone ==
  \A p \in Programs :
    said[p] /\ alone[p] /\ idle[p] =>
      LET c == cmd[p]
      IN /\ c.name \in {"chiperase", "sectorerase", "blockerase"} =>
              \A u \in Range(c) : mem[u] = "blank"
         /\ c.name = "write" /\ c.start % Chunk(board) = 0 =>
              /\ \A u \in Range(c) : mem[u] \in {"file", "zero", "mixed"}
              /\ \A i \in 0 .. c.length - 1 : i >= FileSize => mem[(c.start + i) % Size] = "zero"
         /\ ~ garbled[p]

\* Whatever is interrupted, late, repeated or done by two at once, only units
\* that somebody asked to change are changed: those of the sectors and blocks
\* named, and of the pages that were to be written.
OthersUntouched == \A u \in Units \ asked : mem[u] = "old"

\* "Make sure WIP has been reset": the endless loop ends, unless another
\* process keeps the ROM at work.
PollEnds ==
  \A p \in Programs : pc[p] = "poll" ~> (pc[p] # "poll" \/ ~ alone[p])
============================================================================
