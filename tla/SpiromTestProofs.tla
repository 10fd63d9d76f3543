-------------------------- MODULE SpiromTestProofs --------------------------
(***************************************************************************)
(* What holds of spirom-test for every ROM, every number of users, every   *)
(* set of requests and any number of ioctls that fail.  No fairness is     *)
(* used.                                                                   *)
(***************************************************************************)
EXTENDS SpiromTest, Integers, TLAPS

Names == {"chiperase", "sectorerase", "blockerase", "read", "write"}
UserCommands ==
  [name : Names \cup {"none"}, start : Units, length : Nat, addr : Units, left : Nat]
RomCommands ==
  [op : Simple \cup Changing \cup {"READ", "none"}, at : Units, len : Nat, from : Nat]

\* The types of the records that TypeOK says only a part of.
RecordsOK ==
  /\ cmd \in [Programs -> UserCommands]
  /\ job \in RomCommands /\ last \in RomCommands /\ pending \in Seq(Programs)

\* The unit that a command is at when k of its length are done.
Stride(name) ==
  IF name = "sectorerase" THEN SectorSize ELSE IF name = "blockerase" THEN BlockSize ELSE 1

At(c, k) == (c.start + k * Stride(c.name)) % Size

\* Where a command is: what it does next follows from its name and what is left, and what is
\* left tells the address.
Flow(p) ==
  /\ cmd[p].name = "none" => ~ said[p] /\ ~ garbled[p]
  /\ pc[p] \in {"check", "enable", "change", "poll"} =>
       cmd[p].name \in {"chiperase", "sectorerase", "blockerase", "write"}
  /\ pc[p] = "read" => cmd[p].name = "read"
  /\ pc[p] \in {"enable", "change"} => cmd[p].left > 0
  /\ pc[p] = "check" => cmd[p].left = cmd[p].length
  /\ said[p] => cmd[p].left = 0 /\ pc[p] = "prompt"
  /\ cmd[p].left > 0 => cmd[p].addr = At(cmd[p], cmd[p].length - cmd[p].left)
  /\ cmd[p].name = "chiperase" => cmd[p].length = 1

FlowInv == \A p \in Programs : Flow(p)

\* The units that a command may change.
Reach(c) == IF c.name = "write" THEN UNION {Aligned(u, PageSize) : u \in Range(c)} ELSE Range(c)

\* Whatever is at work in the ROM, in the controller to be repeated or still to come of a
\* command changes only what was asked for.
Bounded(c) == c.op \in Changing => Changes(c) \subseteq asked

AskedInv ==
  /\ OthersUntouched
  /\ Bounded(job) /\ Bounded(last)
  /\ \A p \in Programs : pc[p] \in {"enable", "change", "poll"} => Reach(cmd[p]) \subseteq asked

\* The contents of the ROM once it has finished what it does.
Final == IF job = Idle THEN mem ELSE Result(job)

\* The units that an erase has dealt with when k of its length are done.
Piece(c, i) ==
  CASE c.name = "chiperase"   -> Units
    [] c.name = "sectorerase" -> Aligned(At(c, i), SectorSize)
    [] c.name = "blockerase"  -> Aligned(At(c, i), BlockSize)

Erased(c, k) == \A i \in 0 .. k - 1 : \A u \in Piece(c, i) : Final[u] = "blank"

Written(c, k) ==
  \A i \in 0 .. k - 1 :
    /\ Final[At(c, i)] \in {"file", "zero", "mixed"}
    /\ i >= FileSize => Final[At(c, i)] = "zero"

\* A command that has been executed does nothing when it is once more: the ROM is at work, or
\* its latch is no longer set.  So it is of the one in the controller when no message is left.
Spent == job # Idle \/ ~ wel

Settled == pending = << >> /\ last.op \in Changing \cup {"WRDI"} => Spent

\* What a command has done so far when nobody else changed the ROM and the ROM was idle at its
\* beginning: the ROM obeys it, and it alone.
Undisturbed(p) == alone[p] /\ idle[p] /\ cmd[p].name # "none"

Calm(p) ==
  /\ ~ garbled[p]
  /\ last.op \in Changing => Spent
  /\ pc[p] \in {"check", "enable", "change", "poll"} /\ last.op = "WRDI" => Spent
  /\ pc[p] \in {"check", "enable", "change", "poll", "read"} => ~ Confused(p)
  /\ job # Idle => pc[p] = "poll"
  /\ pc[p] = "change" => wel

Progress(p) ==
  /\ cmd[p].name \in {"chiperase", "sectorerase", "blockerase"} =>
       Erased(cmd[p], cmd[p].length - cmd[p].left)
  /\ cmd[p].name = "write" /\ cmd[p].start % Chunk(board) = 0 =>
       /\ Written(cmd[p], cmd[p].length - cmd[p].left)
       /\ cmd[p].left > 0 => cmd[p].addr % Chunk(board) = 0

DoneInv == \A p \in Programs : Undisturbed(p) => Calm(p) /\ Progress(p)

IInv == TypeOK /\ RecordsOK /\ FlowInv /\ AskedInv /\ Settled /\ DoneInv
----------------------------------------------------------------------------
(* Division, as the provers take it *)

LEMMA Divides ==
  \A a \in Nat, n \in Nat \ {0} :
    a \div n \in Nat /\ a % n \in 0 .. n - 1 /\ a = n * (a \div n) + (a % n)
OBVIOUS

LEMMA Distributes == \A n, x, y \in Int : n * (x + y) = (n * x) + (n * y)
OBVIOUS

LEMMA AtLeast == \A n, d \in Int : n > 0 /\ d >= 1 => n * d >= n
OBVIOUS

\* Quotient and remainder are determined.
LEMMA Unique ==
  ASSUME NEW n \in Nat \ {0}, NEW q \in Int, NEW r \in 0 .. n - 1,
         NEW s \in Int, NEW t \in 0 .. n - 1, (n * q) + r = (n * s) + t
  PROVE  q = s /\ r = t
<1>1. n * (q - s) = t - r /\ n * (s - q) = r - t
  OBVIOUS
<1>2. ~ (q - s >= 1) /\ ~ (s - q >= 1)
  BY <1>1, AtLeast
<1>3. q = s
  BY <1>2
<1> QED
  BY <1>3

LEMMA Quotient ==
  ASSUME NEW a \in Nat, NEW n \in Nat \ {0}
  PROVE  \E q \in Nat, r \in 0 .. n - 1 : a = (n * q) + r /\ a % n = r /\ a \div n = q
BY Divides

LEMMA Remainder ==
  ASSUME NEW n \in Nat \ {0}, NEW q \in Int, NEW r \in 0 .. n - 1, NEW a \in Nat, a = (n * q) + r
  PROVE  a % n = r /\ a \div n = q
<1>1. (n * (a \div n)) + (a % n) = (n * q) + r /\ a \div n \in Int /\ a % n \in 0 .. n - 1
  BY Divides
<1> QED
  BY <1>1, Unique

\* A remainder that is added to.
LEMMA AddToRemainder ==
  ASSUME NEW a \in Nat, NEW b \in Nat, NEW n \in Nat \ {0}
  PROVE  ((a % n) + b) % n = (a + b) % n
<1>1. PICK q \in Nat, r \in 0 .. n - 1 : a = (n * q) + r /\ a % n = r
  BY Quotient
<1>2. r + b \in Nat
  OBVIOUS
<1>3. PICK s \in Nat, t \in 0 .. n - 1 : r + b = (n * s) + t /\ (r + b) % n = t
  BY <1>2, Quotient
<1>4. PICK d \in Int : d = q + s
  OBVIOUS
<1>5. PICK c \in Nat : c = a + b
  OBVIOUS
<1>6. c = (n * d) + t
  BY <1>1, <1>3, <1>4, <1>5, Distributes
<1>7. c % n = t
  BY <1>6, Remainder
<1> QED
  BY <1>1, <1>3, <1>5, <1>7

\* Whole numbers of chunks: of one unit or of two.
LEMMA WholeRemainder ==
  ASSUME NEW k \in {1, 2}, NEW a \in Nat, NEW n \in Nat \ {0}, a % k = 0, n % k = 0
  PROVE  (a % n) % k = 0
<1>1. PICK q \in Nat, r \in 0 .. n - 1 : a = (n * q) + r /\ a % n = r
  BY Quotient
<1>2. CASE k = 1
  BY <1>1, <1>2
<1>3. CASE k = 2
  <2>1. PICK h \in Nat : n = 2 * h
    BY <1>3
  <2>2. PICK m \in Nat : m = h * q
    OBVIOUS
  <2>3. n * q = 2 * m
    BY <2>1, <2>2
  <2>4. r % 2 = 0
    BY <1>1, <1>3, <2>3
  <2> QED
    BY <1>1, <1>3, <2>4
<1> QED
  BY <1>2, <1>3

\* A chunk is within its page.
LEMMA WithinPage ==
  ASSUME NEW k \in {1, 2}, NEW n \in Nat \ {0}, n % k = 0, NEW a \in Nat, a % k = 0,
         NEW j \in Nat, j < k
  PROVE  (a % n) + j < n
<1>1. PICK q \in Nat, r \in 0 .. n - 1 : a = (n * q) + r /\ a % n = r
  BY Quotient
<1>2. r % k = 0
  BY <1>1, WholeRemainder
<1> QED
  BY <1>1, <1>2

\* A unit on the same page as an address, and how far it is from it.
LEMMA OnPage ==
  ASSUME NEW n \in Nat \ {0}, NEW a \in Nat, NEW j \in Nat, (a % n) + j < n
  PROVE  \E b, c \in Nat : /\ b = a + j /\ b \div n = a \div n
                           /\ c = a + j + n - (a % n) /\ c % n = j
<1>1. PICK q \in Nat, r \in 0 .. n - 1 : a = (n * q) + r /\ a % n = r /\ a \div n = q
  BY Quotient
<1>a. PICK b \in Nat : b = a + j
  OBVIOUS
<1>b. PICK c \in Nat : c = a + j + n - r
  BY <1>1
<1>2. b \div n = q
  <2>1. PICK s \in 0 .. n - 1 : s = r + j
    BY <1>1
  <2>2. b = (n * q) + s
    BY <1>1, <1>a, <2>1
  <2> QED
    BY <2>2, Remainder
<1>3. c % n = j
  <2>1. PICK d \in Int : d = q + 1
    OBVIOUS
  <2>2. c = (n * d) + j
    BY <1>1, <1>b, <2>1, Distributes
  <2>3. j \in 0 .. n - 1
    BY <1>1
  <2> QED
    BY <2>2, <2>3, Remainder
<1> QED
  BY <1>1, <1>a, <1>b, <1>2, <1>3

----------------------------------------------------------------------------
(* The operators of the model *)

LEMMA Sizes ==
  /\ Size \in Nat \ {0} /\ PageSize \in Nat \ {0} /\ SectorSize \in Nat \ {0}
  /\ BlockSize \in Nat \ {0} /\ FileSize \in Nat /\ MaxErrors \in Nat
  /\ \A u : u \in Units <=> u \in Nat /\ u < Size
BY FlashRomAssumption DEF Units

LEMMA ChunkFacts ==
  ASSUME TypeOK
  PROVE  /\ Chunk(board) \in {1, 2}
         /\ Size % Chunk(board) = 0 /\ PageSize % Chunk(board) = 0
BY SpiromTestAssumption DEF TypeOK, Chunk

\* Where a command is: always in the ROM, at its start to begin with, and a step further when
\* it is one on.
LEMMA AtFacts ==
  ASSUME NEW c \in UserCommands
  PROVE  /\ Stride(c.name) \in Nat \ {0}
         /\ \A k \in Nat : At(c, k) \in Units
         /\ At(c, 0) = c.start
         /\ \A j, k \in Nat : At(c, k + j) = (At(c, k) + (j * Stride(c.name))) % Size
<1>1. PICK s \in Nat \ {0} : s = Stride(c.name)
  BY Sizes DEF Stride
<1>2. c.start \in Nat /\ c.start < Size
  BY Sizes DEF UserCommands
<1>3. \A k \in Nat : k * s \in Nat
  OBVIOUS
<1>4. ASSUME NEW k \in Nat PROVE At(c, k) \in Units
  <2>1. PICK x \in Nat : x = c.start + (k * s)
    BY <1>2, <1>3
  <2>2. x % Size \in Nat /\ x % Size < Size
    BY Sizes, Divides
  <2> QED
    BY <1>1, <2>1, <2>2, Sizes DEF At
<1>5. At(c, 0) = c.start
  <2>1. c.start + (0 * s) = (Size * 0) + c.start
    BY <1>2, Sizes
  <2>2. c.start + (0 * s) = c.start
    BY <1>2
  <2>3. c.start % Size = c.start
    BY <1>2, <2>1, <2>2, Sizes, Remainder
  <2> QED
    BY <1>1, <2>2, <2>3 DEF At
<1>6. ASSUME NEW j \in Nat, NEW k \in Nat PROVE At(c, k + j) = (At(c, k) + (j * s)) % Size
  <2>1. PICK x \in Nat : x = c.start + (k * s)
    BY <1>2, <1>3
  <2>2. PICK y \in Nat : y = j * s
    BY <1>3
  <2>3. c.start + ((k + j) * s) = x + y
    <3>1. (k + j) * s = (k * s) + (j * s)
      OBVIOUS
    <3> QED
      BY <1>2, <2>1, <2>2, <3>1
  <2>4. ((x % Size) + y) % Size = (x + y) % Size
    <3>1. Size \in Nat \ {0}
      BY Sizes
    <3> QED
      BY <3>1, AddToRemainder, Zenon
  <2>5. At(c, k) = x % Size /\ At(c, k + j) = (x + y) % Size
    BY <1>1, <2>1, <2>3, Zenon DEF At
  <2> QED
    BY <2>2, <2>4, <2>5, Zenon
<1> QED
  BY <1>1, <1>4, <1>5, <1>6

Erases == {"chiperase", "sectorerase", "blockerase"}

\* The range of a command, piece by piece.
LEMMA RangeOfErase ==
  ASSUME NEW c \in UserCommands, c.name \in Erases, c.name = "chiperase" => c.length = 1
  PROVE  Range(c) = UNION {Piece(c, i) : i \in 0 .. c.length - 1}
<1>1. CASE c.name = "chiperase"
  <2>1. 0 .. c.length - 1 = {0}
    BY <1>1
  <2>2. Range(c) = Units /\ \A i : Piece(c, i) = Units
    BY <1>1 DEF Range, Piece
  <2> QED
    BY <2>1, <2>2
<1>2. CASE c.name = "sectorerase"
  BY <1>2 DEF Range, Piece, At, Stride
<1>3. CASE c.name = "blockerase"
  BY <1>3 DEF Range, Piece, At, Stride
<1> QED
  BY <1>1, <1>2, <1>3 DEF Erases

LEMMA RangeOfWrite ==
  ASSUME NEW c \in UserCommands, c.name = "write"
  PROVE  /\ Stride(c.name) = 1
         /\ \A k \in Nat : At(c, k) = (c.start + k) % Size
         /\ Range(c) = {At(c, i) : i \in 0 .. c.length - 1}
<1>1. Stride(c.name) = 1
  BY DEF Stride
<1>2. \A k \in Nat : At(c, k) = (c.start + k) % Size
  BY <1>1 DEF At
<1>3. c.length \in Nat
  BY DEF UserCommands
<1> QED
  BY <1>1, <1>2, <1>3 DEF Range

\* The command that a program sends when it is to change something: of its range, and for the
\* piece it is at.
LEMMA ChangeFacts ==
  ASSUME TypeOK, RecordsOK, FlowInv, NEW p \in Programs, pc[p] = "change"
  PROVE  LET c == cmd[p]
             k == c.length - c.left
             d == ChangeCommand(p)
         IN /\ d \in RomCommands /\ d.op \in Changing /\ d # Idle
            /\ c.name \in Erases => d.op # "WRITE" /\ Changes(d) = Piece(c, k)
            /\ c.name = "write" =>
                 d.op = "WRITE" /\ d.at = At(c, k) /\ d.len = Taken(p) /\ d.from = k
            /\ Changes(d) \subseteq Reach(c)
<1> DEFINE c == cmd[p]
           k == c.length - c.left
           d == ChangeCommand(p)
<1>1. c \in UserCommands /\ c.name \in Erases \cup {"write"}
  BY DEF RecordsOK, FlowInv, Flow, Erases
<1>2. k \in 0 .. c.length - 1 /\ c.addr = At(c, k) /\ c.addr \in Units
  BY <1>1 DEF TypeOK, FlowInv, Flow, UserCommands
<1>3. c.name = "chiperase" => c.length = 1
  BY DEF FlowInv, Flow
<1>4. Taken(p) \in Nat
  BY <1>1, ChunkFacts DEF Taken, UserCommands
<1> HIDE DEF c, k
<1>5. d.op \in Changing => d # Idle
  BY DEF Changing, Idle, Plain, Command
<1>6. CASE c.name \in Erases
  <2>1. d \in RomCommands /\ d.op \in Changing /\ d.op # "WRITE"
    BY <1>2, <1>6, Sizes DEF ChangeCommand, Plain, Command, RomCommands, Changing, Erases, c
  <2>2. Changes(d) = Piece(c, k)
    BY <1>2, <1>6 DEF ChangeCommand, Plain, Command, Changes, Piece, Erases, c
  <2>3. Changes(d) \subseteq Reach(c)
    BY <1>1, <1>2, <1>3, <1>6, <2>2, RangeOfErase DEF Reach, Erases
  <2> QED
    BY <1>5, <1>6, <2>1, <2>2, <2>3 DEF c, k, Erases
<1>7. CASE c.name = "write"
  <2>1. d = Command("WRITE", c.addr, Taken(p), k)
    BY <1>7 DEF ChangeCommand, c, k
  <2>2. /\ d \in RomCommands /\ d.op = "WRITE" /\ d.op \in Changing
        /\ d.at = At(c, k) /\ d.len = Taken(p) /\ d.from = k
    <3>1. k \in Nat
      BY <1>2
    <3> QED
      BY <1>2, <1>4, <2>1, <3>1 DEF Command, RomCommands, Changing
  <2>3. Changes(d) \subseteq Aligned(At(c, k), PageSize)
    BY <2>2 DEF Changes
  <2>4. At(c, k) \in Range(c)
    BY <1>1, <1>2, <1>7, RangeOfWrite
  <2>5. Changes(d) \subseteq Reach(c)
    BY <1>7, <2>3, <2>4 DEF Reach
  <2> QED
    BY <1>5, <1>7, <2>2, <2>5 DEF c, k, Erases
<1> QED
  BY <1>1, <1>6, <1>7

----------------------------------------------------------------------------
(* Types *)

\* TypeOK and RecordsOK in two parts.
ChannelOK ==
  /\ mem \in [Units -> Contents] /\ wel \in BOOLEAN /\ errors \in 0 .. MaxErrors
  /\ job \in RomCommands /\ (job = Idle \/ job.op \in Changing)
  /\ last \in RomCommands /\ pending \in Seq(Programs)

UsersOK ==
  /\ board \in Boards /\ asked \subseteq Units /\ commands \in 0 .. MaxCommands
  /\ pc \in [Programs -> {"out", "prompt", "check", "enable", "change", "poll", "read"}]
  /\ said \in [Programs -> BOOLEAN] /\ alone \in [Programs -> BOOLEAN]
  /\ idle \in [Programs -> BOOLEAN] /\ garbled \in [Programs -> BOOLEAN]
  /\ cmd \in [Programs -> UserCommands]
  /\ \A p \in Programs : cmd[p].left <= cmd[p].length

LEMMA TypeParts == TypeOK /\ RecordsOK <=> ChannelOK /\ UsersOK
<1>1. TypeOK /\ RecordsOK => ChannelOK
  BY DEF TypeOK, RecordsOK, ChannelOK
<1>2. TypeOK /\ RecordsOK => UsersOK
  BY DEF TypeOK, RecordsOK, UsersOK, UserCommands
<1>3. ChannelOK /\ UsersOK => TypeOK /\ RecordsOK
  <2> SUFFICES ASSUME ChannelOK, UsersOK PROVE TypeOK /\ RecordsOK
    OBVIOUS
  <2>1. last.at \in Units /\ \A i \in DOMAIN pending : pending[i] \in Programs
    BY DEF ChannelOK, RomCommands
  <2>2. \A p \in Programs : /\ cmd[p].start \in Units /\ cmd[p].addr \in Units
                            /\ cmd[p].left \in 0 .. cmd[p].length
    BY DEF UsersOK, UserCommands
  <2>3. job = Idle \/ (job.op \in Changing /\ job.at \in Units)
    BY DEF ChannelOK, RomCommands
  <2> QED
    BY <2>1, <2>2, <2>3 DEF ChannelOK, UsersOK, TypeOK, RecordsOK, RomCommands
<1> QED
  BY <1>1, <1>2, <1>3

\* What the ROM makes of a command.
LEMMA ProgrammedType == \A before, i : Programmed(before, i) \in Contents
<1> SUFFICES ASSUME NEW before, NEW i PROVE Programmed(before, i) \in Contents
  OBVIOUS
<1>1. Programmed(before, i) \in {"file", "zero", "mixed"}
  BY Zenon DEF Programmed
<1> QED
  BY <1>1 DEF Contents

LEMMA ResultType ==
  ASSUME ChannelOK, NEW c
  PROVE  Result(c) \in [Units -> Contents]
<1>1. \A u \in Units : mem[u] \in Contents /\ "blank" \in Contents
  BY DEF ChannelOK, Contents
<1> QED
  BY <1>1, ProgrammedType DEF Result

LEMMA ExecuteType ==
  ASSUME ChannelOK, NEW c \in RomCommands, Execute(c)
  PROVE  /\ wel' \in BOOLEAN /\ mem' = mem
         /\ job' \in RomCommands /\ (job' = Idle \/ job'.op \in Changing)
<1>1. wel' \in BOOLEAN
  BY Zenon DEF Execute, ChannelOK
<1>2. job' = job \/ (job' = c /\ c.op \in Changing)
  BY DEF Execute
<1> QED
  BY <1>1, <1>2 DEF Execute, ChannelOK

LEMMA KeptType ==
  ASSUME NEW c \in RomCommands
  PROVE  Kept(c) \in RomCommands /\ (Kept(c) = Idle \/ Kept(c) = c)
BY Sizes DEF Kept, Idle, Plain, Command, RomCommands

LEMMA ObeysType ==
  ASSUME ChannelOK, NEW c \in RomCommands, Obeys(c)
  PROVE  /\ wel' \in BOOLEAN /\ mem' = mem /\ last' \in RomCommands
         /\ job' \in RomCommands /\ (job' = Idle \/ job'.op \in Changing)
BY ExecuteType, KeptType DEF Obeys

\* What becomes of the queue: a message goes or comes, or its place is another process's now.
LEMMA QueueType ==
  ASSUME pending \in Seq(Programs), NEW p \in Programs
  PROVE  /\ Append(pending, p) \in Seq(Programs) /\ Append(pending, p) # << >>
         /\ pending # << >> => Tail(pending) \in Seq(Programs)
         /\ \A i \in DOMAIN pending : pending # << >>
         /\ \A S : Inherits(p, S) =>
              pending' \in Seq(Programs) /\ (pending' = << >> => pending = << >>)
<1>1. ASSUME NEW S, Inherits(p, S)
      PROVE  pending' \in Seq(Programs) /\ (pending' = << >> => pending = << >>)
  <2>1. PICK n \in Nat : DOMAIN pending = 1 .. n /\ n = Len(pending)
    OBVIOUS
  <2>2. PICK T : pending' = [i \in 1 .. n |-> IF i \in T THEN p ELSE pending[i]]
    BY <1>1, <2>1 DEF Inherits
  <2>3. \A i \in 1 .. n : pending'[i] \in Programs
    BY <2>1, <2>2
  <2>4. pending' \in Seq(Programs) /\ Len(pending') = n
    BY <2>2, <2>3
  <2> QED
    BY <2>1, <2>4
<1> QED
  BY <1>1

LEMMA AnsweredType ==
  ASSUME ChannelOK, NEW p \in Programs, NEW c \in RomCommands, Answered(p, c)
  PROVE  ChannelOK'
<1>1. pending' \in Seq(Programs)
  BY QueueType DEF Answered, Confused, ChannelOK
<1>2. Obeys(c) \/ UNCHANGED <<rom, last>>
  BY DEF Answered
<1> QED
  BY <1>1, <1>2, ObeysType DEF Answered, ChannelOK, rom

LEMMA FailsType ==
  ASSUME ChannelOK, NEW p \in Programs, NEW c \in RomCommands, Fails(p, c)
  PROVE  ChannelOK'
<1>1. pending' \in Seq(Programs)
  BY QueueType DEF Fails, ChannelOK
<1>2. last' \in RomCommands
  BY KeptType DEF Fails, ChannelOK
<1>3. errors' \in 0 .. MaxErrors
  BY Sizes DEF Fails, ChannelOK
<1> QED
  BY <1>1, <1>2, <1>3 DEF Fails, rom, ChannelOK

LEMMA InheritsType ==
  ASSUME ChannelOK, NEW p \in Programs, NEW S, Inherits(p, S), UNCHANGED <<rom, last, errors>>
  PROVE  ChannelOK'
<1>1. pending' \in Seq(Programs)
  BY QueueType DEF ChannelOK
<1> QED
  BY <1>1 DEF rom, ChannelOK

LEMMA RomType ==
  ASSUME ChannelOK, Rom
  PROVE  ChannelOK'
<1>1. CASE RomFinishes
  <2>1. mem' \in [Units -> Contents]
    BY <1>1, ResultType DEF RomFinishes
  <2>2. Idle \in RomCommands
    BY Sizes DEF Idle, Plain, Command, RomCommands
  <2> QED
    BY <1>1, <2>1, <2>2 DEF RomFinishes, ChannelOK
<1>2. CASE ExecutesLate
  <2>1. last \in RomCommands /\ pending' \in Seq(Programs)
    BY <1>2 DEF ExecutesLate, ChannelOK
  <2>2. /\ wel' \in BOOLEAN /\ mem' = mem
        /\ job' \in RomCommands /\ (job' = Idle \/ job'.op \in Changing)
    BY <1>2, <2>1, ExecuteType DEF ExecutesLate
  <2> QED
    BY <1>2, <2>1, <2>2 DEF ExecutesLate, ChannelOK
<1> QED
  BY <1>1, <1>2 DEF Rom

LEMMA PlainType == \A op \in Simple \cup {"CHIP_ERASE"} : Plain(op) \in RomCommands
BY Sizes DEF Plain, Command, RomCommands, Changing

\* A command of a process that changes something is the one it is at, and the other processes
\* are not alone after it.
Sends(p, c) ==
  /\ Answered(p, c) \/ Fails(p, c)
  /\ c.op \in Changing => pc[p] = "change" /\ c = ChangeCommand(p)
  /\ c.op = "WRDI" => pc[p] = "prompt"
  /\ Disturbs(c) => Others(p, c)

\* A process that is started may have the stack of one that has ended.
Starts(p) ==
  /\ pc[p] = "out" /\ Inherits(p, {q \in Programs : pc[q] = "out"})
  /\ UNCHANGED <<rom, last, errors>>

ProcessStep(p) == SetDevice(p) \/ One(p) \/ Begin(p) \/ ProgramStep(p) \/ Ends(p)

LEMMA NextCases == [Next]_vars => (\E p \in Programs : ProcessStep(p)) \/ Rom \/ UNCHANGED vars
BY DEF Next, ProcessStep

LEMMA Talks ==
  ASSUME TypeOK, RecordsOK, FlowInv, NEW p \in Programs, ProcessStep(p)
  PROVE  UNCHANGED channel \/ Starts(p) \/ \E c \in RomCommands : Sends(p, c)
<1> DEFINE Goal == UNCHANGED channel \/ Starts(p) \/ \E c \in RomCommands : Sends(p, c)
<1>a. \A op \in Simple : Plain(op) \in RomCommands /\ Plain(op).op = op /\ op \notin Changing
  BY PlainType DEF Plain, Command, Simple, Changing
<1>b. ASSUME NEW op \in Simple \ {"WRDI"}, Answered(p, Plain(op)) \/ Fails(p, Plain(op)) PROVE Goal
  BY <1>a, <1>b DEF Sends, Disturbs
<1>1. CASE SetDevice(p) \/ Begin(p) \/ Ends(p)
  BY <1>1 DEF SetDevice, Starts, Begin, Ends
<1>2. CASE One(p)
  <2>1. PICK op \in Simple : /\ Answered(p, Plain(op)) \/ Fails(p, Plain(op))
                             /\ Others(p, Plain(op)) /\ pc[p] = "prompt"
    BY <1>2 DEF One
  <2>2. Sends(p, Plain(op))
    BY <1>a, <2>1 DEF Sends
  <2> QED
    BY <1>a, <2>2
<1>3. CASE Check(p) \/ Poll(p)
  BY <1>b, <1>3 DEF Check, Poll, GivesUp, Simple
<1>4. CASE Enable(p)
  BY <1>b, <1>4 DEF Enable, GivesUp, Simple
<1>5. CASE Change(p)
  <2>1. /\ pc[p] = "change" /\ Others(p, ChangeCommand(p))
        /\ Answered(p, ChangeCommand(p)) \/ Fails(p, ChangeCommand(p))
    BY <1>5 DEF Change, GivesUp
  <2>2. ChangeCommand(p) \in RomCommands /\ ChangeCommand(p).op \in Changing
    BY <2>1, ChangeFacts
  <2>3. Sends(p, ChangeCommand(p))
    BY <2>1, <2>2 DEF Sends, Changing
  <2> QED
    BY <2>2, <2>3
<1>6. CASE Read(p)
  <2> DEFINE c == Command("READ", cmd[p].addr, Taken(p), 0)
  <2>1. c \in RomCommands /\ c.op = "READ"
    <3>1. Taken(p) \in Nat /\ cmd[p].addr \in Units
      BY ChunkFacts DEF Taken, RecordsOK, UserCommands
    <3> QED
      BY <3>1 DEF Command, RomCommands
  <2>2. UNCHANGED channel \/ Answered(p, c) \/ Fails(p, c)
    BY <1>6 DEF Read, GivesUp
  <2>3. UNCHANGED channel \/ Sends(p, c)
    BY <2>1, <2>2 DEF Sends, Changing, Disturbs
  <2> QED
    BY <2>1, <2>3
<1> QED
  BY <1>1, <1>2, <1>3, <1>4, <1>5, <1>6 DEF ProcessStep, ProgramStep

LEMMA ChannelStep ==
  ASSUME TypeOK, RecordsOK, FlowInv, [Next]_vars
  PROVE  ChannelOK'
<1>1. ChannelOK
  BY TypeParts
<1>2. CASE UNCHANGED channel
  BY <1>1, <1>2 DEF channel, rom, ChannelOK
<1>3. ASSUME NEW p \in Programs, ProcessStep(p) PROVE ChannelOK'
  BY <1>1, <1>2, <1>3, Talks, AnsweredType, FailsType, InheritsType DEF Sends, Starts
<1> QED
  BY <1>1, <1>2, <1>3, NextCases, RomType DEF vars

----------------------------------------------------------------------------
(* The course of a command *)

\* A step of the loop: a piece is done, and the address is that of the next.
LEMMA AdvanceFacts ==
  ASSUME TypeOK, RecordsOK, FlowInv, NEW p \in Programs,
         cmd[p].left > 0, cmd[p].name # "none", Advance(p)
  PROVE  LET c == cmd[p]
             d == cmd'[p]
         IN /\ cmd' \in [Programs -> UserCommands]
            /\ \A q \in Programs \ {p} : cmd'[q] = cmd[q]
            /\ d.name = c.name /\ d.start = c.start /\ d.length = c.length
            /\ Taken(p) \in 1 .. c.left /\ d.left = c.left - Taken(p)
            /\ c.name \in Erases => Taken(p) = 1
            /\ c.name \notin Erases => /\ Taken(p) <= Chunk(board)
                                       /\ d.left > 0 => Taken(p) = Chunk(board)
            /\ d.left > 0 => d.addr = At(d, d.length - d.left)
<1> DEFINE c == cmd[p]
           d == cmd'[p]
           k == c.length - c.left
<1>1. c \in UserCommands /\ c.left \in 1 .. c.length /\ k \in Nat /\ c.addr = At(c, k)
  BY DEF TypeOK, RecordsOK, FlowInv, Flow, UserCommands
<1>2. Chunk(board) \in {1, 2}
  BY ChunkFacts
<1>3. /\ Taken(p) \in 1 .. c.left
      /\ c.name \in Erases => Taken(p) = 1
      /\ c.name \notin Erases => /\ Taken(p) <= Chunk(board)
                                 /\ Taken(p) < Chunk(board) => Taken(p) = c.left
  BY <1>1, <1>2 DEF Taken, Erases, UserCommands, Names
<1>4. PICK a \in Nat, l \in Nat :
        /\ a = (c.addr + Step(c.name)) % Size /\ l = c.left - Taken(p) /\ a \in Units
  <2>1. c.addr + Step(c.name) \in Nat
    BY <1>1, <1>2, Sizes DEF Step, UserCommands
  <2>2. (c.addr + Step(c.name)) % Size \in 0 .. Size - 1
    BY <2>1, Sizes, Divides
  <2> QED
    BY <1>1, <1>3, <2>2, Sizes
<1>5. cmd' = [cmd EXCEPT ![p] = [c EXCEPT !.addr = a, !.left = l]]
  BY <1>4, Zenon DEF Advance
<1>6. d = [c EXCEPT !.addr = a, !.left = l]
  BY <1>5 DEF RecordsOK
<1>7. d \in UserCommands
  BY <1>1, <1>4, <1>6 DEF UserCommands
<1>8. /\ d.name = c.name /\ d.start = c.start /\ d.length = c.length
      /\ d.addr = a /\ d.left = l
  BY <1>1, <1>6 DEF UserCommands
<1>9. cmd' \in [Programs -> UserCommands] /\ \A q \in Programs \ {p} : cmd'[q] = cmd[q]
  BY <1>5, <1>6, <1>7 DEF RecordsOK
<1>10. l > 0 => a = At(c, k + Taken(p))
  <2> SUFFICES ASSUME l > 0 PROVE a = At(c, k + Taken(p))
    OBVIOUS
  <2>1. Taken(p) * Stride(c.name) = Step(c.name)
    <3>1. CASE c.name = "sectorerase" \/ c.name = "blockerase"
      BY <1>3, <3>1, Sizes DEF Step, Stride, Erases
    <3>2. CASE c.name = "read" \/ c.name = "write"
      <4>1. Taken(p) = Chunk(board) /\ Stride(c.name) = 1 /\ Step(c.name) = Chunk(board)
        BY <1>2, <1>3, <1>4, <3>2 DEF Erases, Stride, Step
      <4> QED
        BY <1>2, <4>1
    <3>3. c.name # "chiperase"
      BY <1>1, <1>3, <1>4 DEF FlowInv, Flow
    <3> QED
      BY <1>1, <3>1, <3>2, <3>3 DEF UserCommands, Names
  <2>2. At(c, k + Taken(p)) = (At(c, k) + (Taken(p) * Stride(c.name))) % Size
    <3>1. c \in UserCommands /\ k \in Nat /\ Taken(p) \in Nat
      BY <1>1, <1>3
    <3> HIDE DEF c, k
    <3>2. \A i, j \in Nat : At(c, j + i) = (At(c, j) + (i * Stride(c.name))) % Size
      BY <3>1, AtFacts
    <3> QED
      BY <3>1, <3>2
  <2> QED
    BY <1>1, <1>4, <2>1, <2>2
<1>11. d.left > 0 => d.addr = At(d, d.length - d.left)
  <2>1. d.length - d.left = k + Taken(p)
    BY <1>1, <1>3, <1>4, <1>8 DEF UserCommands
  <2>2. \A i : At(d, i) = At(c, i)
    BY <1>8 DEF At
  <2> QED
    BY <1>8, <1>10, <2>1, <2>2
<1>12. c.name \notin Erases /\ d.left > 0 => Taken(p) = Chunk(board)
  BY <1>1, <1>2, <1>3, <1>4, <1>8 DEF UserCommands
<1> QED
  BY <1>3, <1>4, <1>8, <1>9, <1>11, <1>12

\* Nobody but p itself changes what is said of p, but that p is not alone any more.
LEMMA Local ==
  ASSUME TypeOK, RecordsOK, NEW p \in Programs, ProcessStep(p), NEW q \in Programs, q # p
  PROVE  /\ pc'[q] = pc[q] /\ cmd'[q] = cmd[q] /\ said'[q] = said[q]
         /\ idle'[q] = idle[q] /\ garbled'[q] = garbled[q]
         /\ alone'[q] => alone[q]
<1> USE DEF TypeOK, RecordsOK, history, program, Others, GivesUp, Forget
<1>1. CASE SetDevice(p)
  BY <1>1 DEF SetDevice
<1>2. CASE One(p)
  BY <1>2 DEF One
<1>3. CASE Begin(p)
  BY <1>3 DEF Begin
<1>4. CASE Check(p)
  BY <1>4 DEF Check, Continue
<1>5. CASE Enable(p)
  BY <1>5 DEF Enable
<1>6. CASE Change(p)
  BY <1>6 DEF Change, Advance
<1>7. CASE Poll(p)
  BY <1>7 DEF Poll, Continue
<1>8. CASE Read(p)
  BY <1>8 DEF Read, Advance, Continue
<1>9. CASE Ends(p)
  BY <1>9 DEF Ends
<1> QED
  BY <1>1, <1>2, <1>3, <1>4, <1>5, <1>6, <1>7, <1>8, <1>9 DEF ProcessStep, ProgramStep

\* The requests become commands.
LEMMA BeginFacts ==
  ASSUME RecordsOK, NEW p \in Programs, NEW r \in Requests,
         cmd' = [cmd EXCEPT ![p] = [name |-> r.name, start |-> r.start, length |-> r.length,
                                    addr |-> r.start, left |-> r.length]]
  PROVE  /\ cmd' \in [Programs -> UserCommands]
         /\ cmd'[p].name \in Names /\ cmd'[p].name = r.name
         /\ cmd'[p].left = cmd'[p].length
         /\ cmd'[p].addr = At(cmd'[p], 0)
         /\ cmd'[p].name = "chiperase" => cmd'[p].length = 1
<1> DEFINE c == [name |-> r.name, start |-> r.start, length |-> r.length,
                 addr |-> r.start, left |-> r.length]
<1>1. /\ r.name \in Names /\ r.start \in Units /\ r.length \in Nat
      /\ r.name = "chiperase" => r.length = 1
  BY SpiromTestAssumption DEF Names
<1>2. c \in UserCommands
  BY <1>1 DEF UserCommands
<1>3. At(c, 0) = c.start
  BY <1>2, AtFacts
<1>4. cmd' \in [Programs -> UserCommands] /\ cmd'[p] = c
  BY <1>2 DEF RecordsOK
<1> QED
  BY <1>1, <1>3, <1>4

\* A command is forgotten.
LEMMA ForgetFacts ==
  ASSUME UsersOK, NEW p \in Programs, Forget(p)
  PROVE  /\ cmd' \in [Programs -> UserCommands] /\ cmd'[p] = NoCommand
         /\ said' \in [Programs -> BOOLEAN] /\ ~ said'[p]
         /\ idle' \in [Programs -> BOOLEAN]
         /\ garbled' \in [Programs -> BOOLEAN] /\ ~ garbled'[p]
<1>1. NoCommand \in UserCommands
  BY Sizes DEF NoCommand, UserCommands
<1> QED
  BY <1>1 DEF Forget, UsersOK

\* The history of who else was at work stays a table.
LEMMA OthersType ==
  ASSUME UsersOK, NEW p, NEW c, Others(p, c)
  PROVE  alone' \in [Programs -> BOOLEAN]
<1>1. \A q \in Programs : (alone[q] /\ (q = p \/ cmd[q] = NoCommand \/ ~ Disturbs(c))) \in BOOLEAN
  OBVIOUS
<1> QED
  BY <1>1, Zenon DEF Others

\* The types of the users after a step of one of them.
LEMMA UsersStep ==
  ASSUME TypeOK, RecordsOK, FlowInv, NEW p \in Programs, ProcessStep(p)
  PROVE  UsersOK'
<1>a. UsersOK
  BY TypeParts
<1>b. \A q \in Programs : cmd'[q] \in UserCommands => cmd'[q].length \in Nat /\ cmd'[q].left \in Nat
  BY DEF UserCommands
<1>c. \A q \in Programs \ {p} : cmd'[q] = cmd[q]
  BY Local
<1>d. NoCommand.left <= NoCommand.length
  BY DEF NoCommand
<1>e. ASSUME NEW c, GivesUp(p, c) PROVE UsersOK'
  BY <1>a, <1>c, <1>d, <1>e, ForgetFacts, OthersType DEF GivesUp, UsersOK
<1>f. ASSUME NEW left, NEW next \in {"change", "enable", "read"}, Continue(p, left, next)
      PROVE  /\ said' \in [Programs -> BOOLEAN]
             /\ pc' \in [Programs -> {"out", "prompt", "check", "enable", "change", "poll", "read"}]
  <2>1. /\ (left = 0) \in BOOLEAN
        /\ (IF left = 0 THEN "prompt" ELSE next) \in {"prompt", "change", "enable", "read"}
    OBVIOUS
  <2>2. said' \in [Programs -> BOOLEAN]
    <3>1. PICK b \in BOOLEAN : b = (left = 0)
      OBVIOUS
    <3>2. said' = [said EXCEPT ![p] = b]
      BY <1>f, <3>1, Zenon DEF Continue
    <3> QED
      BY <1>a, <3>2 DEF UsersOK
  <2> QED
    BY <1>a, <1>f, <2>1, <2>2 DEF Continue, UsersOK
<1>1. CASE SetDevice(p)
  BY <1>a, <1>1 DEF SetDevice, UsersOK, history
<1>2. CASE One(p)
  BY <1>a, <1>2, OthersType DEF One, UsersOK
<1>3. CASE Begin(p)
  <2>1. PICK r \in Requests :
          /\ cmd' = [cmd EXCEPT ![p] = [name |-> r.name, start |-> r.start, length |-> r.length,
                                       addr |-> r.start, left |-> r.length]]
          /\ pc' = [pc EXCEPT ![p] = IF r.name = "read" THEN "read" ELSE "check"]
    BY <1>3 DEF Begin
  <2>2. idle' \in [Programs -> BOOLEAN]
    <3>1. PICK b \in BOOLEAN : b = (job = Idle /\ pending = << >>)
      OBVIOUS
    <3>2. idle' = [idle EXCEPT ![p] = b]
      BY <1>3, <3>1, Zenon DEF Begin
    <3> QED
      BY <1>a, <3>2 DEF UsersOK
  <2>3. /\ cmd' \in [Programs -> UserCommands]
        /\ \A q \in Programs : cmd'[q].left <= cmd'[q].length
    <3>1. cmd' \in [Programs -> UserCommands] /\ cmd'[p].left = cmd'[p].length
      BY <2>1, BeginFacts
    <3>2. cmd'[p].left <= cmd'[p].length
      BY <1>b, <3>1
    <3> QED
      BY <1>a, <1>c, <3>1, <3>2 DEF UsersOK
  <2>4. commands' \in 0 .. MaxCommands
    BY <1>a, <1>3, SpiromTestAssumption DEF Begin, UsersOK
  <2> QED
    BY <1>a, <1>3, <2>1, <2>2, <2>3, <2>4 DEF Begin, UsersOK
<1>4. CASE Check(p)
  <2>1. CASE GivesUp(p, Plain("RDSR"))
    BY <1>e, <2>1
  <2>2. CASE /\ Continue(p, cmd[p].left, IF cmd[p].name = "chiperase" THEN "change" ELSE "enable")
             /\ asked' = asked \cup Reach(cmd[p])
             /\ UNCHANGED <<board, cmd, alone, idle, garbled, commands>>
    <3>1. Reach(cmd[p]) \subseteq Units
      <4>1. cmd[p] \in UserCommands /\ cmd[p].name \in Names
        BY <1>4 DEF Check, RecordsOK, FlowInv, Flow, Names
      <4>2. \A u, n : Aligned(u, n) \subseteq Units
        BY DEF Aligned
      <4>3. Range(cmd[p]) \subseteq Units \/ cmd[p].name \in {"read", "write"}
        BY <4>1, <4>2 DEF Range, Names
      <4>4. cmd[p].name # "read"
        BY <1>4 DEF Check, FlowInv, Flow
      <4> QED
        BY <4>2, <4>3, <4>4 DEF Reach
    <3>2. (IF cmd[p].name = "chiperase" THEN "change" ELSE "enable") \in {"change", "enable", "read"}
      OBVIOUS
    <3> QED
      BY <1>a, <1>f, <2>2, <3>1, <3>2 DEF UsersOK
  <2>3. CASE /\ pc' = [pc EXCEPT ![p] = "prompt"] /\ Forget(p)
             /\ UNCHANGED <<board, alone, asked, commands>>
    BY <1>a, <1>b, <1>c, <1>d, <2>3, ForgetFacts DEF UsersOK
  <2> QED
    BY <1>4, <2>1, <2>2, <2>3 DEF Check, Reach
<1>5. CASE Enable(p)
  BY <1>a, <1>e, <1>5 DEF Enable, UsersOK, history
<1>6. CASE Change(p)
  <2>1. CASE GivesUp(p, ChangeCommand(p))
    BY <1>e, <2>1
  <2>2. CASE /\ Others(p, ChangeCommand(p)) /\ Advance(p) /\ pc' = [pc EXCEPT ![p] = "poll"]
             /\ UNCHANGED <<board, said, idle, garbled, asked, commands>>
    <3>1. cmd[p].left > 0 /\ cmd[p].name # "none"
      BY <1>6 DEF Change, FlowInv, Flow
    <3>2. cmd' \in [Programs -> UserCommands] /\ cmd'[p].left <= cmd'[p].length
      BY <1>a, <2>2, <3>1, AdvanceFacts DEF UsersOK, UserCommands
    <3> QED
      BY <1>a, <1>c, <2>2, <3>2, OthersType DEF UsersOK
  <2> QED
    BY <1>6, <2>1, <2>2 DEF Change
<1>7. CASE Poll(p)
  <2>1. CASE GivesUp(p, Plain("RDSR"))
    BY <1>e, <2>1
  <2>2. CASE /\ Continue(p, cmd[p].left, "enable") \/ UNCHANGED <<pc, said>>
             /\ UNCHANGED <<board, cmd, alone, idle, garbled, asked, commands>>
    BY <1>a, <1>f, <2>2 DEF UsersOK
  <2> QED
    BY <1>7, <2>1, <2>2 DEF Poll
<1>8. CASE Read(p)
  <2>1. ASSUME NEW c, GivesUp(p, c) PROVE UsersOK'
    BY <1>e, <2>1
  <2>2. CASE /\ Continue(p, 0, "read")
             /\ UNCHANGED <<board, cmd, alone, idle, garbled, asked, commands>>
    BY <1>a, <1>f, <2>2 DEF UsersOK
  <2>3. CASE /\ cmd[p].left > 0
             /\ garbled' = [garbled EXCEPT ![p] = @ \/ job # Idle \/ Confused(p)]
             /\ Advance(p) /\ Continue(p, cmd[p].left - Taken(p), "read")
             /\ UNCHANGED <<board, alone, idle, asked, commands>>
    <3>1. cmd[p].name # "none"
      BY <1>8 DEF Read, FlowInv, Flow
    <3>2. cmd' \in [Programs -> UserCommands] /\ cmd'[p].left <= cmd'[p].length
      BY <1>a, <2>3, <3>1, AdvanceFacts DEF UsersOK, UserCommands
    <3>3. PICK b \in BOOLEAN : b = (garbled[p] \/ job # Idle \/ Confused(p))
      OBVIOUS
    <3>4. garbled' = [garbled EXCEPT ![p] = b]
      BY <2>3, <3>3, Zenon
    <3>5. garbled' \in [Programs -> BOOLEAN]
      BY <1>a, <3>4 DEF UsersOK
    <3> QED
      BY <1>a, <1>c, <1>f, <2>3, <3>2, <3>5 DEF UsersOK
  <2> QED
    BY <1>8, <2>1, <2>2, <2>3 DEF Read
<1>9. CASE Ends(p)
  <2>1. alone' \in [Programs -> BOOLEAN]
    BY <1>a, <1>9 DEF Ends, UsersOK
  <2> QED
    BY <1>a, <1>b, <1>c, <1>d, <1>9, <2>1, ForgetFacts DEF Ends, UsersOK
<1> QED
  BY <1>1, <1>2, <1>3, <1>4, <1>5, <1>6, <1>7, <1>8, <1>9 DEF ProcessStep, ProgramStep

\* The course of the process that takes the step; that of the others does not change.
LEMMA FlowStep ==
  ASSUME TypeOK, RecordsOK, FlowInv, NEW p \in Programs, ProcessStep(p)
  PROVE  FlowInv'
<1>q. \A q \in Programs \ {p} : Flow(q)'
  BY Local DEF FlowInv, Flow
<1> SUFFICES Flow(p)'
  BY <1>q DEF FlowInv
<1>a. /\ Flow(p) /\ UsersOK /\ UsersOK'
      /\ cmd[p] \in UserCommands /\ cmd'[p] \in UserCommands
      /\ cmd[p].length - cmd[p].left \in Nat
  <2>1. Flow(p) /\ UsersOK /\ UsersOK'
    BY TypeParts, UsersStep DEF FlowInv
  <2> QED
    BY <2>1 DEF UsersOK, UserCommands
<1>b. NoCommand.name = "none" /\ NoCommand.left = 0
  BY DEF NoCommand
<1>c. ASSUME NEW c, GivesUp(p, c) PROVE Flow(p)'
  BY <1>a, <1>b, <1>c, ForgetFacts DEF GivesUp, Flow, UsersOK
<1>d. ASSUME NEW left, NEW next, Continue(p, left, next)
      PROVE  /\ said'[p] <=> left = 0
             /\ pc'[p] = IF left = 0 THEN "prompt" ELSE next
  BY <1>a, <1>d DEF Continue, UsersOK
<1>1. CASE SetDevice(p)
  BY <1>a, <1>1 DEF SetDevice, Flow, UsersOK, history
<1>2. CASE One(p)
  BY <1>a, <1>2 DEF One, Flow
<1>3. CASE Begin(p)
  <2>1. PICK r \in Requests :
          /\ cmd' = [cmd EXCEPT ![p] = [name |-> r.name, start |-> r.start, length |-> r.length,
                                       addr |-> r.start, left |-> r.length]]
          /\ pc' = [pc EXCEPT ![p] = IF r.name = "read" THEN "read" ELSE "check"]
    BY <1>3 DEF Begin
  <2>2. /\ cmd'[p].name \in Names /\ cmd'[p].left = cmd'[p].length
        /\ cmd'[p].length - cmd'[p].left = 0
        /\ cmd'[p].addr = At(cmd'[p], 0)
        /\ cmd'[p].name = "chiperase" => cmd'[p].length = 1
        /\ cmd'[p].name = r.name
    <3>1. /\ cmd'[p].name \in Names /\ cmd'[p].left = cmd'[p].length
          /\ cmd'[p].addr = At(cmd'[p], 0)
          /\ cmd'[p].name = "chiperase" => cmd'[p].length = 1
          /\ cmd'[p].name = r.name
      BY <2>1, BeginFacts
    <3>2. cmd'[p].length - cmd'[p].left = 0
      BY <1>a, <3>1 DEF UserCommands
    <3> QED
      BY <3>1, <3>2
  <2>3. pc'[p] = IF r.name = "read" THEN "read" ELSE "check"
    BY <1>a, <2>1 DEF UsersOK
  <2>4. ~ said'[p] /\ ~ garbled'[p]
    BY <1>a, <1>3 DEF Begin, UsersOK
  <2> QED
    BY <2>2, <2>3, <2>4 DEF Flow, Names
<1>4. CASE Check(p)
  <2>1. CASE GivesUp(p, Plain("RDSR"))
    BY <1>c, <2>1
  <2>2. CASE /\ Continue(p, cmd[p].left, IF cmd[p].name = "chiperase" THEN "change" ELSE "enable")
             /\ UNCHANGED <<board, cmd, alone, idle, garbled, commands>>
    <3>1. cmd[p].left # 0 => cmd[p].left > 0
      BY <1>a DEF UserCommands
    <3> QED
      BY <1>a, <1>d, <1>4, <2>2, <3>1 DEF Check, Flow
  <2>3. CASE pc' = [pc EXCEPT ![p] = "prompt"] /\ Forget(p)
    BY <1>a, <1>b, <2>3, ForgetFacts DEF Flow, UsersOK
  <2> QED
    BY <1>4, <2>1, <2>2, <2>3 DEF Check
<1>5. CASE Enable(p)
  <2>1. CASE GivesUp(p, Plain("WREN"))
    BY <1>c, <2>1
  <2>2. CASE pc' = [pc EXCEPT ![p] = "change"] /\ UNCHANGED <<board, cmd, history, asked, commands>>
    BY <1>a, <1>5, <2>2 DEF Enable, Flow, UsersOK, history
  <2> QED
    BY <1>5, <2>1, <2>2 DEF Enable
<1>6. CASE Change(p)
  <2>1. CASE GivesUp(p, ChangeCommand(p))
    BY <1>c, <2>1
  <2>2. CASE /\ Advance(p) /\ pc' = [pc EXCEPT ![p] = "poll"]
             /\ UNCHANGED <<board, said, idle, garbled, asked, commands>>
    <3>1. pc[p] = "change" /\ cmd[p].left > 0 /\ cmd[p].name # "none"
      BY <1>a, <1>6 DEF Change, Flow
    <3>2. /\ cmd'[p].name = cmd[p].name /\ cmd'[p].length = cmd[p].length
          /\ cmd'[p].left > 0 => cmd'[p].addr = At(cmd'[p], cmd'[p].length - cmd'[p].left)
      BY <2>2, <3>1, AdvanceFacts
    <3> QED
      BY <1>a, <2>2, <3>1, <3>2 DEF Flow, UsersOK
  <2> QED
    BY <1>6, <2>1, <2>2 DEF Change
<1>7. CASE Poll(p)
  <2>1. CASE GivesUp(p, Plain("RDSR"))
    BY <1>c, <2>1
  <2>2. CASE /\ Continue(p, cmd[p].left, "enable") \/ UNCHANGED <<pc, said>>
             /\ UNCHANGED <<board, cmd, alone, idle, garbled, asked, commands>>
    <3>1. cmd[p].left # 0 => cmd[p].left > 0
      BY <1>a DEF UserCommands
    <3> QED
      BY <1>a, <1>d, <1>7, <2>2, <3>1 DEF Poll, Flow
  <2> QED
    BY <1>7, <2>1, <2>2 DEF Poll
<1>8. CASE Read(p)
  <2>1. ASSUME NEW c, GivesUp(p, c) PROVE Flow(p)'
    BY <1>c, <2>1
  <2>2. CASE /\ cmd[p].left = 0 /\ Continue(p, 0, "read")
             /\ UNCHANGED <<board, cmd, alone, idle, garbled, asked, commands>>
    BY <1>a, <1>d, <1>8, <2>2 DEF Read, Flow
  <2>3. CASE /\ cmd[p].left > 0
             /\ Advance(p) /\ Continue(p, cmd[p].left - Taken(p), "read")
    <3>1. pc[p] = "read" /\ cmd[p].name = "read"
      BY <1>a, <1>8 DEF Read, Flow
    <3>2. /\ cmd'[p].name = cmd[p].name /\ cmd'[p].left = cmd[p].left - Taken(p)
          /\ cmd'[p].left > 0 => cmd'[p].addr = At(cmd'[p], cmd'[p].length - cmd'[p].left)
      BY <2>3, <3>1, AdvanceFacts
    <3>3. pc'[p] \in {"prompt", "read"} /\ (said'[p] => cmd'[p].left = 0 /\ pc'[p] = "prompt")
      BY <1>d, <2>3, <3>2
    <3> QED
      BY <3>1, <3>2, <3>3 DEF Flow
  <2> QED
    BY <1>8, <2>1, <2>2, <2>3 DEF Read
<1>9. CASE Ends(p)
  BY <1>a, <1>b, <1>9, ForgetFacts DEF Ends, Flow, UsersOK
<1> QED
  BY <1>1, <1>2, <1>3, <1>4, <1>5, <1>6, <1>7, <1>8, <1>9 DEF ProcessStep, ProgramStep

----------------------------------------------------------------------------
(* Nobody else's units *)

\* What is executed is what was given; it changes nothing before it is finished.
LEMMA ExecuteFacts ==
  ASSUME NEW c, Execute(c)
  PROVE  mem' = mem /\ (job' = job \/ (job' = c /\ job = Idle /\ wel /\ c.op \in Changing))
BY DEF Execute

\* asked grows when a command finds the latch set, and the range of that command is then in it.
LEMMA AskedGrows ==
  ASSUME NEW p \in Programs, ProcessStep(p)
  PROVE  /\ asked \subseteq asked'
         /\ UNCHANGED asked \/ asked' = asked \cup Reach(cmd[p])
<1> USE DEF GivesUp
<1>1. CASE SetDevice(p) \/ One(p) \/ Begin(p) \/ Ends(p)
  BY <1>1 DEF SetDevice, One, Begin, Ends
<1>2. CASE Check(p)
  BY <1>2 DEF Check, Reach
<1>3. CASE Enable(p) \/ Change(p) \/ Poll(p) \/ Read(p)
  BY <1>3 DEF Enable, Change, Poll, Read
<1> QED
  BY <1>1, <1>2, <1>3 DEF ProcessStep, ProgramStep

\* A program that is about to change something has been asked to.
LEMMA ReachStep ==
  ASSUME TypeOK, RecordsOK, FlowInv, AskedInv, NEW p \in Programs, ProcessStep(p)
  PROVE  pc'[p] \in {"enable", "change", "poll"} => Reach(cmd'[p]) \subseteq asked'
<1> SUFFICES ASSUME pc'[p] \in {"enable", "change", "poll"} PROVE Reach(cmd'[p]) \subseteq asked'
  OBVIOUS
<1>a. pc \in [Programs -> {"out", "prompt", "check", "enable", "change", "poll", "read"}]
  BY DEF TypeOK
<1>b. asked \subseteq asked'
  BY AskedGrows
<1>c. pc[p] \in {"enable", "change", "poll"} => Reach(cmd[p]) \subseteq asked
  BY DEF AskedInv
<1>d. \A c : ~ GivesUp(p, c)
  BY <1>a DEF GivesUp
<1>e. ~ (SetDevice(p) \/ Begin(p) \/ Ends(p) \/ Read(p))
  BY <1>a, <1>d DEF SetDevice, Begin, Ends, Read, Continue
<1>1. CASE One(p)
  BY <1>a, <1>1 DEF One
<1>2. CASE Check(p)
  <2>1. asked' = asked \cup Reach(cmd[p]) /\ UNCHANGED cmd
    BY <1>a, <1>d, <1>2 DEF Check, Reach
  <2> QED
    BY <2>1
<1>3. CASE Enable(p) \/ Poll(p)
  <2>1. UNCHANGED cmd /\ pc[p] \in {"enable", "poll"}
    BY <1>a, <1>d, <1>3 DEF Enable, Poll
  <2> QED
    BY <1>b, <1>c, <2>1
<1>4. CASE Change(p)
  <2>1. pc[p] = "change" /\ Advance(p)
    BY <1>d, <1>4 DEF Change
  <2>2. cmd[p].left > 0 /\ cmd[p].name # "none"
    BY <2>1 DEF FlowInv, Flow
  <2>3. /\ cmd'[p].name = cmd[p].name /\ cmd'[p].start = cmd[p].start
        /\ cmd'[p].length = cmd[p].length
    BY <2>1, <2>2, AdvanceFacts
  <2>4. Reach(cmd'[p]) = Reach(cmd[p])
    BY <2>3 DEF Reach, Range
  <2> QED
    BY <1>b, <1>c, <2>1, <2>4
<1> QED
  BY <1>e, <1>1, <1>2, <1>3, <1>4 DEF ProcessStep, ProgramStep

\* The command in the controller stays, or is the one that is sent, or one that only reads.
LEMMA ChannelFacts ==
  ASSUME NEW p, NEW c, Answered(p, c) \/ Fails(p, c)
  PROVE  /\ mem' = mem /\ (job' = job \/ job' = c)
         /\ last' = last \/ last' = c \/ last' = Idle
BY ExecuteFacts DEF Answered, Fails, Obeys, Kept, rom

LEMMA AskedStep ==
  ASSUME TypeOK, RecordsOK, FlowInv, AskedInv, [Next]_vars
  PROVE  AskedInv'
<1>a. Idle.op \notin Changing
  BY DEF Idle, Plain, Command, Changing
<1>1. ASSUME NEW p \in Programs, ProcessStep(p) PROVE AskedInv'
  <2>1. asked \subseteq asked'
    BY <1>1, AskedGrows
  <2>3. UNCHANGED channel \/ Starts(p) \/ \E c \in RomCommands : Sends(p, c) /\ Bounded(c)
    <3>1. ASSUME NEW c \in RomCommands, Sends(p, c) PROVE Bounded(c)
      BY <3>1, ChangeFacts DEF Sends, Bounded, AskedInv
    <3> QED
      BY <1>1, <3>1, Talks
  <2>4. mem' = mem /\ Bounded(job') /\ Bounded(last')
    <3>1. CASE UNCHANGED channel \/ Starts(p)
      BY <3>1 DEF channel, rom, Starts, AskedInv, Bounded
    <3>2. ASSUME NEW c \in RomCommands, Bounded(c), Answered(p, c) \/ Fails(p, c)
          PROVE  mem' = mem /\ Bounded(job') /\ Bounded(last')
      BY <1>a, <3>2, ChannelFacts DEF Bounded, AskedInv
    <3> QED
      BY <2>3, <3>1, <3>2 DEF Sends
  <2>5. OthersUntouched'
    BY <2>1, <2>4 DEF AskedInv, OthersUntouched
  <2>6. Bounded(job)' /\ Bounded(last)'
    BY <2>1, <2>4 DEF Bounded
  <2>7. \A q \in Programs : pc'[q] \in {"enable", "change", "poll"} => Reach(cmd'[q]) \subseteq asked'
    BY <1>1, <2>1, Local, ReachStep DEF AskedInv
  <2> QED
    BY <2>5, <2>6, <2>7 DEF AskedInv
<1>2. CASE Rom
  <2>1. UNCHANGED <<asked, pc, cmd>>
    BY <1>2 DEF Rom, program
  <2>2. CASE RomFinishes
    <3>1. mem' = Result(job) /\ job' = Idle /\ UNCHANGED last /\ job # Idle
      BY <2>2 DEF RomFinishes
    <3>2. job.op \in Changing
      BY <3>1, TypeParts DEF ChannelOK
    <3>3. \A u \in Units \ asked : mem'[u] = mem[u]
      BY <3>1, <3>2 DEF AskedInv, Bounded, Result
    <3>4. OthersUntouched'
      BY <2>1, <3>3 DEF AskedInv, OthersUntouched
    <3> QED
      BY <1>a, <2>1, <3>1, <3>4 DEF AskedInv, Bounded
  <2>3. CASE ExecutesLate
    <3>1. mem' = mem /\ (job' = job \/ job' = last) /\ UNCHANGED last
      BY <2>3, ExecuteFacts DEF ExecutesLate
    <3> QED
      BY <2>1, <3>1 DEF AskedInv, Bounded, OthersUntouched
  <2> QED
    BY <1>2, <2>2, <2>3 DEF Rom
<1>3. CASE UNCHANGED vars
  BY <1>3 DEF vars, channel, rom, program, AskedInv, Bounded, OthersUntouched
<1> QED
  BY <1>1, <1>2, <1>3, NextCases

----------------------------------------------------------------------------
(* What was done *)

LEMMA ProgrammedFacts ==
  \A before : \A i \in Nat :
    /\ Programmed(before, i) \in {"file", "zero", "mixed"}
    /\ i >= FileSize \/ before = "zero" => Programmed(before, i) = "zero"
<1> SUFFICES ASSUME NEW before, NEW i \in Nat
             PROVE  /\ Programmed(before, i) \in {"file", "zero", "mixed"}
                    /\ i >= FileSize \/ before = "zero" => Programmed(before, i) = "zero"
  OBVIOUS
<1>1. CASE i >= FileSize
  BY <1>1, Sizes DEF Programmed
<1>2. CASE i < FileSize
  BY <1>2, Sizes DEF Programmed
<1> QED
  BY <1>1, <1>2, Sizes

\* A chunk is within the ROM.
LEMMA WithinRom ==
  ASSUME NEW k \in {1, 2}, NEW n \in Nat \ {0}, n % k = 0, NEW a \in 0 .. n - 1, a % k = 0,
         NEW j \in Nat, j < k
  PROVE  a + j < n /\ (a + j) % n = a + j
<1>1. a + j < n
  BY SMT
<1>2. PICK b \in Nat : b = a + j
  OBVIOUS
<1>3. b = (n * 0) + b /\ b \in 0 .. n - 1
  BY <1>1, <1>2
<1> QED
  BY <1>1, <1>2, <1>3, Remainder

\* The units of a chunk that is written, and what the ROM will make of them.
LEMMA ChunkUnits ==
  ASSUME TypeOK, NEW at \in Units, at % Chunk(board) = 0, NEW j \in Nat, j < Chunk(board)
  PROVE  /\ at + j \in Units /\ (at + j) % Size = at + j
         /\ at + j \in Aligned(at, PageSize) /\ Past(at, at + j) = j
<1>1. /\ Chunk(board) \in {1, 2} /\ Size % Chunk(board) = 0 /\ PageSize % Chunk(board) = 0
  BY ChunkFacts
<1>2. at \in 0 .. Size - 1 /\ at \in Nat
  BY Sizes
<1>3. at + j < Size /\ (at + j) % Size = at + j
  <2>1. PICK k \in {1, 2}, n \in Nat \ {0} : k = Chunk(board) /\ n = Size
    BY <1>1, Sizes
  <2>2. n % k = 0 /\ at \in 0 .. n - 1 /\ at % k = 0 /\ j < k
    BY <1>1, <1>2, <2>1
  <2>3. at + j < n /\ (at + j) % n = at + j
    BY <2>2, WithinRom
  <2> QED
    BY <2>1, <2>3, Zenon
<1>4. /\ (at + j) \div PageSize = at \div PageSize
      /\ (at + j + PageSize - (at % PageSize)) % PageSize = j
  <2>1. PICK k \in {1, 2} : k = Chunk(board)
    BY <1>1
  <2>2. PICK n \in Nat \ {0} : n = PageSize
    BY Sizes
  <2>3. n % k = 0 /\ at % k = 0 /\ j < k
    BY <1>1, <2>1, <2>2
  <2>4. (at % n) + j < n
    BY <1>2, <2>3, WithinPage
  <2>5. PICK b, c \in Nat : /\ b = at + j /\ b \div n = at \div n
                            /\ c = at + j + n - (at % n) /\ c % n = j
    <3>1. at \in Nat
      BY <1>2
    <3> QED
      BY <2>4, <3>1, OnPage, ZenonT(60)
  <2>6. (at + j) \div n = at \div n /\ (at + j + n - (at % n)) % n = j
    BY <2>5, Zenon
  <2> QED
    BY <2>2, <2>6, Zenon
<1> QED
  BY <1>2, <1>3, <1>4, Sizes DEF Aligned, Past

\* What the ROM makes of a unit when it has programmed or erased.
LEMMA ResultFacts ==
  ASSUME NEW c \in RomCommands, NEW u \in Units
  PROVE  /\ u \notin Changes(c) => Result(c)[u] = mem[u]
         /\ u \in Changes(c) /\ c.op # "WRITE" => Result(c)[u] = "blank"
         /\ u \in Changes(c) /\ c.op = "WRITE" =>
              Result(c)[u] = Programmed(mem[u], c.from + Past(c.at, u))
BY DEF Result

\* Where nothing is finished and nothing begun, the contents to come stay the same, and with
\* them what a command has done.
LEMMA ProgressKept ==
  ASSUME NEW p \in Programs, Progress(p), Final' = Final, cmd'[p] = cmd[p], board' = board
  PROVE  Progress(p)'
BY DEF Progress, Erased, Written

LEMMA FinalKept ==
  ASSUME mem' = mem, job' = job
  PROVE  Final' = Final
BY DEF Final, Result

\* The ROM obeys: the piece that a command is at is done as well.
LEMMA EraseProgress ==
  ASSUME TypeOK, RecordsOK, FlowInv, NEW p \in Programs, cmd[p].name \in Erases, pc[p] = "change",
         Erased(cmd[p], cmd[p].length - cmd[p].left), job = Idle,
         mem' = mem, job' = ChangeCommand(p), Advance(p)
  PROVE  Erased(cmd[p], cmd[p].length - cmd[p].left)'
<1> DEFINE c == cmd[p]
           k == c.length - c.left
           d == ChangeCommand(p)
<1>1. d \in RomCommands /\ d # Idle /\ d.op # "WRITE" /\ Changes(d) = Piece(c, k)
  BY ChangeFacts
<1>2. c.left > 0 /\ c.name # "none" /\ c \in UserCommands /\ k \in Nat
  BY DEF FlowInv, Flow, RecordsOK, UserCommands, TypeOK, Erases
<1>3. /\ cmd'[p].name = c.name /\ cmd'[p].start = c.start
      /\ cmd'[p].length = c.length /\ cmd'[p].left = c.left - 1
  BY <1>2, AdvanceFacts
<1>4. Final = mem /\ \A u : Final'[u] = Result(d)[u]
  BY <1>1 DEF Final, Result
<1>5. \A i : Piece(cmd'[p], i) = Piece(c, i)
  BY <1>3 DEF Piece, At
<1>6. \A i : Piece(c, i) \subseteq Units
  BY DEF Piece, Aligned, Erases
<1>7. ASSUME NEW i \in 0 .. k, NEW u \in Piece(c, i) PROVE Final'[u] = "blank"
  <2>1. u \in Units
    BY <1>6
  <2>2. u \in Changes(d) => Result(d)[u] = "blank"
    BY <1>1, <2>1, ResultFacts
  <2>3. u \notin Changes(d) => Result(d)[u] = mem[u]
    BY <1>1, <2>1, ResultFacts
  <2>4. i # k => mem[u] = "blank"
    BY <1>2, <1>4 DEF Erased
  <2> QED
    BY <1>1, <1>4, <2>2, <2>3, <2>4
<1>8. cmd'[p].length - cmd'[p].left = k + 1
  BY <1>2, <1>3 DEF UserCommands
<1>9. \A i \in 0 .. (k + 1) - 1 : \A u \in Piece(cmd'[p], i) : Final'[u] = "blank"
  BY <1>2, <1>5, <1>7
<1> QED
  BY <1>8, <1>9 DEF Erased

LEMMA WriteProgress ==
  ASSUME TypeOK, RecordsOK, FlowInv, NEW p \in Programs, cmd[p].name = "write", pc[p] = "change",
         Written(cmd[p], cmd[p].length - cmd[p].left), cmd[p].addr % Chunk(board) = 0, job = Idle,
         mem' = mem, job' = ChangeCommand(p), Advance(p), board' = board
  PROVE  /\ Written(cmd[p], cmd[p].length - cmd[p].left)'
         /\ (cmd[p].left > 0 => cmd[p].addr % Chunk(board) = 0)'
<1> DEFINE c == cmd[p]
           k == c.length - c.left
           d == ChangeCommand(p)
           t == Taken(p)
<1>1. /\ d \in RomCommands /\ d # Idle /\ d.op = "WRITE"
      /\ d.at = At(c, k) /\ d.len = t /\ d.from = k
  BY ChangeFacts
<1>2. /\ c.left > 0 /\ c.name # "none" /\ c \in UserCommands /\ k \in Nat
      /\ c.addr = At(c, k) /\ c.name \notin Erases
  BY DEF FlowInv, Flow, RecordsOK, UserCommands, TypeOK, Erases
<1>3. /\ cmd'[p].name = c.name /\ cmd'[p].start = c.start
      /\ cmd'[p].length = c.length /\ cmd'[p].left = c.left - t
      /\ t \in 1 .. c.left /\ t <= Chunk(board)
      /\ cmd'[p].left > 0 => /\ t = Chunk(board)
                             /\ cmd'[p].addr = At(cmd'[p], cmd'[p].length - cmd'[p].left)
  BY <1>2, AdvanceFacts
<1>4. Final = mem /\ \A u : Final'[u] = Result(d)[u]
  BY <1>1 DEF Final, Result
<1>5. \A i : At(cmd'[p], i) = At(c, i)
  BY <1>3 DEF At
<1>6. /\ \A i \in Nat : At(c, i) \in Units
      /\ \A j \in Nat : At(c, k + j) = (At(c, k) + j) % Size
  <2>1. Stride(c.name) = 1
    BY <1>2, RangeOfWrite
  <2>2. /\ \A i \in Nat : At(c, i) \in Units
        /\ \A j \in Nat : At(c, k + j) = (At(c, k) + (j * 1)) % Size
    <3>1. c \in UserCommands /\ k \in Nat
      BY <1>2
    <3> QED
      BY <2>1, <3>1, AtFacts, Zenon
  <2>3. \A j \in Nat : j * 1 = j
    OBVIOUS
  <2> QED
    BY <2>2, <2>3, Zenon
<1>7. cmd'[p].length - cmd'[p].left = k + t
  BY <1>2, <1>3 DEF UserCommands
<1> DEFINE Good(u, i) == /\ Final'[u] \in {"file", "zero", "mixed"}
                         /\ i >= FileSize => Final'[u] = "zero"
<1>8. ASSUME NEW i \in 0 .. k - 1 PROVE Good(At(c, i), i)
  <2> DEFINE u == At(c, i)
  <2>1. mem[u] \in {"file", "zero", "mixed"} /\ (i >= FileSize => mem[u] = "zero")
    BY <1>4 DEF Written
  <2>2. u \in Units
    BY <1>6
  <2>3. CASE u \notin Changes(d)
    BY <1>1, <1>4, <2>1, <2>2, <2>3, ResultFacts
  <2>4. CASE u \in Changes(d)
    <3>1. Final'[u] = Programmed(mem[u], d.from + Past(d.at, u))
      BY <1>1, <1>4, <2>2, <2>4, ResultFacts
    <3>2. d.from + Past(d.at, u) \in Nat
      <4>1. d.from \in Nat /\ d.at \in Nat /\ u \in Nat
        BY <1>1, <2>2, Sizes DEF RomCommands
      <4>2. d.at % PageSize \in 0 .. PageSize - 1
        BY <4>1, Sizes, Divides
      <4>3. u + PageSize - (d.at % PageSize) \in Nat
        BY <4>1, <4>2, Sizes
      <4>4. Past(d.at, u) \in Nat
        BY <4>3, Sizes, Divides DEF Past
      <4> QED
        BY <4>1, <4>4
    <3> QED
      BY <2>1, <3>1, <3>2, ProgrammedFacts
  <2> QED
    BY <2>3, <2>4
<1>9. ASSUME NEW j \in 0 .. t - 1 PROVE Good(At(c, k + j), k + j)
  <2> DEFINE at == At(c, k)
             u == At(c, k + j)
  <2>1. at \in Units /\ at % Chunk(board) = 0 /\ j \in Nat /\ j < Chunk(board)
    BY <1>2, <1>3, <1>6, ChunkFacts
  <2>2. /\ at + j \in Units /\ (at + j) % Size = at + j
        /\ at + j \in Aligned(at, PageSize) /\ Past(at, at + j) = j
    BY <2>1, ChunkUnits
  <2>3. u = at + j
    BY <1>6, <2>1, <2>2
  <2>4. u \in Changes(d)
    BY <1>1, <1>3, <2>2, <2>3 DEF Changes
  <2>5. Final'[u] = Programmed(mem[u], k + j)
    BY <1>1, <1>4, <2>2, <2>3, <2>4, ResultFacts
  <2>6. k + j \in Nat
    BY <1>2, <2>1
  <2> QED
    BY <2>5, <2>6, ProgrammedFacts
<1>10. \A i \in 0 .. (k + t) - 1 : Good(At(c, i), i)
  <2> SUFFICES ASSUME NEW i \in 0 .. (k + t) - 1 PROVE Good(At(c, i), i)
    OBVIOUS
  <2>1. CASE i < k
    BY <1>2, <1>8, <2>1
  <2>2. CASE i >= k
    <3>1. PICK j \in 0 .. t - 1 : i = k + j
      <4>1. k \in Nat /\ t \in Nat
        BY <1>2, <1>3
      <4> HIDE DEF k, t
      <4>2. i - k \in 0 .. t - 1 /\ i = k + (i - k)
        BY <2>2, <4>1
      <4> QED
        BY <4>2
    <3> QED
      BY <1>9, <3>1
  <2> QED
    BY <1>2, <2>1, <2>2
<1>11. Written(cmd[p], cmd[p].length - cmd[p].left)'
  BY <1>5, <1>7, <1>10 DEF Written
<1>12. ASSUME cmd'[p].left > 0 PROVE cmd'[p].addr % Chunk(board) = 0
  <2>1. PICK n \in {1, 2} : n = Chunk(board)
    BY ChunkFacts
  <2>2. PICK a \in Nat : a = At(c, k) /\ a % n = 0
    BY <1>2, <1>6, <2>1, Sizes
  <2>3. PICK b \in Nat : b = a + n
    BY <2>1
  <2>4. b % n = 0
    BY <2>1, <2>2, <2>3
  <2>5. (b % Size) % n = 0
    BY <2>1, <2>4, ChunkFacts, Sizes, WholeRemainder
  <2>6. cmd'[p].addr = b % Size
    <3>1. cmd'[p].addr = At(c, k + t) /\ t = n /\ t \in Nat
      BY <1>3, <1>5, <1>7, <1>12, <2>1
    <3>2. At(c, k + t) = (At(c, k) + t) % Size
      BY <1>6, <3>1
    <3> QED
      BY <2>2, <2>3, <3>1, <3>2
  <2> QED
    BY <2>1, <2>5, <2>6
<1> QED
  BY <1>11, <1>12

\* After its execution a command does nothing when it is repeated.
LEMMA SpentOnce ==
  ASSUME NEW c \in RomCommands, Execute(c), c.op \in Changing \cup {"WRDI"}
  PROVE  Spent'
<1>1. c.op \in Changing => c # Idle /\ c.op # "WREN"
  BY DEF Idle, Plain, Command, Changing
<1> QED
  BY <1>1 DEF Execute, Spent

LEMMA KeptFacts ==
  /\ Idle.op = "none"
  /\ \A c : /\ Kept(c) = c \/ Kept(c).op = "none"
            /\ c.op \in Changing \cup {"WREN", "WRDI"} => Kept(c) = c
BY DEF Kept, Idle, Plain, Command

LEMMA SettledStep ==
  ASSUME TypeOK, RecordsOK, FlowInv, Settled, [Next]_vars
  PROVE  Settled'
<1>a. pending \in Seq(Programs) /\ last \in RomCommands
  BY DEF RecordsOK
<1>b. CASE UNCHANGED channel
  BY <1>b DEF channel, rom, Settled, Spent
<1>1. ASSUME NEW p \in Programs, ProcessStep(p) PROVE Settled'
  <2>1. CASE Starts(p)
    BY <1>a, <2>1, QueueType DEF Starts, rom, Settled, Spent
  <2>2. ASSUME NEW c \in RomCommands, Fails(p, c) PROVE Settled'
    BY <1>a, <2>2, QueueType DEF Fails, rom, Settled, Spent
  <2>3. ASSUME NEW c \in RomCommands, Answered(p, c) PROVE Settled'
    <3>1. CASE Obeys(c)
      BY <3>1, KeptFacts, SpentOnce DEF Obeys, Settled, Changing
    <3>2. CASE ~ Obeys(c)
      <4>1. Confused(p) /\ UNCHANGED <<rom, last, pending>>
        BY <2>3, <3>2 DEF Answered
      <4> QED
        BY <4>1 DEF rom, Settled, Spent
    <3> QED
      BY <3>1, <3>2
  <2> QED
    BY <1>1, <1>b, <2>1, <2>2, <2>3, Talks DEF Sends
<1>2. CASE Rom
  <2>1. CASE RomFinishes
    BY <2>1 DEF RomFinishes, Settled, Spent
  <2>2. CASE ExecutesLate
    BY <1>a, <2>2, SpentOnce DEF ExecutesLate, Settled
  <2> QED
    BY <1>2, <2>1, <2>2 DEF Rom
<1>3. CASE UNCHANGED vars
  BY <1>3, <1>b DEF vars
<1> QED
  BY <1>1, <1>2, <1>3, NextCases

\* A command that disturbs nobody leaves the ROM alone, and leaves nothing to be repeated.
LEMMA Harmless ==
  ASSUME NEW q \in Programs, NEW c \in RomCommands, ~ Disturbs(c),
         Answered(q, c) \/ Fails(q, c)
  PROVE  /\ mem' = mem /\ job' = job /\ (wel => wel')
         /\ \/ last' = last /\ wel' = wel
            \/ last'.op \notin Changing \cup {"WRDI"}
<1>1. c.op \notin Changing /\ c.op # "WRDI"
  BY DEF Disturbs
<1>2. Kept(c).op \notin Changing \cup {"WRDI"}
  BY <1>1, KeptFacts DEF Changing
<1>3. CASE Obeys(c)
  BY <1>1, <1>2, <1>3 DEF Obeys, Execute
<1>4. CASE UNCHANGED rom /\ (last' = last \/ last' = Kept(c))
  BY <1>2, <1>4 DEF rom
<1> QED
  BY <1>3, <1>4 DEF Answered, Fails

\* Nobody puts the message of another process in the queue.
LEMMA NotConfused ==
  ASSUME RecordsOK, NEW p \in Programs, ~ Confused(p)
  PROVE  /\ pending' = pending => ~ Confused(p)'
         /\ pending # << >> /\ pending' = Tail(pending) => ~ Confused(p)'
         /\ \A q \in Programs \ {p} : pending' = Append(pending, q) => ~ Confused(p)'
         /\ \A q \in Programs \ {p} : \A S : Inherits(q, S) => ~ Confused(p)'
<1>a. pending \in Seq(Programs)
  BY DEF RecordsOK
<1>1. ASSUME pending # << >>, pending' = Tail(pending) PROVE ~ Confused(p)'
  BY <1>a, <1>1 DEF Confused
<1>2. ASSUME NEW q \in Programs \ {p}, pending' = Append(pending, q) PROVE ~ Confused(p)'
  BY <1>a, <1>2 DEF Confused
<1>3. ASSUME NEW q \in Programs \ {p}, NEW S, Inherits(q, S) PROVE ~ Confused(p)'
  BY <1>3 DEF Confused, Inherits
<1> QED
  BY <1>1, <1>2, <1>3 DEF Confused

LEMMA BoardKept == [Next]_vars => board' = board
BY DEF Next, ProgramStep, vars, SetDevice, One, Begin, Check, Enable, Change, Poll, Read, Ends,
   Rom, GivesUp

\* What another process does to one that is undisturbed afterwards, too.
LEMMA OtherStep ==
  ASSUME TypeOK, RecordsOK, FlowInv, NEW p \in Programs, Calm(p), Progress(p),
         NEW q \in Programs, q # p, ProcessStep(q), [Next]_vars, Undisturbed(p)'
  PROVE  Calm(p)' /\ Progress(p)'
<1>1. /\ pc'[p] = pc[p] /\ cmd'[p] = cmd[p] /\ garbled'[p] = garbled[p] /\ cmd[p].name # "none"
      /\ board' = board /\ alone'[p]
  BY Local, BoardKept DEF Undisturbed
<1>2. CASE UNCHANGED channel
  <2>1. mem' = mem /\ job' = job /\ wel' = wel /\ last' = last /\ pending' = pending
    BY <1>2 DEF channel, rom
  <2>2. Progress(p)'
    BY <1>1, <2>1, FinalKept, ProgressKept
  <2> QED
    BY <1>1, <2>1, <2>2 DEF Calm, Spent, Confused
<1>4. CASE Starts(q)
  <2>1. mem' = mem /\ job' = job /\ wel' = wel /\ last' = last
    BY <1>4 DEF Starts, rom
  <2>2. Progress(p)'
    BY <1>1, <2>1, FinalKept, ProgressKept
  <2>3. ~ Confused(p) => ~ Confused(p)'
    BY <1>4, NotConfused DEF Starts
  <2> QED
    BY <1>1, <2>1, <2>2, <2>3 DEF Calm, Spent
<1>3. ASSUME NEW c \in RomCommands, Sends(q, c) PROVE Calm(p)' /\ Progress(p)'
  <2>1. ~ Disturbs(c)
    <3>1. Disturbs(c) => Others(q, c)
      BY <1>3 DEF Sends
    <3>2. NoCommand.name = "none"
      BY DEF NoCommand
    <3> QED
      BY <1>1, <3>1, <3>2 DEF Others
  <2>2. /\ mem' = mem /\ job' = job /\ (wel => wel')
        /\ \/ last' = last /\ wel' = wel
           \/ last'.op \notin Changing \cup {"WRDI"}
    BY <1>3, <2>1, Harmless DEF Sends
  <2>3. Progress(p)'
    BY <1>1, <2>2, FinalKept, ProgressKept
  <2>4. ~ Confused(p) => ~ Confused(p)'
    <3>1. \/ pending' = pending
          \/ pending # << >> /\ pending' = Tail(pending)
          \/ pending' = Append(pending, q)
      <4>1. Confused(q) => pending # << >>
        BY QueueType DEF Confused, RecordsOK
      <4> QED
        BY <1>3, <4>1 DEF Sends, Answered, Fails
    <3> QED
      BY <3>1, NotConfused
  <2> QED
    BY <1>1, <2>2, <2>3, <2>4 DEF Calm, Spent
<1> QED
  BY <1>2, <1>3, <1>4, Talks

\* What the ROM does.
LEMMA RomStep ==
  ASSUME TypeOK, RecordsOK, NEW p \in Programs, Calm(p), Progress(p), Rom
  PROVE  Calm(p)' /\ Progress(p)'
<1>1. UNCHANGED <<board, pc, cmd, garbled>>
  BY DEF Rom, program, history
<1>2. CASE RomFinishes
  <2>1. job # Idle /\ mem' = Result(job) /\ job' = Idle /\ ~ wel' /\ UNCHANGED <<last, pending>>
    BY <1>2 DEF RomFinishes
  <2>2. Final' = Final
    BY <2>1 DEF Final
  <2>3. Progress(p)'
    BY <1>1, <2>2, ProgressKept
  <2>4. pc[p] = "poll"
    BY <2>1 DEF Calm
  <2> QED
    BY <1>1, <2>1, <2>3, <2>4 DEF Calm, Spent, Confused
<1>3. CASE ExecutesLate
  <2>1. pending # << >> /\ pending' = Tail(pending) /\ Execute(last) /\ UNCHANGED last
    BY <1>3 DEF ExecutesLate
  <2>2. ~ Confused(p) => ~ Confused(p)'
    BY <2>1, NotConfused
  <2>3. mem' = mem /\ job' = job
    BY <2>1 DEF Execute, Calm, Spent
  <2>4. last.op \in Changing \cup {"WRDI"} => Spent'
    BY <2>1, SpentOnce DEF RecordsOK
  <2>5. pc[p] = "change" => wel'
    BY <2>1 DEF Execute, Calm, Spent
  <2>6. Progress(p)'
    BY <1>1, <2>3, FinalKept, ProgressKept
  <2> QED
    BY <1>1, <2>1, <2>2, <2>3, <2>4, <2>5, <2>6 DEF Calm
<1> QED
  BY <1>2, <1>3 DEF Rom

\* What a process does itself.
LEMMA OwnStep ==
  ASSUME TypeOK, RecordsOK, FlowInv, Settled, NEW p \in Programs,
         Undisturbed(p) => Calm(p) /\ Progress(p),
         ProcessStep(p), [Next]_vars, Undisturbed(p)'
  PROVE  Calm(p)' /\ Progress(p)'
<1>a. UsersOK /\ UsersOK' /\ Flow(p) /\ board' = board
  BY TypeParts, UsersStep, BoardKept DEF FlowInv
<1>b. \A c : ~ GivesUp(p, c)
  <2>1. NoCommand.name = "none"
    BY DEF NoCommand
  <2> QED
    BY <1>a, <2>1, ForgetFacts DEF GivesUp, Undisturbed
<1>c. ~ Forget(p)
  <2>1. NoCommand.name = "none"
    BY DEF NoCommand
  <2> QED
    BY <1>a, <2>1, ForgetFacts DEF Undisturbed
<1>d. \A op \in Simple : Plain(op) \in RomCommands /\ Plain(op).op = op
  BY PlainType DEF Plain, Command
<1>e. ASSUME UNCHANGED <<alone, idle, cmd>> PROVE Undisturbed(p)
  BY <1>e DEF Undisturbed
<1>f. ASSUME NEW left, NEW next, Continue(p, left, next)
      PROVE  pc'[p] = IF left = 0 THEN "prompt" ELSE next
  BY <1>a, <1>f DEF Continue, UsersOK
<1>g. ASSUME NEW c, Answered(p, c), ~ Confused(p)
      PROVE  pending' = pending /\ mem' = mem /\ Obeys(c) /\ ~ Confused(p)'
  BY <1>g DEF Answered, Obeys, Execute, Confused
<1>h. ASSUME Undisturbed(p), pc[p] \in {"check", "poll"}, Answered(p, Plain("RDSR"))
      PROVE  /\ job' = job /\ wel' = wel /\ last'.op = "none" /\ ~ Confused(p)
             /\ ~ Confused(p)' /\ Final' = Final
  <2>1. ~ Confused(p)
    BY <1>h DEF Calm
  <2>2. mem' = mem /\ Obeys(Plain("RDSR")) /\ ~ Confused(p)'
    BY <1>g, <1>h, <2>1
  <2>3. job' = job /\ wel' = wel /\ last'.op = "none"
    BY <1>d, <2>2, KeptFacts DEF Obeys, Execute, Kept, Simple, Changing
  <2> QED
    BY <2>1, <2>2, <2>3, FinalKept
<1>i. ASSUME NEW c, c.op = "none" PROVE c.op \notin Changing \cup {"WRDI"}
  BY <1>i DEF Changing
<1>1. CASE SetDevice(p)
  <2>1. /\ pc[p] = "out" /\ pc'[p] = "prompt"
        /\ UNCHANGED <<rom, last, cmd, alone, idle, garbled>>
    BY <1>a, <1>1 DEF SetDevice, UsersOK, history
  <2>2. mem' = mem /\ job' = job /\ wel' = wel /\ last' = last /\ Final' = Final
    BY <2>1, FinalKept DEF rom
  <2>3. Progress(p)'
    BY <1>a, <1>e, <2>1, <2>2, ProgressKept
  <2> QED
    BY <1>e, <2>1, <2>2, <2>3 DEF Calm, Spent
<1>2. CASE One(p)
  <2>1. PICK op \in Simple : Answered(p, Plain(op)) \/ Fails(p, Plain(op))
    BY <1>2 DEF One
  <2>2. pc[p] = "prompt" /\ UNCHANGED <<pc, cmd, idle, garbled>>
    BY <1>2 DEF One
  <2>3. Undisturbed(p)
    <3>1. alone'[p] => alone[p]
      BY <1>a, <1>2 DEF One, Others
    <3> QED
      BY <2>2, <3>1 DEF Undisturbed
  <2>4. /\ mem' = mem /\ job' = job
        /\ \/ last' = last /\ wel' = wel
           \/ last'.op \notin Changing
    <3>1. CASE Obeys(Plain(op))
      BY <1>d, <1>i, <3>1, KeptFacts DEF Obeys, Execute, Simple, Changing
    <3>2. CASE UNCHANGED rom /\ (last' = last \/ last' = Kept(Plain(op)))
      BY <1>d, <1>i, <3>2, KeptFacts DEF rom, Simple, Changing
    <3> QED
      BY <2>1, <3>1, <3>2 DEF Answered, Fails
  <2>6. Progress(p)'
    BY <1>a, <2>2, <2>3, <2>4, FinalKept, ProgressKept
  <2> QED
    BY <2>2, <2>3, <2>4, <2>6 DEF Calm, Spent
<1>3. CASE Begin(p)
  <2>1. PICK r \in Requests :
          /\ cmd' = [cmd EXCEPT ![p] = [name |-> r.name, start |-> r.start, length |-> r.length,
                                       addr |-> r.start, left |-> r.length]]
          /\ pc' = [pc EXCEPT ![p] = IF r.name = "read" THEN "read" ELSE "check"]
    BY <1>3 DEF Begin
  <2>2. /\ cmd'[p].left = cmd'[p].length /\ cmd'[p].addr = cmd'[p].start
        /\ pc'[p] \in {"read", "check"}
    BY <1>a, <2>1 DEF UsersOK
  <2>3. ~ garbled'[p]
    BY <1>a, <1>3 DEF Begin, UsersOK
  <2>4. UNCHANGED channel /\ job = Idle /\ pending = << >>
    <3>1. idle'[p] = (job = Idle /\ pending = << >>)
      BY <1>a, <1>3 DEF Begin, UsersOK
    <3> QED
      BY <1>3, <3>1 DEF Begin, Undisturbed
  <2>5. Calm(p)'
    <3>1. last.op \in Changing \cup {"WRDI"} => Spent
      BY <2>4 DEF Settled
    <3>2. ~ Confused(p)
      BY <2>4 DEF Confused
    <3> QED
      BY <2>2, <2>3, <2>4, <3>1, <3>2 DEF Calm, Spent, Confused, channel, rom
  <2>6. cmd'[p].length - cmd'[p].left = 0
    BY <1>a, <2>2 DEF UsersOK, UserCommands
  <2>7. Progress(p)'
    BY <1>a, <2>2, <2>6 DEF Progress, Erased, Written
  <2> QED
    BY <2>5, <2>7
<1>4. CASE Check(p)
  <2>1. /\ wel \/ Confused(p)
        /\ Answered(p, Plain("RDSR")) /\ pc[p] = "check"
        /\ Continue(p, cmd[p].left, IF cmd[p].name = "chiperase" THEN "change" ELSE "enable")
        /\ UNCHANGED <<cmd, alone, idle, garbled>>
    BY <1>b, <1>c, <1>4 DEF Check
  <2>2. pc'[p] \in {"prompt", "change", "enable"}
    BY <1>f, <2>1
  <2>3. /\ Undisturbed(p) /\ wel /\ job' = job /\ wel' = wel /\ last'.op = "none"
        /\ ~ Confused(p)' /\ Final' = Final
    BY <1>e, <1>h, <2>1
  <2>4. Progress(p)'
    BY <1>a, <2>1, <2>3, ProgressKept
  <2> QED
    BY <1>i, <2>1, <2>2, <2>3, <2>4 DEF Calm
<1>5. CASE Enable(p)
  <2>1. /\ Answered(p, Plain("WREN")) /\ pc[p] = "enable" /\ pc'[p] = "change"
        /\ UNCHANGED <<cmd, alone, idle, garbled>>
    BY <1>a, <1>b, <1>5 DEF Enable, UsersOK, history
  <2>2. job = Idle /\ ~ Confused(p)
    BY <1>e, <2>1 DEF Calm
  <2>3. mem' = mem /\ Obeys(Plain("WREN")) /\ ~ Confused(p)'
    BY <1>g, <2>1, <2>2
  <2>4. job' = job /\ wel' /\ last'.op = "WREN"
    BY <1>d, <2>2, <2>3 DEF Obeys, Execute, Kept, Simple, Changing
  <2>5. Progress(p)'
    BY <1>a, <1>e, <2>1, <2>3, <2>4, FinalKept, ProgressKept
  <2> QED
    BY <1>e, <2>1, <2>2, <2>3, <2>4, <2>5 DEF Calm, Changing
<1>6. CASE Change(p)
  <2>1. /\ Answered(p, ChangeCommand(p)) /\ Others(p, ChangeCommand(p)) /\ Advance(p)
        /\ pc[p] = "change" /\ pc'[p] = "poll" /\ UNCHANGED <<idle, garbled>>
    BY <1>a, <1>b, <1>6 DEF Change, UsersOK
  <2>2. cmd[p].name \in Erases \cup {"write"} /\ cmd[p].left > 0 /\ cmd'[p].name = cmd[p].name
        /\ cmd'[p].start = cmd[p].start
    <3>1. cmd[p].name \in Erases \cup {"write"} /\ cmd[p].left > 0 /\ cmd[p].name # "none"
      BY <1>a, <2>1 DEF Flow, Erases
    <3> QED
      BY <2>1, <3>1, AdvanceFacts
  <2>3. Undisturbed(p)
    <3>1. alone'[p] => alone[p]
      BY <1>a, <2>1 DEF Others
    <3> QED
      BY <2>1, <2>2, <3>1 DEF Undisturbed, Erases
  <2>4. job = Idle /\ wel /\ ~ Confused(p)
    BY <2>1, <2>3 DEF Calm
  <2>5. ChangeCommand(p).op \in Changing /\ ChangeCommand(p) # Idle
    BY <2>1, ChangeFacts
  <2>6. mem' = mem /\ job' = ChangeCommand(p) /\ ~ Confused(p)'
    BY <1>g, <2>1, <2>4, <2>5 DEF Obeys, Execute
  <2>7. Calm(p)'
    BY <2>1, <2>3, <2>5, <2>6 DEF Calm, Spent
  <2>8. Progress(p)'
    <3>1. CASE cmd[p].name \in Erases
      <4>1. Erased(cmd[p], cmd[p].length - cmd[p].left)'
        BY <2>1, <2>3, <2>4, <2>6, <3>1, EraseProgress DEF Progress, Erases
      <4> QED
        BY <2>2, <3>1, <4>1 DEF Progress, Erases
    <3>2. CASE cmd[p].name = "write"
      <4>1. CASE cmd[p].start % Chunk(board) = 0
        <5>1. Written(cmd[p], cmd[p].length - cmd[p].left) /\ cmd[p].addr % Chunk(board) = 0
          BY <2>2, <2>3, <3>2, <4>1 DEF Progress
        <5>2. /\ Written(cmd[p], cmd[p].length - cmd[p].left)'
              /\ (cmd[p].left > 0 => cmd[p].addr % Chunk(board) = 0)'
          BY <1>a, <2>1, <2>4, <2>6, <3>2, <5>1, WriteProgress
        <5> QED
          BY <2>2, <3>2, <5>2 DEF Progress
      <4>2. CASE cmd[p].start % Chunk(board) # 0
        BY <1>a, <2>2, <3>2, <4>2 DEF Progress
      <4> QED
        BY <4>1, <4>2
    <3> QED
      BY <2>2, <3>1, <3>2
  <2> QED
    BY <2>7, <2>8
<1>7. CASE Poll(p)
  <2>1. /\ Answered(p, Plain("RDSR")) /\ pc[p] = "poll"
        /\ \/ (job = Idle \/ Confused(p)) /\ Continue(p, cmd[p].left, "enable")
           \/ (job # Idle \/ Confused(p)) /\ UNCHANGED <<pc, said>>
        /\ UNCHANGED <<cmd, alone, idle, garbled>>
    BY <1>b, <1>7 DEF Poll
  <2>2. /\ Undisturbed(p) /\ job' = job /\ wel' = wel /\ last'.op = "none"
        /\ ~ Confused(p) /\ ~ Confused(p)' /\ Final' = Final
    BY <1>e, <1>h, <2>1
  <2>3. pc'[p] \in {"prompt", "enable", "poll"} /\ (job # Idle => pc'[p] = "poll")
    BY <1>f, <2>1, <2>2
  <2>4. Progress(p)'
    BY <1>a, <2>1, <2>2, ProgressKept
  <2> QED
    BY <1>i, <2>1, <2>2, <2>3, <2>4 DEF Calm
<1>8. CASE Read(p)
  <2>1. pc[p] = "read" /\ cmd[p].name = "read"
    BY <1>a, <1>8 DEF Read, Flow
  <2>2. CASE /\ Continue(p, 0, "read")
             /\ UNCHANGED <<channel, cmd, alone, idle, garbled>>
    <3>1. mem' = mem /\ job' = job /\ wel' = wel /\ last' = last
      BY <2>2 DEF channel, rom
    <3>2. Progress(p)'
      BY <1>a, <1>e, <2>2, <3>1, FinalKept, ProgressKept
    <3>3. pc'[p] = "prompt"
      BY <1>f, <2>2
    <3> QED
      BY <1>e, <2>1, <2>2, <3>1, <3>2, <3>3 DEF Calm, Spent
  <2>3. CASE /\ cmd[p].left > 0 /\ Answered(p, Command("READ", cmd[p].addr, Taken(p), 0))
             /\ garbled' = [garbled EXCEPT ![p] = @ \/ job # Idle \/ Confused(p)]
             /\ Advance(p) /\ Continue(p, cmd[p].left - Taken(p), "read")
             /\ UNCHANGED <<alone, idle>>
    <3>1. cmd'[p].name = "read"
      BY <2>1, <2>3, AdvanceFacts
    <3>2. Undisturbed(p)
      BY <2>1, <2>3 DEF Undisturbed
    <3>3. job = Idle /\ ~ garbled[p] /\ ~ Confused(p)
      BY <2>1, <3>2 DEF Calm
    <3>4. ~ garbled'[p]
      BY <1>a, <2>3, <3>3 DEF UsersOK
    <3>5. Obeys(Command("READ", cmd[p].addr, Taken(p), 0)) /\ ~ Confused(p)'
      BY <1>g, <2>3, <3>3
    <3>6. job' = job /\ last'.op = "none"
      BY <3>5, KeptFacts DEF Obeys, Execute, Kept, Command, Changing
    <3>7. pc'[p] \in {"prompt", "read"}
      BY <1>f, <2>3
    <3>8. Progress(p)'
      BY <3>1 DEF Progress
    <3> QED
      BY <1>i, <3>2, <3>3, <3>4, <3>5, <3>6, <3>7, <3>8 DEF Calm
  <2> QED
    BY <1>b, <1>8, <2>2, <2>3 DEF Read
<1>9. ~ Ends(p)
  BY <1>c DEF Ends
<1> QED
  BY <1>1, <1>2, <1>3, <1>4, <1>5, <1>6, <1>7, <1>8, <1>9 DEF ProcessStep, ProgramStep

LEMMA DoneStep ==
  ASSUME TypeOK, RecordsOK, FlowInv, Settled, DoneInv, [Next]_vars
  PROVE  DoneInv'
<1> SUFFICES ASSUME NEW p \in Programs, Undisturbed(p)' PROVE Calm(p)' /\ Progress(p)'
  BY DEF DoneInv
<1>1. Undisturbed(p) => Calm(p) /\ Progress(p)
  BY DEF DoneInv
<1>2. ASSUME NEW q \in Programs, ProcessStep(q) PROVE Calm(p)' /\ Progress(p)'
  <2>1. CASE q = p
    BY <1>1, <1>2, <2>1, OwnStep
  <2>2. CASE q # p
    <3>1. Undisturbed(p)
      BY <1>2, <2>2, Local DEF Undisturbed
    <3> QED
      BY <1>1, <1>2, <2>2, <3>1, OtherStep
  <2> QED
    BY <2>1, <2>2
<1>3. CASE Rom
  <2>1. Undisturbed(p)
    BY <1>3 DEF Rom, program, history, Undisturbed
  <2> QED
    BY <1>1, <1>3, <2>1, RomStep
<1>4. CASE UNCHANGED vars
  <2>1. /\ UNCHANGED <<board, pc, cmd, alone, idle, garbled>>
        /\ mem' = mem /\ wel' = wel /\ job' = job /\ last' = last /\ pending' = pending
    BY <1>4 DEF vars, channel, rom, program, history
  <2>2. Undisturbed(p)
    BY <2>1 DEF Undisturbed
  <2>3. Progress(p)'
    BY <1>1, <2>1, <2>2, FinalKept, ProgressKept
  <2> QED
    BY <1>1, <2>1, <2>2, <2>3 DEF Calm, Spent, Confused
<1> QED
  BY <1>2, <1>3, <1>4, NextCases

LEMMA InitIInv == Init => IInv
<1> SUFFICES ASSUME Init PROVE IInv
  OBVIOUS
<1>1. /\ Idle \in RomCommands /\ Idle.op = "none" /\ NoCommand \in UserCommands
      /\ NoCommand.name = "none" /\ NoCommand.left = 0 /\ NoCommand.length = 0
  BY Sizes DEF Idle, Plain, Command, RomCommands, NoCommand, UserCommands
<1>2. \A p \in Programs : /\ cmd[p] = NoCommand /\ pc[p] = "out" /\ said[p] = FALSE
                          /\ garbled[p] = FALSE
  BY DEF Init
<1>3. ChannelOK
  <2>1. /\ mem = [u \in Units |-> "old"] /\ "old" \in Contents /\ wel = FALSE
        /\ job = Idle /\ last = Idle /\ pending = << >> /\ errors = 0
    BY DEF Init, RomInit, Contents
  <2>2. mem \in [Units -> Contents] /\ errors \in 0 .. MaxErrors /\ pending \in Seq(Programs)
    BY <2>1, Sizes
  <2> QED
    BY <1>1, <2>1, <2>2 DEF ChannelOK
<1>4. UsersOK
  BY <1>1, <1>2, SpiromTestAssumption DEF Init, UsersOK
<1>5. FlowInv
  BY <1>1, <1>2 DEF FlowInv, Flow
<1>6. AskedInv
  BY <1>1, <1>2 DEF Init, RomInit, AskedInv, OthersUntouched, Bounded, Changing
<1>7. DoneInv
  BY <1>1, <1>2 DEF DoneInv, Undisturbed
<1>8. Settled
  BY <1>1 DEF Init, RomInit, Settled, Changing
<1> QED
  BY <1>3, <1>4, <1>5, <1>6, <1>7, <1>8, TypeParts DEF IInv

\* The users' part of the invariant.
LEMMA UsersAlways ==
  ASSUME TypeOK, RecordsOK, FlowInv, [Next]_vars
  PROVE  UsersOK' /\ FlowInv'
<1>1. UsersOK
  BY TypeParts
<1>2. CASE UNCHANGED <<board, asked, commands, pc, cmd, said, alone, idle, garbled>>
  BY <1>1, <1>2 DEF UsersOK, FlowInv, Flow, At, Stride
<1>3. Rom \/ UNCHANGED vars =>
        UNCHANGED <<board, asked, commands, pc, cmd, said, alone, idle, garbled>>
  BY DEF Rom, vars, program, history
<1> QED
  BY <1>2, <1>3, NextCases, UsersStep, FlowStep

LEMMA NextIInv == IInv /\ [Next]_vars => IInv'
<1> SUFFICES ASSUME IInv, [Next]_vars PROVE IInv'
  OBVIOUS
<1>1. TypeOK /\ RecordsOK /\ FlowInv /\ AskedInv /\ Settled /\ DoneInv
  BY DEF IInv
<1>2. ChannelOK' /\ UsersOK' /\ FlowInv'
  BY <1>1, ChannelStep, UsersAlways
<1>3. AskedInv' /\ Settled' /\ DoneInv'
  BY <1>1, AskedStep, SettledStep, DoneStep
<1>4. TypeOK' /\ RecordsOK'
  BY <1>2, TypeParts, PTL
<1> QED
  BY <1>2, <1>3, <1>4 DEF IInv

----------------------------------------------------------------------------
(* Theorems *)

\* The inductive invariant, for any ROM, users and requests.
THEOREM Invariance == Spec => []IInv
BY InitIInv, NextIInv, PTL DEF Spec

\* The variables keep their types: the address of a command stays in the ROM and what is left
\* of its length does not go below zero.
THEOREM TypeCorrect == Spec => []TypeOK
<1>1. IInv => TypeOK
  BY DEF IInv
<1> QED
  BY Invariance, <1>1, PTL

\* Whatever is interrupted, late or done by two at once, only units that some command was to
\* change are changed.
THEOREM OnlyAskedUnits == Spec => []OthersUntouched
<1>1. IInv => OthersUntouched
  BY DEF IInv, AskedInv
<1> QED
  BY Invariance, <1>1, PTL

\* What a success that is said means of the ROM.
LEMMA SaidIsDone ==
  ASSUME IInv, NEW p \in Programs, said[p], alone[p], idle[p]
  PROVE  LET c == cmd[p]
         IN /\ c.name \in Erases => \A u \in Range(c) : mem[u] = "blank"
            /\ c.name = "write" /\ c.start % Chunk(board) = 0 =>
                 /\ \A u \in Range(c) : mem[u] \in {"file", "zero", "mixed"}
                 /\ \A i \in 0 .. c.length - 1 :
                      i >= FileSize => mem[(c.start + i) % Size] = "zero"
            /\ ~ garbled[p]
<1> DEFINE c == cmd[p]
<1>1. Flow(p) /\ c \in UserCommands /\ c.length \in Nat /\ c.left = 0 /\ pc[p] = "prompt"
  BY DEF IInv, FlowInv, Flow, RecordsOK, UserCommands
<1>2. Calm(p) /\ Progress(p)
  BY <1>1 DEF IInv, DoneInv, Undisturbed, Flow
<1>3. Final = mem /\ ~ garbled[p]
  BY <1>1, <1>2 DEF Calm, Final
<1>4. c.length - c.left = c.length
  BY <1>1
<1>5. ASSUME c.name \in Erases, NEW u \in Range(c) PROVE mem[u] = "blank"
  <2>1. Range(c) = UNION {Piece(c, i) : i \in 0 .. c.length - 1}
    BY <1>1, <1>5, RangeOfErase DEF Flow
  <2>2. PICK i \in 0 .. c.length - 1 : u \in Piece(c, i)
    BY <1>5, <2>1
  <2>3. Erased(c, c.length)
    BY <1>2, <1>4, <1>5 DEF Progress, Erases
  <2> QED
    BY <1>3, <2>2, <2>3 DEF Erased
<1>6. ASSUME c.name = "write", c.start % Chunk(board) = 0
      PROVE  /\ \A u \in Range(c) : mem[u] \in {"file", "zero", "mixed"}
             /\ \A i \in 0 .. c.length - 1 : i >= FileSize => mem[(c.start + i) % Size] = "zero"
  <2>1. Written(c, c.length)
    BY <1>2, <1>4, <1>6 DEF Progress
  <2>2. \A i \in 0 .. c.length - 1 :
          /\ mem[At(c, i)] \in {"file", "zero", "mixed"}
          /\ i >= FileSize => mem[At(c, i)] = "zero"
    BY <1>3, <2>1 DEF Written
  <2>3. /\ Range(c) = {At(c, i) : i \in 0 .. c.length - 1}
        /\ \A i \in 0 .. c.length - 1 : At(c, i) = (c.start + i) % Size
    BY <1>1, <1>6, RangeOfWrite
  <2> QED
    BY <2>2, <2>3
<1> QED
  BY <1>3, <1>5, <1>6

\* "...completed successfully" is true of a command that nobody disturbed on a ROM that was
\* idle: the range is erased, holds the file, or was read from an idle ROM.
THEOREM SuccessIsTrue == Spec => []SuccessMeansDone
<1>1. IInv => SuccessMeansDone
  BY SaidIsDone DEF SuccessMeansDone, Erases
<1> QED
  BY Invariance, <1>1, PTL
=============================================================================
