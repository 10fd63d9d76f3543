------------------------------ MODULE GpioTest ------------------------------
(***************************************************************************)
(* The program gpio-test, on the boards it is delivered for, and under it  *)
(* the GPIO driver: that of module GpioAmd on Steppe Eagle ("S"), a driver *)
(* of the kernel on Falcon ("A") and on V1000 and Snowy Owl ("V"), which   *)
(* here gives out every pin it has.  A command exports a pin through       *)
(* sysfs, opens one of its files and acts on it; other programs and the    *)
(* driver take steps in between.  At its end the program unexports what it *)
(* believes to have exported.                                              *)
(***************************************************************************)
EXTENDS GpioAmd

CONSTANT Boards   \* the boards of the instance

ASSUME BoardsAssumption == Boards \subseteq {"S", "A", "V"}

VARIABLES
  board,
  tpc,          \* the program: out, prompt, open (the pin is exported)
  command,      \* the command it is executing: operation and pin
  inUse,        \* gpio_in_use
  badValue      \* (history) pins left by a command whose value was neither word

test == <<tpc, command, inUse, badValue>>
vars == <<driver, board, test>>

\* The commands on a pin: getgpio stands for getgpiovalue and getgpiomode, which
\* read a file of it.  The word that is the argument of a set command is chosen
\* when it is compared with the words it may be, the file being open.
Operations == {"getgpio", "setgpiomode", "setgpiovalue"}
NoCommand == [op |-> "none", pin |-> 0]

Init ==
  /\ DriverInit
  /\ board \in Boards
  /\ tpc = "out" /\ command = NoCommand /\ inUse = {} /\ badValue = {}

\* The numbers the program may be given: 0 is also what atoi makes of 0x4d.
Names == Pins \cup {0}

\* What the kernel, which takes a leading 0 for octal and 0x for hexadecimal,
\* reads in a text that atoi reads as p.  The set commands take three
\* characters of the text.
Octal(p) == 64 * (p \div 100) + 8 * ((p \div 10) % 10) + (p % 10)
IsOctal(p) == p \div 100 < 8 /\ (p \div 10) % 10 < 8 /\ p % 10 < 8
Readings(op, p) ==
  {p} \cup {q \in Pins :
    \/ q = Octal(p) /\ IsOctal(p) /\ (op = "getgpio" \/ p < 100)
    \/ p = 0 /\ (op = "getgpio" \/ q < 16)}

\* The pins whose number may reach the export file when p is named: on Steppe
\* Eagle the text is written as it is, on Falcon the number is cut to two digits.
Exported(op, p) ==
  CASE board = "S" -> Readings(op, p)
    [] board = "A" -> {IF p >= 100 THEN p \div 10 ELSE p}
    [] board = "V" -> {p}

\* Faulty variant: the mark goes to the neighbouring entry.
MarkedNext(p) == {p + 1}

\* The pins of gpio_in_use that exist: on V1000 the pins are numbered from 256
\* on, and the array ends at 255.
Marked(p) == IF board = "V" THEN {} ELSE {p}

\* Whether the GPIO core gives a pin to a program that exports it.
Grants(p) ==
  /\ p \in Pins
  /\ IF board = "S" THEN Requestable(p) ELSE exporter[p] = "none"

Export(p, who) ==
  IF board = "S"
  THEN Request(p, who)
  ELSE exporter' = [exporter EXCEPT ![p] = who] /\ UNCHANGED <<claim, early, regs>>

----------------------------------------------------------------------------
Start ==
  /\ tpc = "out"
  /\ tpc' = "prompt" /\ badValue' = {}
  /\ exporter' = [p \in Pins |-> IF exporter[p] = "none" THEN "none" ELSE "other"]
  /\ UNCHANGED <<module, probing, regs, claim, early, mask, board, command, inUse>>

\* A command up to the write to the export file.  A pin that is exported or
\* requested already, by whomever, is as good as one exported now (EBUSY).
\* Then the file of the pin that is named is opened, if there is such a pin.
Busy(p) == p \in Pins /\ (claim[p] # "none" \/ exporter[p] # "none")

CommandExport(op, p) ==
  /\ tpc = "prompt"
  /\ \E q \in Exported(op, p) :
       /\ IF Grants(q) THEN Export(q, IF q = p THEN "test" ELSE "astray")
          ELSE UNCHANGED <<users, regs>>
       /\ IF p \in Pins /\ (Grants(q) \/ Busy(q))
          THEN tpc' = "open" /\ command' = [op |-> op, pin |-> p]
          ELSE UNCHANGED <<tpc, command>>
  /\ UNCHANGED <<module, probing, mask, board, inUse, badValue>>

\* What is left of a command: the file of the pin, which is there while the
\* pin is exported, and the mark for the end of the program.  A pin that went
\* astray is found again when it is marked.
HasFile(p) == p \in Pins /\ exporter[p] # "none"
Opened(op) == tpc = "open" /\ command.op = op /\ HasFile(command.pin)

Finish(marks) ==
  /\ tpc' = "prompt" /\ command' = NoCommand
  /\ inUse' = inUse \cup marks
  /\ exporter' = [p \in Pins |->
       IF p \in marks /\ exporter[p] = "astray" THEN "test" ELSE exporter[p]]
  /\ UNCHANGED <<module, probing, iomux, claim, early, mask, board>>

FileMissing ==
  /\ tpc = "open" /\ ~ HasFile(command.pin)
  /\ Finish({}) /\ UNCHANGED <<outEn, badValue>>

GetGpio ==
  /\ Opened("getgpio")
  /\ Finish(Marked(command.pin)) /\ UNCHANGED <<outEn, badValue>>

SetGpioMode ==
  /\ Opened("setgpiomode")
  /\ \/ DirectionInput(command.pin)
     \/ DirectionOutput(command.pin)
     \/ UNCHANGED outEn   \* the word is none of the modes
  /\ Finish(Marked(command.pin)) /\ UNCHANGED badValue

\* Faulty variant: a bad value ends the command without the mark.
SetGpioValueReturns ==
  /\ Opened("setgpiovalue")
  /\ \E good \in BOOLEAN :
       /\ Finish(IF good THEN Marked(command.pin) ELSE {})
       /\ badValue' = IF good \/ board = "S" THEN badValue ELSE badValue \cup {command.pin}
  /\ UNCHANGED outEn

\* The level of a pin is no part of the model.  Only the program of Steppe
\* Eagle reaches the end of the command when the value is neither word.
SetGpioValue ==
  /\ Opened("setgpiovalue")
  /\ \E good \in BOOLEAN :
       IF good \/ board = "S"
       THEN Finish(Marked(command.pin)) /\ UNCHANGED badValue
       ELSE Finish({}) /\ badValue' = badValue \cup {command.pin}
  /\ UNCHANGED outEn

\* The end of the process, and with it of its array.
Ended == tpc' = "out" /\ inUse' = {}

\* exit: every marked pin is unexported, whoever exported it.
Exit ==
  /\ tpc = "prompt" /\ Ended
  /\ Free(inUse)
  /\ UNCHANGED <<module, probing, mask, board, command, badValue>>

\* getnumgpio, getgpiobase and getgpioname look at the files of the chip, and
\* leave the program on the spot when there is none.
ChipGone ==
  /\ tpc = "prompt" /\ board = "S" /\ "chip" \notin held
  /\ Ended
  /\ UNCHANGED <<driver, board, command, badValue>>

\* The end of the input is an exit, or on V1000 a null pointer that is read.
EndOfInput ==
  /\ tpc = "prompt" /\ Ended
  /\ IF board = "V" THEN UNCHANGED <<regs, users>> ELSE Free(inUse)
  /\ UNCHANGED <<module, probing, mask, board, command, badValue>>

TestNext ==
  \/ Start \/ ChipGone \/ Exit \/ EndOfInput
  \/ \E op \in Operations, p \in Names : CommandExport(op, p)
  \/ FileMissing \/ GetGpio \/ SetGpioMode \/ SetGpioValue

\* After a bad access the kernel is not relied on any more.
Halted == crashed /\ UNCHANGED vars

Next ==
  \/ ~ crashed /\ board = "S" /\ DriverNext /\ UNCHANGED <<board, test>>
  \/ ~ crashed /\ TestNext
  \/ Halted

Spec == Init /\ [][Next]_vars
----------------------------------------------------------------------------
(* Properties *)

\* The types of the variables of the driver and of the program.
TypeOK ==
  /\ life \in {"out", "init", "live"} /\ have \subseteq SetOf(Stages)
  /\ probe \in Probes /\ held \subseteq SetOf(Resources) /\ todo \subseteq Pins
  /\ param \in 0 .. Len(Params) + 1 /\ step \in {"mask", "request", "free"}
  /\ mask \in [Pins -> Modes] /\ iomux \in [Pins -> Functions]
  /\ outEn \in [Pins -> BOOLEAN]
  /\ claim \in [Pins -> {"none", "driver", "sysfs"}]
  /\ exporter \in [Pins -> {"none", "test", "astray", "other"}]
  /\ debug \in BOOLEAN /\ binds \in 0 .. MaxBinds /\ crashed \in BOOLEAN
  /\ firmware \in [Pins -> Functions] /\ early \subseteq Pins /\ skipped \subseteq Pins
  /\ board \in {"S", "A", "V"} /\ tpc \in {"out", "prompt", "open"}
  /\ command \in [op : Operations \cup {"none"}, pin : Names]
  /\ inUse \subseteq Pins /\ badValue \subseteq Pins

\* A load or a probe that fails takes back all it has registered, and a module
\* that stays has registered everything or (class_create and device_create)
\* nothing at all: the order of the labels in amd_gpio_init_module and in
\* amd_gpio_init.
AllOrNothing ==
  /\ life = "out" => have = {} /\ held = {}
  /\ life = "live" => have \in {{}, SetOf(Stages)}
  /\ probe \in {"none", "failed"} => held = {}
  /\ probe \in {"scan", "params", "bound"} => held = SetOf(Resources)

\* The firmware's choice holds: a pin with an alternate function keeps it
\* unless a program requested the pin before the scan came to it or the scan
\* wrote the mask of another pin; and once scanned, a pin is kept from programs
\* only because of its function, a parameter, or an error of the table (68 is
\* reserved for 69, and 77 after any request).
MaskFollowsFirmware ==
  \A p \in Pins :
    /\ firmware[p] \in Alternate(p) /\ iomux[p] # firmware[p] =>
         p \in early \/ MaskEntry(p) # p
    /\ mask[p] = RESV /\ p \in Available =>
         \/ firmware[p] \in Alternate(p)
         \/ p = 68 /\ 69 \in Pins /\ firmware[69] \in Alternate(69)
         \/ p = 77 /\ iomux[p] = GpioFunction(p)
         \/ \E i \in DOMAIN Params : Params[i].pin = p /\ Params[i].mode = RESV

\* Once the probe is over, a pin that the parameters make an input never
\* drives, and one they make an output always does, unless a program held the
\* pin when its parameter was applied: no later sequence of requests,
\* directions and debug calls gets around the mode.
ModesHold ==
  probe = "bound" => \A p \in Pins \ skipped :
    /\ mask[p] = INPUT => ~ outEn[p]
    /\ mask[p] = OUTPUT => outEn[p]

\* "We need to unexport all the GPIO pins exported earlier": whatever the
\* commands, their errors and the other programs, the program leaves exported
\* only pins that went astray, reached by a text that names another (a number
\* in octal or hexadecimal on Steppe Eagle, cut to two digits on Falcon) and not
\* marked since, and on Falcon pins given a bad value; on V1000 it leaves all.
ExitFreesPins ==
  tpc = "out" => \A p \in Pins :
    exporter[p] = "test" => board = "V" \/ (board = "A" /\ p \in badValue)
============================================================================
