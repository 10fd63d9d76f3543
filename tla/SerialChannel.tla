--------------------------- MODULE SerialChannel ---------------------------
(***************************************************************************)
(* What the callers of /dev/spirom may rely on, and no more: the abstract  *)
(* specification that SpiTransport, spirom over the controller driver,     *)
(* implements, and that spirom-test is modelled over (FlashRom).           *)
(*                                                                         *)
(* One command is given at a time.  A command is loaded into the           *)
(* controller while its call waits, in the order the commands were given,  *)
(* and executed once it is loaded; some never are.  "ok" means that it     *)
(* was executed, "shutdown" that it never is.  After "inprogress" (the     *)
(* second of wait_for_completion_timeout was over) it may still be, if it  *)
(* was loaded; if not, the command loaded last is executed again in its    *)
(* place.  After "fault" nobody knows.                                     *)
(*                                                                         *)
(* None of this is promised to a command that is mixed up with an earlier  *)
(* one: it was given by a process whose earlier call has returned without  *)
(* knowing, while that command was still on its way.                       *)
(***************************************************************************)
EXTENDS Naturals, Sequences

CONSTANT MaxMsgs   \* bound: commands given, a natural number

VARIABLES
  given,     \* how many commands have been given; they are numbered
  loaded,    \* the command in the controller, 0 before the first
  running,   \* it is being executed
  executed,  \* the commands the ROM has executed, in order
  answer,    \* what the call of each returned
  mixed      \* the commands that are mixed up with earlier ones

vars == <<given, loaded, running, executed, answer, mixed>>

Init ==
  /\ given = 0 /\ loaded = 0 /\ running = FALSE /\ executed = << >>
  /\ answer = [m \in 1 .. MaxMsgs |-> "none"] /\ mixed = {}

\* A call has returned without knowing what becomes of its command.
Unknown == \E m \in 1 .. given : answer[m] \in {"inprogress", "fault"}

\* A call gives its command; the one before has had its answer.
Give ==
  /\ given < MaxMsgs
  /\ \A m \in 1 .. given : answer[m] # "none"
  /\ given' = given + 1
  /\ mixed' = mixed \/ (Unknown /\ mixed' = mixed \cup {given + 1})
  /\ UNCHANGED <<loaded, running, executed, answer>>

\* A command is loaded whose call waits: not one that has been before.
Load(m) ==
  /\ ~ running /\ answer[m] = "none"
  /\ {m, loaded} \cap mixed = {} => loaded < m
  /\ loaded' = m /\ running' = TRUE
  /\ UNCHANGED <<given, executed, answer, mixed>>

\* The command in the controller is executed once more in place of one whose
\* call is over.
Repeat ==
  /\ ~ running /\ Unknown
  /\ running' = TRUE
  /\ UNCHANGED <<given, loaded, executed, answer, mixed>>

Execute ==
  /\ running /\ running' = FALSE
  /\ executed' = Append(executed, loaded)
  /\ UNCHANGED <<given, loaded, answer, mixed>>

\* The call returns.
Answer(m, result) ==
  /\ answer[m] = "none"
  /\ m \in mixed \/
       /\ result = "ok" => \E i \in DOMAIN executed : executed[i] = m
       /\ result = "shutdown" => loaded # m /\ \A i \in DOMAIN executed : executed[i] # m
  /\ answer' = [answer EXCEPT ![m] = result]
  /\ UNCHANGED <<given, loaded, running, executed, mixed>>

Next ==
  \/ Give \/ Repeat \/ Execute
  \/ \E m \in 1 .. given :
       \/ Load(m)
       \/ \E result \in {"ok", "inprogress", "shutdown", "fault"} : Answer(m, result)

Spec == Init /\ [][Next]_vars
============================================================================
