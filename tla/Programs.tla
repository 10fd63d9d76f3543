------------------------------ MODULE Programs ------------------------------
(***************************************************************************)
(* smbus-test and rtc-test share nothing, so a behaviour runs one of the   *)
(* two, chosen at its start: the states of both are explored in one run.   *)
(***************************************************************************)
EXTENDS SmbusTest, RtcTest

VARIABLE subject   \* which of the two this behaviour is about

vars == <<smbus, rtc, subject>>

Init == SmbusInit /\ RtcInit /\ subject \in {"smbus", "rtc"}

Next ==
  \/ subject = "smbus" /\ SmbusNext /\ UNCHANGED <<rtc, subject>>
  \/ subject = "rtc" /\ RtcNext /\ UNCHANGED <<smbus, subject>>

\* In a behaviour of smbus-test nothing of rtc-test is ever enabled.
Spec == Init /\ [][Next]_vars /\ RtcFairness

TypeOK == SmbusTypeOK /\ RtcTypeOK
=============================================================================
