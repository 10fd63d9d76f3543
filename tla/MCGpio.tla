------------------------------- MODULE MCGpio -------------------------------
(* The instance of GpioTest that TLC checks: the module parameters. *)
EXTENDS GpioTest

\* Pin 77 is to be an input, pin 130 an output.
MCParams == <<[pin |-> 77, mode |-> INPUT], [pin |-> 130, mode |-> OUTPUT]>>
=============================================================================
