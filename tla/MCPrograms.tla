----------------------------- MODULE MCPrograms -----------------------------
(* The instance of Programs that TLC checks: addresses with a driver, and files for writeblock. *)
EXTENDS Programs

MCBound == {<<1, 6>>}

\* More numbers than fit, a number that is no byte, one that is negative, and what is no number.
N(v) == [text |-> "number", value |-> v]
Other(t) == [text |-> t, value |-> 0]
MCTokens ==
  {<<N(1), N(511), N(3), N(4)>>, <<N(-2), Other("bad"), N(5)>>, <<Other("blank"), N(1)>>, <<>>}
=============================================================================
