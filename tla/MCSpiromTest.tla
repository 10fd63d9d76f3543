---------------------------- MODULE MCSpiromTest ----------------------------
(* The instance of SpiromTest that TLC checks: what its users ask for. *)
EXTENDS SpiromTest

Ask(name, start, length) == [name |-> name, start |-> start, length |-> length]

\* A chip erase is one command without a range.  The write of three units has
\* a remainder, runs past the file and past the end of the ROM; the read of one
\* unit is less than a chunk.
MCRequests ==
  {Ask("chiperase", 0, 1), Ask("sectorerase", 3, 2), Ask("blockerase", 4, 1),
   Ask("read", 7, 1), Ask("write", 6, 3)}
=============================================================================
