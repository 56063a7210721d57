--------------------------- MODULE MCA10ResetLink ---------------------------
(* A board on output 0 and one on output 1; run numbers whose bytes are    *)
(* commands of the reset protocol.                                         *)
EXTENDS A10ResetLink

CONSTANTS f1, f2

MCFEB      == {f1, f2}
MCAddr     == [f \in MCFEB |-> <<0, 0>>]
MCOutput   == [f \in MCFEB |-> IF f = f1 THEN 0 ELSE 1]
MCByte     == {0, 1, RunPrepare, Sync, StartRun, EndRun, AbortRun, Reset, StopReset, Comma}
MCRunBytes == <<<<0, Reset, AbortRun, 1>>, <<0, Sync, RunPrepare, StopReset>>>>
\* From register writes that come almost at once to ones far apart.
MCSpacings == 2..6
\* Far enough apart that every board gets all bytes.
MCFarApart == {6}
=============================================================================
