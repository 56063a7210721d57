---------------------------- MODULE MCClockBoard ----------------------------
(* Two boards on two switching boards; the run numbers are chosen so that  *)
(* their bytes are commands of the reset protocol.                         *)
EXTENDS ClockBoard

CONSTANTS f1, f2, s1, s2

MCFEB    == {f1, f2}
MCSWB    == {s1, s2}
MCAddr   == [f \in MCFEB |-> IF f = f1 THEN <<0, 16>> ELSE <<0, 48>>]
MCBoards == [s \in MCSWB |-> IF s = s1 THEN {f1} ELSE {f2}]
MCByte   == {0, 1, RunPrepare, Sync, StartRun, EndRun, AbortRun,
             Reset, StopReset, Address, Comma}
MCRunBytes == <<<<0, 0, Reset, AbortRun>>, <<0, Sync, Address, StopReset>>>>
\* An operator presses up to two times, or up to two links are lost.
MCDisturbances == {<<1, 0>>, <<2, 0>>, <<0, 1>>, <<0, 2>>}
MCOnePress == {<<1, 0>>}
MCOneRun   == SubSeq(MCRunBytes, 1, 1)
MCPayload  == {<<0, 0, 0, RunPrepare>>}
=============================================================================
