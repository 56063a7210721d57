------------------------- MODULE MCStateController -------------------------
(* A line for TLC: every command byte of the reset protocol, the address   *)
(* command, and one byte that is no command; the address of the board has  *)
(* a command byte for its low half.                                        *)
EXTENDS StateController, FiniteSets

MCAddr == [f \in FEB |-> <<0, 16>>]

Commands == {RunPrepare, Sync, StartRun, EndRun, AbortRun, StartLinkTest,
             StopLinkTest, StartSyncTest, StopSyncTest, TestSync, Reset,
             StopReset, Enable, Disable}

MCByteFull == {0, Address} \cup Commands

(* The payload registers of a board hold at most one byte that is not 0, a *)
(* different one at a time; the control part of the controller never looks *)
(* at them.                                                                *)
SmallPayload ==
    \A f \in FEB : Cardinality({<<s, i>> \in PayloadState \X (1..4) :
                                    board[f].payload[s][i] # 0}) <= 1
=============================================================================
