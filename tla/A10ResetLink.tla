---------------------------- MODULE A10ResetLink ----------------------------
(***************************************************************************)
(* The clock box that an Arria 10 board stands in for (missing_hardware.h: *)
(* A10_EMULATED_CLOCK_BOX): crfe calls clockboard_a10.cpp, which writes    *)
(* two registers of the board; a10_reset_link.vhd makes the bytes of the   *)
(* reset protocol from them, for four outputs with a front-end board       *)
(* (StateController) on each.                                              *)
(*                                                                         *)
(* The registers reach the clock of the link through a FIFO: the writes of *)
(* one call arrive in their order, at most one in a clock, and nothing     *)
(* says how many clocks apart.  Calls come from different callbacks of     *)
(* crfe, milliseconds apart.                                               *)
(***************************************************************************)
EXTENDS StateController, Sequences

CONSTANTS
  Output,       \* Output[f]: the output that board f hangs on, 0 to 3
  RunBytes,     \* RunBytes[r]: the four bytes of run number r, highest first
  MaxRuns,      \* bound: runs started
  MaxDisturbed, \* bound: aborts by an operator, restarts of crfe, starts that timed out
  Spacings      \* fewest clocks between two register writes of one call

ASSUME OutputAssumption == Output \in [FEB -> 0..3]
ASSUME A10Assumption ==
  /\ MaxRuns \in Nat /\ MaxDisturbed \in Nat /\ Spacings \subseteq Nat \ {0}
  /\ RunBytes \in [1..MaxRuns -> [1..4 -> Byte]]
  /\ {RunPrepare, Sync, StartRun, EndRun, AbortRun, Reset, StopReset, Comma} \subseteq Byte

VARIABLES
  writes,           \* register writes on their way
  spacing, since,   \* their distance; clocks since the last, as far as it counts
  reset_run_number, \* RESET_LINK_RUN_NUMBER_REGISTER_W, highest byte first
  reset_ctl,        \* RESET_LINK_CTL_REGISTER_W: output and command
  reg_run_command,  \* the command of the last clock
  cur_output,       \* the output that is selected
  xcvr_tx_data,     \* the byte on the selected outputs
  sends,            \* what it is; xcvr_tx_datak is set for a comma
  reset_state,      \* the sequencer
  midas, run,       \* the run state MIDAS is in, and its run number
  ended,            \* boards whose run end the switching board has seen
  disturbed         \* aborts, restarts and starts that timed out so far

register_vars == <<writes, since, reset_run_number, reset_ctl>>
link_vars == <<reg_run_command, cur_output, xcvr_tx_data, sends, reset_state>>
vars == <<board, register_vars, spacing, link_vars, midas, run, ended, disturbed>>

Zero == <<0, 0, 0, 0>>
All == 7                                \* selects all outputs
NumberState == <<"rNB0", "rNB1", "rNB2", "rNB3">>
Numbers == {NumberState[i] : i \in 1..4}

RLTypeOK ==
  /\ TypeOK
  /\ writes \in Seq([register : {"number"}, value : [1..4 -> Byte]]
                    \cup [register : {"ctl"}, value : {0, All} \X Byte])
  /\ spacing \in Spacings /\ since \in 0..spacing
  /\ reset_run_number \in [1..4 -> Byte] /\ reset_ctl \in {0, All} \X Byte
  /\ reg_run_command \in Byte /\ cur_output \in {0, 4, All} /\ xcvr_tx_data \in Byte
  /\ sends \in {"comma", "command", "number"}
  /\ reset_state \in {"idle", "sync", "start_run", "end_run"} \cup Numbers
  /\ midas \in {"stopped", "starting", "prepared", "running", "stopping"}
  /\ run \in 0..MaxRuns /\ ended \subseteq FEB /\ disturbed \in 0..MaxDisturbed
-----------------------------------------------------------------------------
(***************************************************************************)
(* clockboard_a10.cpp: the register writes of a call.                      *)
(***************************************************************************)
Toggle(cmd) == << [register |-> "ctl", value |-> <<All, cmd>>],
                  [register |-> "ctl", value |-> <<0, 0>>] >>

\* Only the run number is ever read from the payload register.
WriteCommand(cmd, payload) ==
  (IF cmd = RunPrepare THEN <<[register |-> "number", value |-> payload]>> ELSE <<>>)
    \o Toggle(cmd)

InitClockboard == Toggle(Reset) \o Toggle(StopReset)

RLInit ==
  /\ Init
  /\ writes = InitClockboard
  /\ spacing \in Spacings /\ since = spacing
  /\ reset_run_number = Zero /\ reset_ctl = <<0, 0>>
  /\ reg_run_command = 0 /\ cur_output = 4 /\ xcvr_tx_data = Comma
  /\ sends = "comma" /\ reset_state = "idle"
  /\ midas = "stopped" /\ run = 0 /\ ended = {} /\ disturbed = 0
-----------------------------------------------------------------------------
(***************************************************************************)
(* a10_reset_link.vhd: one clock.                                          *)
(***************************************************************************)
Put(what, byte, next) == sends' = what /\ xcvr_tx_data' = byte /\ reset_state' = next

\* A command counts in the clock in which it replaces no command.
Arrives(cmd) == reg_run_command = 0 /\ reset_ctl[2] = cmd

(* The commands of a run go out in this order only.  (mutants: a run may   *)
(* be prepared again; the sequencer forgets that it was prepared)          *)
OrderAgain == { <<"idle", RunPrepare, "rNB0">>, <<"sync", RunPrepare, "rNB0">>,
                <<"sync", Sync, "start_run">>, <<"start_run", StartRun, "end_run">>,
                <<"end_run", EndRun, "idle">> }
Order == { <<"idle", RunPrepare, "rNB0">>, <<"sync", Sync, "start_run">>,
           <<"start_run", StartRun, "end_run">>, <<"end_run", EndRun, "idle">> }
AfterNumberIdle == "idle"
AfterNumber == "sync"

\* Any other command goes out at once, and the next run may be prepared.
Immediate == \E cmd \in Byte \ {0, RunPrepare, Sync, StartRun, EndRun} : Arrives(cmd)

InOrder == \E step \in Order :
  /\ reset_state = step[1] /\ Arrives(step[2])
  /\ Put("command", step[2], step[3])

\* The low byte of the number goes first.
NumberByte == \E i \in 1..4 :
  /\ reset_state = NumberState[i]
  /\ Put("number", reset_run_number[5 - i],
         IF i < 4 THEN NumberState[i + 1] ELSE AfterNumber)

Idles ==
  /\ reset_state \notin Numbers
  /\ \A step \in Order : ~(reset_state = step[1] /\ Arrives(step[2]))
  /\ Put("comma", Comma, reset_state)

Sequencer == IF Immediate THEN Put("command", reset_ctl[2], "idle")
                          ELSE InOrder \/ NumberByte \/ Idles

(* 0 to 3 select one output, 7 all.  (mutant: one output is none)          *)
SelectedAll(f) == cur_output = All
Selected(f) == cur_output \in {Output[f], All}

\* Writes that arrive one after the other, or not yet.
TakeWrite ==
  /\ writes # <<>> /\ since = spacing
  /\ writes' = Tail(writes) /\ since' = 1
  /\ LET w == Head(writes)
     IN  IF w.register = "number"
         THEN reset_run_number' = w.value /\ UNCHANGED reset_ctl
         ELSE reset_ctl' = w.value /\ UNCHANGED reset_run_number
NoWrite ==
  /\ since' = IF since < spacing THEN since + 1 ELSE since
  /\ UNCHANGED <<writes, reset_run_number, reset_ctl>>

(* One clock of the link and of the boards behind it.                      *)
LinkClock ==
  /\ reg_run_command' = reset_ctl[2] /\ cur_output' = reset_ctl[1]
  /\ Sequencer
  /\ Clock([f \in FEB |-> IF Selected(f) THEN xcvr_tx_data ELSE Comma],
           [f \in FEB |-> f \in ended])
  /\ ended' = {f \in ended : board[f].o_state # "PREP"}
  /\ UNCHANGED <<spacing, midas, run, disturbed>>

Tick == LinkClock /\ NoWrite
TickWithWrite == LinkClock /\ TakeWrite
-----------------------------------------------------------------------------
(***************************************************************************)
(* crfe, MIDAS and the switching boards.                                   *)
(***************************************************************************)
\* Milliseconds after the last call everything has gone out.
Settled ==
  /\ writes = <<>> /\ since = spacing
  /\ reset_ctl[2] = 0 /\ reg_run_command = 0 /\ cur_output = 0
  /\ sends = "comma" /\ reset_state \notin Numbers
  /\ \A f \in FEB : ~board[f].recieving_payload /\ board[f].o_state = board[f].state

Call(from, to, commands) ==
  /\ midas = from /\ midas' = to /\ Settled
  /\ writes' = commands
  /\ UNCHANGED <<board, since, spacing, reset_run_number, reset_ctl, link_vars,
                 ended, disturbed>>

\* The switching boards request the run.
StartTransition ==
  /\ run < MaxRuns /\ run' = run + 1
  /\ Call("stopped", "starting", <<>>)

PrepareRunOnRequest ==
  /\ Call("starting", "prepared", WriteCommand(RunPrepare, RunBytes[run]))
  /\ UNCHANGED run

Begin == WriteCommand(RunPrepare, Zero) \o WriteCommand(Sync, Zero)
           \o WriteCommand(StartRun, Zero)

\* After all acknowledges, or 3 s, whichever the numbers they carry.
BeginOfRun == Call("prepared", "running", Begin) /\ UNCHANGED run

(* The 3 s are over before crfe prepared the run, since a switching board  *)
(* of its mask has not asked: switch_fe returns CM_SUCCESS all the same.   *)
BeginUnprepared ==
  /\ midas = "starting" /\ midas' = "running" /\ Settled
  /\ disturbed < MaxDisturbed /\ disturbed' = disturbed + 1
  /\ writes' = Begin
  /\ UNCHANGED <<board, since, spacing, reset_run_number, reset_ctl, link_vars, run, ended>>

EndOfRun == Call("running", "stopping", WriteCommand(EndRun, Zero)) /\ UNCHANGED run

StopConfirmed == ended = FEB /\ Call("stopping", "stopped", <<>>) /\ UNCHANGED run
StopCancelled == ended # FEB /\ Call("stopping", "running", <<>>) /\ UNCHANGED run

\* The operator presses "Abort Run", or crfe is started again.
Disturb ==
  /\ disturbed < MaxDisturbed /\ disturbed' = disturbed + 1
  /\ Settled
  /\ \/ writes' = WriteCommand(AbortRun, Zero)
     \/ writes' = InitClockboard
  /\ UNCHANGED <<board, since, spacing, reset_run_number, reset_ctl, link_vars,
                 midas, run, ended>>

\* The data merger of a board ends the run.
Terminate(f) ==
  /\ board[f].o_state = "TERMINATING" /\ f \notin ended
  /\ ended' = ended \cup {f}
  /\ UNCHANGED <<board, register_vars, spacing, link_vars, midas, run, disturbed>>

RLNext ==
  \/ Tick \/ TickWithWrite
  \/ StartTransition \/ PrepareRunOnRequest \/ BeginOfRun \/ BeginUnprepared
  \/ EndOfRun \/ StopConfirmed \/ StopCancelled \/ Disturb
  \/ \E f \in FEB : Terminate(f)

(* The clock runs, writes arrive, and MIDAS goes on with a start.          *)
RLFairness ==
  /\ WF_vars(Tick) /\ WF_vars(TickWithWrite)
  /\ WF_vars(PrepareRunOnRequest) /\ WF_vars(BeginOfRun)
  /\ \A f \in FEB : WF_vars(Terminate(f))

RLSpec == RLInit /\ [][RLNext]_vars /\ RLFairness
-----------------------------------------------------------------------------
(* The sequencer and the boards keep step, although the boards know        *)
(* nothing of it and crfe prepares each run twice: a run command that it   *)
(* lets through is obeyed by every board, and its number bytes, or the     *)
(* commas that some boards get instead, arrive where payload is awaited.   *)
CommandsObeyed ==
  /\ sends = "command" /\ xcvr_tx_data \in {RunPrepare, Sync, StartRun, EndRun} =>
       \A f \in FEB : /\ ~board[f].recieving_payload
                      /\ Accepted(board[f].state, xcvr_tx_data, FALSE)
  /\ sends = "number" => \A f \in FEB : board[f].recieving_payload

ShowsRun(f) == board[f].o_state \in {"PREP", "SYNC", "RUNNING"}

(* Run number r on the line: its low byte first.                           *)
OnLine(r) == [n \in 1..4 |-> RunBytes[r][5 - n]]

(* The bytes of the run number reach all boards in the order in which they *)
(* are sent: the n-th is the one a board awaits n-th, its payload byte     *)
(* 5 - n.  The write after the command selects output 0; if it comes d     *)
(* clocks after it, the other outputs get commas from the d-th byte on,    *)
(* and never anything else.                                                *)
BytesArrive ==
  disturbed = 0 => \A f \in FEB : ShowsRun(f) => \A n \in 1..4 :
    \/ board[f].payload["PREP"][5 - n] = OnLine(run)[n]
    \/ /\ n >= spacing /\ Output[f] # 0
       /\ board[f].payload["PREP"][5 - n] = Comma

(* What resetsys.vhd calls "run number from midas": a board that got all   *)
(* its bytes holds the number of the run, its payload byte 4 being the     *)
(* highest (ClockBoard!HoldsRunNumber).  clockboard.cpp sends the highest  *)
(* byte first, this board the lowest.                                      *)
RunNumberFromMidas ==
  disturbed = 0 => \A f \in FEB : ShowsRun(f) /\ (spacing >= 5 \/ Output[f] = 0) =>
    board[f].payload["PREP"] = [i \in 1..4 |-> RunBytes[run][5 - i]]

(* A run that is not disturbed starts on all boards, however close the     *)
(* writes come.                                                            *)
RunStarts ==
  midas = "starting" ~>
    \/ midas # "starting" /\ \A f \in FEB : board[f].o_state = "RUNNING"
    \/ disturbed > 0
=============================================================================
