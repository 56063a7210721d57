----------------------------- MODULE ClockBoard -----------------------------
(***************************************************************************)
(* The clock and reset system that starts and stops runs: the frontend     *)
(* crfe (backend_pc/midas_fe/clock_control/crfe.cpp), the frames that      *)
(* clockboard.cpp puts on the reset line, and the boards that decode them  *)
(* (StateController).                                                      *)
(*                                                                         *)
(* A run is started by MIDAS in two phases: the frontends of the switching *)
(* boards (switch_fe, sequence 400) request "Run Prepare" and wait for the *)
(* acknowledges of their boards or a timeout; crfe (sequence 500) then     *)
(* sends "Run Prepare", "Sync" and "Start Run".  It is stopped by crfe     *)
(* (sequence 100) and then checked by switch_fe (sequence 600).            *)
(***************************************************************************)
EXTENDS StateController, Sequences

CONSTANTS
    SWB,            \* the switching boards
    ActiveSWB,      \* those set in ODB SwitchingBoardMask
    Boards,         \* Boards[s]: the boards read out by switching board s
    ActiveFEB,      \* the boards set in ODB LinkMask
    MaxRuns,        \* bound: runs started
    RunBytes,       \* RunBytes[r]: the four bytes of run number r, highest first
    Buttons,        \* the reset commands an operator presses in the ODB
    Disturbances,   \* bound: how often an operator presses and a link is lost, as pairs
    PayloadField,   \* the values of the ODB field "Payload", as four bytes
    AckTimeout,     \* switch_fe may give up waiting for the acknowledges
    MaxLine         \* bound: a stop is not repeated before the line drained to it

ASSUME BoundAssumption ==
    /\ MaxRuns \in Nat /\ MaxLine \in Nat
    /\ Disturbances \subseteq Nat \X Nat
ASSUME MaskAssumption == /\ ActiveSWB \subseteq SWB /\ ActiveFEB \subseteq FEB
                         /\ Boards \in [SWB -> SUBSET FEB]
                         /\ AckTimeout \in BOOLEAN
ASSUME RunAssumption == /\ RunBytes \in [1..MaxRuns -> [1..4 -> Byte]]
                        /\ PayloadField \subseteq [1..4 -> Byte]
ASSUME LineAssumption == /\ {Comma, RunPrepare, Sync, StartRun, EndRun, Address} \subseteq Byte
                         /\ Buttons \subseteq Byte
                         /\ Addr \in [FEB -> Byte \X Byte]

VARIABLES
    terminated, \* boards whose data merger has ended the run
    line,       \* symbols written to the link FIFO of the clock board
    midas,      \* the run state MIDAS is in
    run,        \* ODB /Runinfo/Run number
    request,    \* ODB Request Run Prepare, one flag per switching board
    ready,      \* switching boards whose begin_of_run has returned
    asked,      \* switching boards whose begin_of_run waits for acknowledges
    acked,      \* boards that have sent the acknowledge of this run prepare
    listener,   \* listener[f]: what the switching board remembers of board f
    presses,    \* operator commands so far
    losses      \* reset links lost so far

sw_vars == <<midas, run, request, asked, ready, presses>>
ack_vars == <<acked, listener>>
vars == <<board, terminated, line, ack_vars, sw_vars, losses>>

(* What a byte on the line is meant to be, for whom, and how many of the   *)
(* same role are left in the frame: known to the sender, not to the boards.*)
Symbol == [byte : Byte, to : SUBSET FEB,
           role : {"comma", "command", "payload", "address"}, left : Nat]

(* The registers of run_control_link_listener.vhd; number holds the three  *)
(* bytes of the run number that fit into the acknowledge word.             *)
Listener == [run_prep_acknowledge_received : BOOLEAN,
             end_of_run_received : BOOLEAN, run_number : [1..3 -> Byte]]

CBTypeOK ==
    /\ board \in [FEB -> Controller]
    /\ line \in Seq(Symbol)
    /\ midas \in {"stopped", "starting", "running", "stopping", "waiting"}
    /\ run \in 0..MaxRuns
    /\ request \in [SWB -> BOOLEAN]
    /\ ready \subseteq SWB
    /\ terminated \subseteq FEB
    /\ asked \subseteq SWB
    /\ acked \subseteq FEB
    /\ listener \in [FEB -> Listener]
    /\ <<presses, losses>> \in Disturbances \cup {<<0, 0>>}

CBInit ==
    /\ Init
    /\ line = <<>>
    /\ midas = "stopped"
    /\ run = 0
    /\ request = [s \in SWB |-> FALSE]
    /\ ready = {}
    /\ terminated = {}
    /\ asked = {} /\ acked = {}
    /\ listener = [f \in FEB |-> [run_prep_acknowledge_received |-> FALSE,
                                  end_of_run_received |-> FALSE,
                                  run_number |-> [i \in 1..3 |-> 0]]]
    /\ presses = 0 /\ losses = 0
-----------------------------------------------------------------------------
(***************************************************************************)
(* write_command: the frames of clockboard.cpp.  Which commands carry a    *)
(* payload is the table of reset_protocol.h.                               *)
(***************************************************************************)
HasPayload(cmd) == cmd \in {RunPrepare, StartLinkTest, StartSyncTest, TestSync,
                            Reset, StopReset, Address}

As(role, to, bytes) ==
    [i \in 1..Len(bytes) |->
        [byte |-> bytes[i], to |-> to, role |-> role, left |-> Len(bytes) - i]]

Command(to, cmd, payload) ==
    As("command", to, <<cmd>>)
        \o (IF HasPayload(cmd) THEN As("payload", to, payload) ELSE <<>>)

Frame(cmd, payload) ==
    As("comma", FEB, <<Comma, Comma, Comma>>) \o Command(FEB, cmd, payload)

AddressedFrame(cmd, payload, f) ==
    As("address", {f}, <<Address>> \o Addr[f]) \o Command({f}, cmd, payload)

Zero == <<0, 0, 0, 0>>

Write(symbols) == line' = line \o symbols
-----------------------------------------------------------------------------
(* MIDAS starts a transition; the switching boards are called first.       *)
StartTransition ==
    /\ midas = "stopped" /\ run < MaxRuns
    /\ midas' = "starting" /\ run' = run + 1 /\ asked' = {} /\ ready' = {}
    /\ UNCHANGED <<board, terminated, line, ack_vars, request, presses, losses>>

(* switch_fe resets what its listeners remember.  It holds both reset bits *)
(* at once; the listener obeys the second, for the end of run, only while  *)
(* the first is not set.                                                   *)
ResetListeners(s) ==
    listener' = [f \in FEB |->
        IF f \in Boards[s]
        THEN [listener[f] EXCEPT !.run_prep_acknowledge_received = FALSE,
                                 !.run_number = [i \in 1..3 |-> 0]]
        ELSE listener[f]]

(* switch_fe begin_of_run, up to its request of the run prepare.           *)
RequestRunPrepare(s) ==
    /\ midas = "starting" /\ s \notin asked
    /\ asked' = asked \cup {s}
    /\ request' = [request EXCEPT ![s] = TRUE]
    /\ ResetListeners(s)
    /\ UNCHANGED <<board, terminated, line, acked, midas, run, ready, presses, losses>>

(* It cancels the start if it does not find crfe, or its address, in the   *)
(* ODB.  All switching boards read the same ODB: none of them has asked.   *)
StartCancelled ==
    /\ midas = "starting" /\ asked = {}
    /\ midas' = "stopped"
    /\ \E s \in SWB : ResetListeners(s)
    /\ UNCHANGED <<board, terminated, line, acked, run, request, asked, ready, presses, losses>>

(* run_control.vhd counts an acknowledge if the run number is right.       *)
runNr_ack == {f \in FEB : /\ listener[f].run_prep_acknowledge_received
                          /\ \A i \in 1..3 : listener[f].run_number[i] = RunBytes[run][5 - i]}

run_stop_ack == {f \in FEB : listener[f].end_of_run_received}

(* It returns when its active boards acknowledged, or after 3 s: then it   *)
(* logs a mismatch and returns CM_SUCCESS all the same.                    *)
RequestReturns(s) ==
    /\ midas = "starting" /\ s \in asked \ ready
    /\ AckTimeout \/ (Boards[s] \cap ActiveFEB) \subseteq runNr_ack
    /\ ready' = ready \cup {s}
    /\ UNCHANGED <<board, terminated, line, ack_vars, midas, run, request, asked, presses, losses>>

(* The register runnumber of a board; the first byte sent is the highest.  *)
HoldsRunNumber(f) ==
    board[f].payload["PREP"] = [i \in 1..4 |-> RunBytes[run][5 - i]]

(* Mutant: the acknowledge does not clear the end of the last run.         *)
AcknowledgeKeep(f) ==
    /\ board[f].o_state = "PREP" /\ f \notin acked
    /\ acked' = acked \cup {f}
    /\ listener' = [listener EXCEPT ![f].run_prep_acknowledge_received = TRUE,
           ![f].run_number = [i \in 1..3 |-> board[f].payload["PREP"][i]]]
    /\ UNCHANGED <<board, terminated, line, sw_vars, losses>>

(* The data merger of a board that shows PREP sends one acknowledge with   *)
(* the run number; the listener takes it and forgets the last end of run.  *)
Acknowledge(f) ==
    /\ board[f].o_state = "PREP" /\ f \notin acked
    /\ acked' = acked \cup {f}
    /\ listener' = [listener EXCEPT ![f] =
           [run_prep_acknowledge_received |-> TRUE, end_of_run_received |-> FALSE,
            run_number |-> [i \in 1..3 |-> board[f].payload["PREP"][i]]]]
    /\ UNCHANGED <<board, terminated, line, sw_vars, losses>>

(* prepare_run_on_request: waits for all switching boards of the mask,     *)
(* sends the run number, and clears the requests.                          *)
PrepareRunOnRequest ==
    /\ \E s \in SWB : request[s]
    /\ ActiveSWB # {}
    /\ \A s \in ActiveSWB : request[s]
    /\ Write(Frame(RunPrepare, RunBytes[run]))
    /\ request' = [s \in SWB |-> FALSE]
    /\ UNCHANGED <<board, terminated, ack_vars, midas, run, asked, ready, presses, losses>>

(* Mutant: "Start Run" sent before "Sync".                                 *)
BeginOfRunSwapped ==
    /\ midas = "starting" /\ ready = SWB
    /\ Write(Frame(RunPrepare, Zero) \o Frame(StartRun, Zero) \o Frame(Sync, Zero))
    /\ midas' = "running"
    /\ UNCHANGED <<board, terminated, ack_vars, run, request, asked, ready, presses, losses>>

(* crfe begin_of_run, after all switching boards returned.                 *)
BeginOfRun ==
    /\ midas = "starting" /\ ready = SWB
    /\ Write(Frame(RunPrepare, Zero) \o Frame(Sync, Zero) \o Frame(StartRun, Zero))
    /\ midas' = "running"
    /\ UNCHANGED <<board, terminated, ack_vars, run, request, asked, ready, presses, losses>>

EndOfRun ==
    /\ midas = "running" /\ Len(line) <= MaxLine
    /\ Write(Frame(EndRun, Zero))
    /\ midas' = "stopping"
    /\ UNCHANGED <<board, terminated, ack_vars, run, request, asked, ready, presses, losses>>

(* switch_fe end_of_run: the stop succeeds once every active board sent    *)
(* its run end.                                                            *)
StopConfirmed ==
    /\ midas \in {"stopping", "waiting"}
    /\ ActiveFEB \subseteq run_stop_ack
    /\ midas' = "stopped"
    /\ UNCHANGED <<board, terminated, line, ack_vars, run, request, asked, ready, presses, losses>>

(* The first look misses a run end: it looks again, fifty times at most.   *)
WaitForRunEnd ==
    /\ midas = "stopping"
    /\ ~(ActiveFEB \subseteq run_stop_ack)
    /\ midas' = "waiting"
    /\ UNCHANGED <<board, terminated, line, ack_vars, run, request, asked, ready, presses, losses>>

(* After the last look the transition is cancelled and MIDAS keeps the     *)
(* run, even if this look has found the missing run end.                   *)
StopCancelled ==
    /\ midas = "waiting"
    /\ midas' = "running"
    /\ UNCHANGED <<board, terminated, line, ack_vars, run, request, asked, ready, presses, losses>>

(* cr_settings_changed: a reset command by hand, to all boards or to the   *)
(* one of ODB "FEBAddress".                                                *)
Press(cmd) ==
    /\ <<presses + 1, losses>> \in Disturbances /\ Len(line) <= MaxLine
    /\ presses' = presses + 1
    /\ \E p \in (IF cmd = RunPrepare /\ run > 0 THEN {RunBytes[run]} ELSE PayloadField) :
          \/ Write(Frame(cmd, p))
          \/ \E f \in FEB : Addr[f] # <<0, 0>> /\ Write(AddressedFrame(cmd, p, f))
    /\ UNCHANGED <<board, terminated, ack_vars, midas, run, request, asked, ready, losses>>
-----------------------------------------------------------------------------
(* The data merger of a terminating board ends the run: it raises          *)
(* "terminated", which it holds until it is shown IDLE or PREP again, and  *)
(* sends the run end to the switching board.                               *)
Terminate(f) ==
    /\ board[f].o_state = "TERMINATING" /\ f \notin terminated
    /\ terminated' = terminated \cup {f}
    /\ listener' = [listener EXCEPT ![f].run_prep_acknowledge_received = FALSE,
                                    ![f].end_of_run_received = TRUE]
    /\ UNCHANGED <<board, line, acked, sw_vars, losses>>

(* Mutant: a board never lowers "terminated" again.                        *)
TickKeep ==
    /\ Clock([f \in FEB |-> IF line = <<>> THEN Comma ELSE Head(line).byte],
             [f \in FEB |-> f \in terminated])
    /\ line' = IF line = <<>> THEN line ELSE Tail(line)
    /\ terminated' = terminated
    /\ acked' = {f \in acked :
                   board[f].o_state \notin {"IDLE", "OUT_OF_DAQ", "RUNNING", "TERMINATING"}}
    /\ UNCHANGED <<listener, sw_vars, losses>>

(* One clock of the line: all boards take the same byte.                   *)
Tick ==
    /\ Clock([f \in FEB |-> IF line = <<>> THEN Comma ELSE Head(line).byte],
             [f \in FEB |-> f \in terminated])
    /\ line' = IF line = <<>> THEN line ELSE Tail(line)
    /\ terminated' = {f \in terminated : board[f].o_state \notin {"IDLE", "PREP", "OUT_OF_DAQ"}}
    /\ acked' = {f \in acked :
                   board[f].o_state \notin {"IDLE", "OUT_OF_DAQ", "RUNNING", "TERMINATING"}}
    /\ UNCHANGED <<listener, sw_vars, losses>>

LoseLink(f) ==
    /\ <<presses, losses + 1>> \in Disturbances
    /\ HardReset(f)
    /\ losses' = losses + 1
    /\ UNCHANGED <<terminated, line, ack_vars, sw_vars>>

CBNext ==
    \/ StartTransition
    \/ \E s \in SWB : RequestRunPrepare(s) \/ RequestReturns(s)
    \/ StartCancelled
    \/ \E f \in FEB : Acknowledge(f)
    \/ PrepareRunOnRequest
    \/ BeginOfRun
    \/ EndOfRun
    \/ StopConfirmed
    \/ WaitForRunEnd
    \/ StopCancelled
    \/ \E cmd \in Buttons : Press(cmd)
    \/ Tick
    \/ \E f \in FEB : Terminate(f)
    \/ \E f \in FEB : LoseLink(f)

(* The line is clocked for ever, a terminating board finishes, and MIDAS   *)
(* completes a transition it has begun.                                    *)
Fairness ==
    /\ WF_vars(Tick)
    /\ \A s \in SWB : WF_vars(RequestRunPrepare(s)) /\ WF_vars(RequestReturns(s))
    /\ \A f \in FEB : WF_vars(Acknowledge(f)) /\ WF_vars(Terminate(f))
    /\ WF_vars(PrepareRunOnRequest)
    /\ WF_vars(BeginOfRun)
    /\ WF_vars(StopConfirmed) /\ WF_vars(WaitForRunEnd) /\ WF_vars(StopCancelled)

CBSpec == CBInit /\ [][CBNext]_vars /\ Fairness
-----------------------------------------------------------------------------
(***************************************************************************)
(* Properties.                                                             *)
(***************************************************************************)
Decoding(f) == board[f].addressed /\ ~board[f].recieving_payload

(* Framing: when a command arrives exactly the boards it is meant for      *)
(* decode it, so that none still waits for payload or skips somebody       *)
(* else's; and a byte that was sent as payload or address is never taken   *)
(* for a command that changes the state of a board.  Nothing on the line   *)
(* marks it; the boards must be in the right state when the command comes. *)
(* (A board that has just lost its link is not: losses.)                   *)
FramingKept ==
    losses = 0 /\ line # <<>> =>
        IF Head(line).role = "command"
        THEN {f \in FEB : Decoding(f)} = Head(line).to
        ELSE \A f \in FEB : Decoding(f) =>
                ~Accepted(board[f].state, Head(line).byte, FALSE)

(* A board that shows a state of the run holds the number of this run,     *)
(* complete, although crfe sends "Run Prepare" twice and the number is     *)
(* written to the register while the state is already PREP.  An abort      *)
(* between the two makes the boards obey the second, with number 0.        *)
RunNumberHeld ==
    presses + losses = 0 =>
        \A f \in ActiveFEB : board[f].o_state \in {"PREP", "SYNC", "RUNNING"} =>
            HoldsRunNumber(f)

(* A stop that MIDAS reports as done means that no active board takes      *)
(* data any more, even if an operator aborts the run or boards lose their  *)
(* link, and though an end of run of an earlier run may still be           *)
(* remembered by the switching boards.  (Not if both happen: a board that  *)
(* lost its link may take the bytes of an address for commands.)           *)
StoppedMeansEnded ==
    midas = "stopped" => \A f \in ActiveFEB : board[f].o_state # "RUNNING"

(* A run whose start is not cancelled is running on all active boards at   *)
(* some time, or is already being ended, or was disturbed.                 *)
RunStarts ==
    midas = "starting" /\ asked # {} ~>
        \/ midas # "starting" /\ \A f \in ActiveFEB : board[f].o_state = "RUNNING"
        \/ presses + losses > 0

(* MIDAS is asked again whenever a stop was cancelled.                     *)
StopsAgain == []<>(midas # "running")

(* A stop is not answered by an endless series of cancellations: repeated  *)
(* often enough it is confirmed, in every run.  If an operator has aborted *)
(* it may be cancelled for ever (StopSucceeds), but the boards are idle.   *)
RunEnds ==
    StopsAgain =>
        (midas = "stopping" ~>
            \/ midas = "stopped"
            \/ presses > 0 /\ \A f \in ActiveFEB : board[f].o_state = "IDLE"
            \/ losses > 0)

(* What the board's documentation promises, that a run is left through     *)
(* "terminating" and so with a run end: the stop of every run whose links  *)
(* hold is confirmed in the end.  (Violated: an abort leaves no run end.)  *)
StopSucceeds ==
    StopsAgain => (midas = "stopping" ~> midas = "stopped" \/ losses > 0)
=============================================================================
