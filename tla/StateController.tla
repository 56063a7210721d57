-------------------------- MODULE StateController --------------------------
(***************************************************************************)
(* The run state controller of the front-end boards                        *)
(* (fe_board/firmware/FEB_common/state_controller.vhd).                    *)
(*                                                                         *)
(* Every board decodes the same serial line, one byte per clock.  A byte   *)
(* is a command, a payload byte of the last command, or part of an address *)
(* command (x"40" and two address bytes) that selects the board the next   *)
(* command is for; nothing in the byte says which.  Two clocked processes  *)
(* share the work: the transition process (state, payload) runs only while *)
(* "addressed" is set, the address process sets and clears "addressed".    *)
(* Both read the registers as they were before the clock edge.             *)
(***************************************************************************)
EXTENDS Naturals

CONSTANTS
    FEB,            \* the boards that listen to the line
    Addr,           \* Addr[f]: the address jumpers of f, <<high byte, low byte>>
    Byte,           \* the byte values that appear on the line
    FullVersion,    \* the generic FULL_VERSION_g; resetsys.vhd sets it FALSE
    LinkLoss        \* boards may be reset by the loss of their reset link

ASSUME ByteAssumption == Byte \subseteq 0..255 /\ 0 \in Byte
ASSUME AddrAssumption == Addr \in [FEB -> (0..255) \X (0..255)]
ASSUME FlagAssumption == FullVersion \in BOOLEAN /\ LinkLoss \in BOOLEAN

(* Command bytes of the reset protocol.                                    *)
RunPrepare    == 16     \* x"10"
Sync          == 17     \* x"11"
StartRun      == 18     \* x"12"
EndRun        == 19     \* x"13"
AbortRun      == 20     \* x"14"
StartLinkTest == 32     \* x"20"
StopLinkTest  == 33     \* x"21"
StartSyncTest == 36     \* x"24"
StopSyncTest  == 37     \* x"25"
TestSync      == 38     \* x"26"
Reset         == 48     \* x"30"
StopReset     == 49     \* x"31"
Enable        == 50     \* x"32"
Disable       == 51     \* x"33"
Address       == 64     \* x"40"
Comma         == 188    \* x"BC", the idle byte of the line

RunState == {"IDLE", "PREP", "SYNC", "RUNNING", "TERMINATING",
             "LINK_TEST", "SYNC_TEST", "RESET", "OUT_OF_DAQ"}

(***************************************************************************)
(* The registers of one board.  payload[s] is the payload register that is *)
(* written in state s: runnumber in PREP, reset_mask in RESET, the test    *)
(* payloads in the tests.  It is indexed by the value the payload counter  *)
(* has when a byte arrives: the first byte sent is the most significant.   *)
(***************************************************************************)
PayloadState == {"PREP", "LINK_TEST", "SYNC_TEST", "RESET"}
Width(s) == IF s = "PREP" THEN 4 ELSE 2     \* bytes of the register of s

PayloadRegisters == [PayloadState -> [1..4 -> Byte]]

Controller ==
    [ state                : RunState,      \* the decoded run state
      recieving_payload    : BOOLEAN,       \* the next bytes are payload
      payload_byte_counter : 0..4,          \* how many are still to come
      payload              : PayloadRegisters,
      o_state              : RunState,      \* what the board is shown
      addressed            : BOOLEAN,       \* the transition process listens
      address_part1_match  : BOOLEAN,       \* the high address byte was ours
      recieving_address    : BOOLEAN,       \* the next bytes are an address
      address_counter      : 0..4,          \* addressing_payload_byte_counter
      ignoring_signals     : BOOLEAN ]      \* skip payload meant for others

PowerUp ==
    [ state |-> "IDLE", recieving_payload |-> FALSE, payload_byte_counter |-> 0,
      payload |-> [s \in PayloadState |-> [i \in 1..4 |-> 0]],
      o_state |-> "IDLE",
      addressed |-> TRUE, address_part1_match |-> FALSE,
      recieving_address |-> FALSE, address_counter |-> 0,
      ignoring_signals |-> FALSE ]
-----------------------------------------------------------------------------
(***************************************************************************)
(* Command decoding.  Goto holds <<state, command, next state>>.           *)
(***************************************************************************)
InRun == {"PREP", "SYNC", "RUNNING", "TERMINATING"}

CommonGoto ==
    {<<"IDLE", RunPrepare, "PREP">>, <<"PREP", Sync, "SYNC">>,
     <<"SYNC", StartRun, "RUNNING">>, <<"RUNNING", EndRun, "TERMINATING">>,
     <<"LINK_TEST", StopLinkTest, "IDLE">>, <<"SYNC_TEST", StopSyncTest, "IDLE">>,
     <<"RESET", StopReset, "IDLE">>}
    \cup (InRun \X {AbortRun} \X {"IDLE"})
    \cup ((RunState \ {"RESET", "OUT_OF_DAQ"}) \X {Reset} \X {"RESET"})

(* Only the full version starts the tests, and leaves and joins the DAQ.   *)
FullGoto ==
    {<<"IDLE", StartLinkTest, "LINK_TEST">>, <<"IDLE", StartSyncTest, "SYNC_TEST">>,
     <<"OUT_OF_DAQ", Enable, "IDLE">>}
    \cup ((RunState \ {"IDLE", "OUT_OF_DAQ"}) \X {Disable} \X {"OUT_OF_DAQ"})

Goto == CommonGoto \cup (IF FullVersion THEN FullGoto ELSE {})

(* The small version leaves the states it cannot enter at other bytes.     *)
Otherwise(s, b) ==
    IF ~FullVersion /\ \/ s = "OUT_OF_DAQ"
                       \/ s \in {"LINK_TEST", "SYNC_TEST"} /\ b # Disable
    THEN "IDLE" ELSE s

(* A finished termination takes precedence over whatever is on the line.   *)
Accepted(s, b, terminated) ==
    /\ ~(s = "TERMINATING" /\ terminated)
    /\ \E t \in RunState : <<s, b, t>> \in Goto

NextState(s, b, terminated) ==
    IF s = "TERMINATING" /\ terminated THEN "IDLE"
    ELSE IF Accepted(s, b, terminated)
         THEN CHOOSE t \in RunState : <<s, b, t>> \in Goto
         ELSE Otherwise(s, b)

(* Mutant: the command byte counted as payload.                            *)
PayloadBytesLong(b) ==
    IF b = RunPrepare THEN 5
    ELSE IF b \in {StartLinkTest, StartSyncTest, Reset} THEN 2 ELSE 0

(* The payload bytes the controller takes after a command it accepted.     *)
PayloadBytes(b) ==
    IF b = RunPrepare THEN 4
    ELSE IF b \in {StartLinkTest, StartSyncTest, Reset} THEN 2 ELSE 0

TakePayload(c, b) ==
    [c EXCEPT !.payload_byte_counter = @ - 1,
              !.recieving_payload = c.payload_byte_counter # 1,
              !.payload = IF c.state \in PayloadState
                          THEN [@ EXCEPT ![c.state][c.payload_byte_counter] = b]
                          ELSE @]

TakeCommand(c, b, terminated) ==
    LET n == IF Accepted(c.state, b, terminated) THEN PayloadBytes(b) ELSE 0
    IN  [c EXCEPT !.state = NextState(c.state, b, terminated),
                  !.recieving_payload = n > 0,
                  !.payload_byte_counter = IF n > 0 THEN n ELSE @]

(* Mutant: a command is obeyed even where payload is awaited.              *)
TransitionProcessEager(c, b, terminated) ==
    IF ~c.addressed THEN c
    ELSE IF c.recieving_payload /\ ~Accepted(c.state, b, terminated)
         THEN TakePayload(c, b)
         ELSE TakeCommand(c, b, terminated)

TransitionProcess(c, b, terminated) ==
    IF ~c.addressed THEN c
    ELSE IF c.recieving_payload THEN TakePayload(c, b)
    ELSE TakeCommand(c, b, terminated)
-----------------------------------------------------------------------------
(***************************************************************************)
(* The address process.  The code's four blocks run one after the other    *)
(* and the last assignment wins; which of them apply follows from the old  *)
(* values, in this order of precedence.                                    *)
(***************************************************************************)
StartAddress(c) ==
    [c EXCEPT !.addressed = FALSE, !.recieving_address = TRUE,
              !.address_part1_match = FALSE, !.address_counter = 2]

(* Mutant: the low address byte is not compared.                           *)
TakeAddressHalf(c, addr, b) ==
    IF c.address_counter = 1
    THEN [c EXCEPT !.address_counter = 0, !.recieving_address = FALSE,
                   !.addressed = c.address_part1_match]
    ELSE [c EXCEPT !.address_counter = @ - 1,
                   !.address_part1_match = @ \/ b = addr[1]]

TakeAddress(c, addr, b) ==
    LET match == b = addr[2] /\ c.address_part1_match
    IN  IF c.address_counter = 1
        THEN [c EXCEPT !.address_counter = 0, !.recieving_address = FALSE,
                       !.addressed = match,
                       !.address_part1_match = @ /\ ~match]
        ELSE [c EXCEPT !.address_counter = @ - 1,
                       !.address_part1_match = @ \/ b = addr[1]]

(* The first byte after the address of another board: a command of it.     *)
SkippedBytes(b) ==
    IF b = RunPrepare THEN 4
    ELSE IF b \in {StartLinkTest, StartSyncTest, TestSync, Reset} THEN 2 ELSE 0

IsAddressByte(c, b) == b = Address /\ ~c.recieving_payload /\ ~c.recieving_address

(* An address command in this place starts and is undone half way: the     *)
(* board receives an address and listens to commands at the same time.     *)
TakeForeignCommand(c, b) ==
    IF SkippedBytes(b) > 0
    THEN [c EXCEPT !.address_counter = SkippedBytes(b), !.ignoring_signals = TRUE]
    ELSE [c EXCEPT !.addressed = TRUE, !.address_part1_match = FALSE,
                   !.recieving_address = @ \/ IsAddressByte(c, b),
                   !.address_counter = IF IsAddressByte(c, b) THEN 2 ELSE @]

(* Mutant: the last skipped byte is counted as 0 instead of 1.             *)
SkipPayloadLate(c) ==
    LET last == c.address_counter = 0
    IN  [c EXCEPT !.address_counter = @ - 1, !.ignoring_signals = ~last,
                  !.addressed = @ \/ last, !.address_part1_match = @ /\ ~last]

SkipPayload(c) ==
    LET last == c.address_counter = 1
    IN  [c EXCEPT !.address_counter = @ - 1, !.ignoring_signals = ~last,
                  !.addressed = @ \/ last, !.address_part1_match = @ /\ ~last]

AddressProcess(c, addr, b) ==
    IF c.ignoring_signals THEN SkipPayload(c)
    ELSE IF c.recieving_address THEN TakeAddress(c, addr, b)
    ELSE IF ~c.addressed /\ c.address_counter = 0 THEN TakeForeignCommand(c, b)
    ELSE IF IsAddressByte(c, b) THEN StartAddress(c)
    ELSE c
-----------------------------------------------------------------------------
(* Mutant: the shown state does not wait for the payload.                  *)
ClockedUngated(c, addr, b, terminated) ==
    LET t == TransitionProcess(c, b, terminated)
        a == AddressProcess(c, addr, b)
    IN  [ state |-> t.state, recieving_payload |-> t.recieving_payload,
          payload_byte_counter |-> t.payload_byte_counter, payload |-> t.payload,
          o_state |-> c.state,
          addressed |-> a.addressed, address_part1_match |-> a.address_part1_match,
          recieving_address |-> a.recieving_address,
          address_counter |-> a.address_counter,
          ignoring_signals |-> a.ignoring_signals ]

(* One clock edge of a board that reads byte b.                            *)
Clocked(c, addr, b, terminated) ==
    LET t == TransitionProcess(c, b, terminated)
        a == AddressProcess(c, addr, b)
    IN  [ state |-> t.state, recieving_payload |-> t.recieving_payload,
          payload_byte_counter |-> t.payload_byte_counter, payload |-> t.payload,
          o_state |-> IF c.recieving_payload THEN c.o_state ELSE c.state,
          addressed |-> a.addressed, address_part1_match |-> a.address_part1_match,
          recieving_address |-> a.recieving_address,
          address_counter |-> a.address_counter,
          ignoring_signals |-> a.ignoring_signals ]

(* i_reset_n clears every register but o_state, which follows at the next  *)
(* clock.                                                                  *)
Cleared(c) == [PowerUp EXCEPT !.o_state = c.o_state]

VARIABLE board          \* board[f]: the registers of board f

Init == board = [f \in FEB |-> PowerUp]

(* All boards are clocked from the recovered clock of the same line.       *)
Clock(line, terminated) ==
    board' = [f \in FEB |-> Clocked(board[f], Addr[f], line[f], terminated[f])]

HardReset(f) == LinkLoss /\ board' = [board EXCEPT ![f] = Cleared(@)]
-----------------------------------------------------------------------------
(* On its own: an arbitrary line, arbitrary termination, resets any time.  *)
ClockAny == \E b \in Byte, terminated \in [FEB -> BOOLEAN] :
                Clock([f \in FEB |-> b], terminated)

Next == ClockAny \/ \E f \in FEB : HardReset(f)

Spec == Init /\ [][Next]_board

TypeOK == board \in [FEB -> Controller]
-----------------------------------------------------------------------------
(***************************************************************************)
(* Properties.                                                             *)
(***************************************************************************)
(* While payload is awaited the counter points into the payload register   *)
(* of the current state: the vector slice written by the payload branch is *)
(* never out of range, and the wait ends after as many bytes as were asked *)
(* for, whatever bytes and terminations arrive meanwhile.                  *)
PayloadFits(c) ==
    c.recieving_payload =>
        /\ c.state \in PayloadState
        /\ c.payload_byte_counter \in 1..Width(c.state)

(* The one address counter is shared by the address, and by the payload    *)
(* that is skipped: each of them only runs while it is positive, so it     *)
(* never counts below zero and the board never stays deaf.                 *)
CounterServesOne(c) ==
    /\ ~(c.recieving_address /\ c.ignoring_signals)
    /\ c.recieving_address => c.address_counter \in 1..2
    /\ c.ignoring_signals => c.address_counter \in 1..4 /\ ~c.addressed
    /\ c.address_counter > 0 => c.recieving_address \/ c.ignoring_signals

FramingOK == \A f \in FEB : PayloadFits(board[f]) /\ CounterServesOne(board[f])

(* The state a board shows follows the state it decoded by one step along  *)
(* an edge of the protocol, however long the payload hides it.             *)
Shown == INSTANCE RunStates WITH shown <- [f \in FEB |-> board[f].o_state],
                                 MayRestart <- LinkLoss

(* What the boards show implements the abstract run states: no state is    *)
(* skipped or shown out of order, whatever appears on the line.            *)
ShowsRunStates == Shown!Spec
=============================================================================
