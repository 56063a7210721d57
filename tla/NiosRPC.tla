------------------------------ MODULE NiosRPC ------------------------------
(***************************************************************************)
(* Commands that the switching PC gives to the Nios of a front-end board:  *)
(* FEBsc_NiosRPC of FEBSlowcontrolInterface.cpp, which writes a payload    *)
(* into the memory of the board and a command into the register CMD_LEN    *)
(* and then reads that register until the command is gone, and sc.h of the *)
(* board, whose callback runs while a command is there and writes the      *)
(* status over it.  Both of them write CMD_LEN, and neither can tell whose *)
(* status or command it overwrites.                                        *)
(*                                                                         *)
(* What FEB_write and FEB_read do is taken from module SlowControl: as     *)
(* long as all transactions of the program ended well they do what they    *)
(* say; afterwards a write that ends well may be under way or lost, and a  *)
(* read may bring an old value.  Writes to a board stay in order.          *)
(***************************************************************************)
EXTENDS Naturals, Sequences

CONSTANTS
  MaxCalls,     \* calls of FEBsc_NiosRPC
  MaxChunks,    \* parts of a payload
  MaxPolls,     \* timeout_cnt at which a call gives up (500)
  MaxFailures,  \* slow control transactions that fail
  MaxReboots    \* restarts of the Nios

ASSUME NiosRPCAssumption ==
  /\ MaxCalls \in Nat /\ MaxChunks \in Nat /\ MaxPolls \in Nat \ {0}
  /\ MaxFailures \in Nat /\ MaxReboots \in Nat

VARIABLES
  call,      \* the call that runs, or ran last: its locals and its result
  got,       \* the value of CMD_LEN whose lower half it returned
  ram,       \* whose chunk lies where in the memory of the board
  cmd_len,   \* CMD_LEN: cmd iff its upper half is not 0, n its lower half
  nios,      \* where the Nios is, and what its callback has read
  late,      \* writes on their way to the board
  clears,    \* main() of this board resets CMD_LEN (the scifi boards)
  sc_clean,  \* observer: no slow control transaction of the program failed
  quiet,     \* observer: no callback ran when CMD_LEN was written
  cleared,   \* observer: main() reset CMD_LEN since
  started,   \* observer: how often the command of each call was started
  failures, reboots

board_vars == <<ram, cmd_len, quiet, cleared>>
vars == <<call, got, board_vars, nios, late, clears, sc_clean, started,
          failures, reboots>>

Calls == 1..MaxCalls
Chunks == 1..MaxChunks

\* The values of CMD_LEN, with the call whose command or status it is.
CmdLen == [cmd : BOOLEAN, n : 0..MaxChunks, of : 0..MaxCalls]
Status(c) == [cmd |-> FALSE, n |-> 0, of |-> c]
Command(c, index) == [cmd |-> TRUE, n |-> index, of |-> c]

Writes == [to : {"ram"}, at : Chunks, of : Calls] \cup [to : {"offset"}]
          \cup [to : {"cmd_len"}, value : {v \in CmdLen : v.cmd /\ v.of # 0}]

Locals == [pc : {"idle", "payload", "offset", "command", "poll"},
           id : 0..MaxCalls, size : 0..MaxChunks, chunk : 1..(MaxChunks + 1),
           polls : 0..(MaxPolls - 1), result : {"none", "status", "error", "timeout"}]

NRTypeOK ==
  /\ call \in Locals
  /\ got \in CmdLen /\ cmd_len \in CmdLen
  /\ ram \in [Chunks -> 0..MaxCalls]
  /\ nios \in [pc : {"ready", "callback", "boot", "init"}, n : 0..MaxChunks, of : 0..MaxCalls]
  /\ late \in Seq(Writes)
  /\ clears \in BOOLEAN /\ sc_clean \in BOOLEAN /\ quiet \in BOOLEAN /\ cleared \in BOOLEAN
  /\ started \in [Calls -> Nat]
  /\ failures \in 0..MaxFailures /\ reboots \in 0..MaxReboots

NRInit ==
  /\ call = [pc |-> "idle", id |-> 0, size |-> 0, chunk |-> 1, polls |-> 0, result |-> "none"]
  /\ got = Status(0) /\ cmd_len = Status(0)
  /\ ram = [i \in Chunks |-> 0]
  /\ nios = [pc |-> "ready", n |-> 0, of |-> 0]
  /\ late = <<>>
  /\ clears \in BOOLEAN
  /\ sc_clean = TRUE /\ quiet = TRUE /\ cleared = FALSE
  /\ started = [c \in Calls |-> 0]
  /\ failures = 0 /\ reboots = 0

-----------------------------------------------------------------------------
(***************************************************************************)
(* Slow control.                                                           *)
(***************************************************************************)
Execute(w) ==
  /\ ram' = IF w.to = "ram" THEN [ram EXCEPT ![w.at] = w.of] ELSE ram
  /\ cmd_len' = IF w.to = "cmd_len" THEN w.value ELSE cmd_len
  /\ quiet' = IF w.to = "cmd_len" THEN nios.pc # "callback" ELSE quiet
  /\ cleared' = (cleared /\ w.to # "cmd_len")

ExecuteLate ==
  /\ late # <<>>
  /\ Execute(Head(late))
  /\ late' = Tail(late)
  /\ UNCHANGED <<call, got, nios, clears, sc_clean, started, failures, reboots>>

Returned(result) == [call EXCEPT !.pc = "idle", !.result = result]

Transaction(ok) ==
  /\ ok \/ failures < MaxFailures
  /\ failures' = IF ok THEN failures ELSE failures + 1
  /\ sc_clean' = (sc_clean /\ ok)

\* A call goes on with "then" if its write ends well.
FEB_write(w, then) ==
  \E ok \in BOOLEAN :
    /\ Transaction(ok)
    /\ call' = IF ok THEN then ELSE Returned("error")
    /\ \/ late = <<>> /\ Execute(w) /\ UNCHANGED late
       \/ ~sc_clean' /\ late' = Append(late, w) /\ UNCHANGED board_vars
       \/ ~sc_clean' /\ UNCHANGED <<late, board_vars>>
    /\ UNCHANGED <<got, nios, clears, started, reboots>>

-----------------------------------------------------------------------------
(***************************************************************************)
(* FEBsc_NiosRPC.                                                          *)
(***************************************************************************)
AfterChunk(chunk, size) == IF chunk <= size THEN "payload" ELSE "offset"

Start ==
  /\ call.pc = "idle" /\ call.id < MaxCalls
  /\ \E size \in 0..MaxChunks :
       call' = [pc |-> AfterChunk(1, size), id |-> call.id + 1, size |-> size,
                chunk |-> 1, polls |-> 0, result |-> "none"]
  /\ got' = Status(0)
  /\ UNCHANGED <<board_vars, nios, late, clears, sc_clean, started, failures, reboots>>

\* (mutant: index is not advanced)
AddressFixed(chunk) == 1
Address(chunk) == chunk

WritePayload ==
  /\ call.pc = "payload"
  /\ FEB_write([to |-> "ram", at |-> Address(call.chunk), of |-> call.id],
               [call EXCEPT !.pc = AfterChunk(call.chunk + 1, call.size), !.chunk = @ + 1])

\* The offset is the same for all calls.
WriteOffset ==
  /\ call.pc = "offset"
  /\ FEB_write([to |-> "offset"], [call EXCEPT !.pc = "command"])

WriteCommand ==
  /\ call.pc = "command"
  /\ FEB_write([to |-> "cmd_len", value |-> Command(call.id, call.size)],
               [call EXCEPT !.pc = "poll"])

\* (mutants: one poll more; the wrong half of the register is looked at)
LastPollLate == call.polls = MaxPolls
LastPoll == call.polls + 1 >= MaxPolls
FinishedLower(readback) == readback.n = 0
Finished(readback) == ~readback.cmd

\* An old read: its value may look like a status or like a command.
Stale == IF sc_clean THEN {} ELSE {Status(0), Command(0, 0)}

GiveUp ==
  /\ call.pc = "poll" /\ LastPoll
  /\ call' = Returned("timeout")
  /\ UNCHANGED <<got, board_vars, nios, late, clears, sc_clean, started, failures, reboots>>

Poll ==
  /\ call.pc = "poll" /\ ~LastPoll
  /\ \/ /\ Transaction(TRUE)
        /\ \E readback \in {cmd_len} \cup Stale :
             \/ Finished(readback) /\ call' = Returned("status") /\ got' = readback
             \/ ~Finished(readback) /\ call' = [call EXCEPT !.polls = @ + 1] /\ UNCHANGED got
     \/ Transaction(FALSE) /\ call' = Returned("error") /\ UNCHANGED got
  /\ UNCHANGED <<board_vars, nios, late, clears, started, reboots>>

-----------------------------------------------------------------------------
(***************************************************************************)
(* The Nios.  The interrupt is there as long as the upper half of CMD_LEN  *)
(* is not 0.                                                               *)
(***************************************************************************)
Callback ==
  /\ nios.pc = "ready" /\ cmd_len.cmd
  /\ nios' = [pc |-> "callback", n |-> cmd_len.n, of |-> cmd_len.of]
  /\ started' = [started EXCEPT ![cmd_len.of] = @ + 1]
  /\ UNCHANGED <<call, got, board_vars, late, clears, sc_clean, failures, reboots>>

CallbackEnds ==
  /\ nios.pc = "callback"
  /\ cmd_len' = Status(nios.of)
  /\ nios' = [nios EXCEPT !.pc = "ready"]
  /\ UNCHANGED <<call, got, ram, quiet, cleared, late, clears, sc_clean, started,
                 failures, reboots>>

\* The firmware, and with it CMD_LEN, does not notice.
Reboot ==
  /\ reboots < MaxReboots
  /\ nios' = [nios EXCEPT !.pc = "boot"]
  /\ reboots' = reboots + 1
  /\ UNCHANGED <<call, got, board_vars, late, clears, sc_clean, started, failures>>

\* (mutant: main() leaves the register alone)
AfterBootKept == cmd_len
AfterBoot == IF clears THEN Status(0) ELSE cmd_len

Main ==
  /\ nios.pc = "boot"
  /\ cmd_len' = AfterBoot
  /\ cleared' = (cleared \/ clears)
  /\ nios' = [nios EXCEPT !.pc = "init"]
  /\ UNCHANGED <<call, got, ram, quiet, late, clears, sc_clean, started, failures, reboots>>

RegisterCallback ==
  /\ nios.pc = "init"
  /\ nios' = [nios EXCEPT !.pc = "ready"]
  /\ UNCHANGED <<call, got, board_vars, late, clears, sc_clean, started, failures, reboots>>

NRNext ==
  \/ Start \/ WritePayload \/ WriteOffset \/ WriteCommand \/ Poll \/ GiveUp
  \/ ExecuteLate
  \/ Callback \/ CallbackEnds
  \/ Reboot \/ Main \/ RegisterCallback

NRSpec == NRInit /\ [][NRNext]_vars
-----------------------------------------------------------------------------
(* The status that a call returns is the one of its own command, although  *)
(* earlier calls timed out and their commands ended later, or the Nios was *)
(* restarted; unless a callback still ran when it wrote CMD_LEN, the Nios  *)
(* has reset the register since, or slow control has failed.               *)
OwnStatus ==
  call.result = "status" /\ sc_clean /\ quiet =>
    got = Status(call.id) \/ (cleared /\ got = Status(0))

(* While the Nios runs the command of a call that waits for it, it sees    *)
(* the payload of this call, all of it, and nothing of an earlier one.     *)
PayloadWhole ==
  nios.pc = "callback" /\ call.pc = "poll" /\ nios.of = call.id /\ sc_clean =>
    nios.n = call.size /\ \A i \in 1..nios.n : ram[i] = call.id

(* No command is started twice, whatever times out, fails or comes late,   *)
(* except by restarts on boards that do not reset CMD_LEN.                 *)
RunsOnce ==
  \A c \in Calls : started[c] <= 1 + (IF clears THEN 0 ELSE reboots)
=============================================================================
