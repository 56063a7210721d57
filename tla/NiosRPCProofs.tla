--------------------------- MODULE NiosRPCProofs ---------------------------
(***************************************************************************)
(* Proofs about NiosRPC, for any number of calls, chunks, polls, failures  *)
(* and restarts.                                                           *)
(***************************************************************************)
EXTENDS NiosRPC, SequenceTheorems, TLAPS

USE NiosRPCAssumption

-----------------------------------------------------------------------------
(***************************************************************************)
(* Types, with where the call is.                                          *)
(***************************************************************************)
CallInv ==
  /\ call.pc # "idle" => call.id # 0 /\ call.result = "none"
  /\ call.pc = "payload" => call.chunk <= call.size
  /\ cmd_len.cmd => cmd_len.of # 0

TypeInv == NRTypeOK /\ CallInv

LEMMA StatusType == \A c \in 0..MaxCalls : Status(c) \in CmdLen /\ ~Status(c).cmd
  BY DEF Status, CmdLen

LEMMA InitType == NRInit => TypeInv
<1> SUFFICES ASSUME NRInit PROVE TypeInv
  OBVIOUS
<1>1. call \in Locals /\ call.pc = "idle"
  BY DEF NRInit, Locals
<1>2. got \in CmdLen /\ cmd_len \in CmdLen /\ ~cmd_len.cmd
  BY StatusType DEF NRInit
<1>3. nios \in [pc : {"ready", "callback", "boot", "init"}, n : 0..MaxChunks, of : 0..MaxCalls]
  BY DEF NRInit
<1>4. ram \in [Chunks -> 0..MaxCalls] /\ started \in [Calls -> Nat]
  BY DEF NRInit
<1>5. late \in Seq(Writes)
  BY DEF NRInit
<1>6. clears \in BOOLEAN /\ sc_clean \in BOOLEAN /\ quiet \in BOOLEAN /\ cleared \in BOOLEAN
  BY Zenon DEF NRInit
<1>7. failures \in 0..MaxFailures /\ reboots \in 0..MaxReboots
  BY DEF NRInit
<1> QED BY <1>1, <1>2, <1>3, <1>4, <1>5, <1>6, <1>7 DEF TypeInv, NRTypeOK, CallInv

(* What a write leaves on the board, and what a call may be after it.      *)
LEMMA ExecuteType ==
  ASSUME TypeInv, NEW w \in Writes, Execute(w)
  PROVE  /\ ram' \in [Chunks -> 0..MaxCalls] /\ cmd_len' \in CmdLen
         /\ quiet' \in BOOLEAN /\ cleared' \in BOOLEAN
         /\ cmd_len'.cmd => cmd_len'.of # 0
<1>1. ram' \in [Chunks -> 0..MaxCalls]
  BY DEF Execute, Writes, TypeInv, NRTypeOK, Chunks, Calls
<1>2. cmd_len' \in CmdLen /\ (cmd_len'.cmd => cmd_len'.of # 0)
  BY DEF Execute, Writes, TypeInv, NRTypeOK, CallInv
<1>3. quiet' \in BOOLEAN /\ cleared' \in BOOLEAN
  BY DEF Execute, TypeInv, NRTypeOK
<1> QED BY <1>1, <1>2, <1>3

LEMMA WriteType ==
  ASSUME TypeInv, call.pc # "idle", NEW w \in Writes, NEW then \in Locals,
         then.pc # "idle" => then.id # 0 /\ then.result = "none",
         then.pc = "payload" => then.chunk <= then.size,
         FEB_write(w, then)
  PROVE  TypeInv'
<1>1. call' \in Locals
      /\ (call'.pc # "idle" => call'.id # 0 /\ call'.result = "none")
      /\ (call'.pc = "payload" => call'.chunk <= call'.size)
  <2>1. CASE call' = then
    BY <2>1
  <2>2. CASE call' = Returned("error")
    BY <2>2 DEF Returned, TypeInv, NRTypeOK, Locals
  <2> QED BY <2>1, <2>2 DEF FEB_write
<1>2. late' \in Seq(Writes)
  <2>1. late \in Seq(Writes)
    BY DEF TypeInv, NRTypeOK
  <2>2. Append(late, w) \in Seq(Writes)
    BY <2>1
  <2>3. late' = late \/ late' = Append(late, w)
    BY DEF FEB_write
  <2> QED BY <2>1, <2>2, <2>3
<1>3. /\ ram' \in [Chunks -> 0..MaxCalls] /\ cmd_len' \in CmdLen
      /\ quiet' \in BOOLEAN /\ cleared' \in BOOLEAN
      /\ cmd_len'.cmd => cmd_len'.of # 0
  <2>1. CASE Execute(w)
    BY <2>1, ExecuteType
  <2>2. CASE UNCHANGED board_vars
    BY <2>2 DEF board_vars, TypeInv, NRTypeOK, CallInv
  <2> QED BY <2>1, <2>2 DEF FEB_write
<1>4. sc_clean' \in BOOLEAN /\ failures' \in 0..MaxFailures
  BY DEF FEB_write, Transaction, TypeInv, NRTypeOK
<1>5. UNCHANGED <<got, nios, clears, started, reboots>>
  BY DEF FEB_write
<1> QED BY <1>1, <1>2, <1>3, <1>4, <1>5 DEF TypeInv, NRTypeOK, CallInv

LEMMA NextType == TypeInv /\ [NRNext]_vars => TypeInv'
<1> SUFFICES ASSUME TypeInv, [NRNext]_vars PROVE TypeInv'
  OBVIOUS
<1>0. call \in Locals /\ CallInv
  BY DEF TypeInv, NRTypeOK
<1>1. CASE UNCHANGED vars
  BY <1>1 DEF vars, board_vars, TypeInv, NRTypeOK, CallInv
<1>2. CASE Start
  <2>1. PICK size \in 0..MaxChunks :
          call' = [pc |-> AfterChunk(1, size), id |-> call.id + 1, size |-> size,
                   chunk |-> 1, polls |-> 0, result |-> "none"]
    BY <1>2 DEF Start
  <2>2. call' \in Locals /\ call'.id # 0 /\ call'.result = "none"
        /\ (call'.pc = "payload" => call'.chunk <= call'.size)
    BY <1>0, <1>2, <2>1 DEF Start, AfterChunk, Locals
  <2> QED BY <1>2, <2>2 DEF Start, TypeInv, NRTypeOK, CallInv, board_vars, Status, CmdLen
<1>3. CASE WritePayload
  <2> DEFINE then == [call EXCEPT !.pc = AfterChunk(call.chunk + 1, call.size), !.chunk = @ + 1]
             w == [to |-> "ram", at |-> Address(call.chunk), of |-> call.id]
  <2>1. then \in Locals /\ then.id # 0 /\ then.result = "none"
        /\ (then.pc = "payload" => then.chunk <= then.size)
    <3>1. call.chunk <= call.size /\ call.id # 0 /\ call.result = "none"
          /\ call.size \in 0..MaxChunks /\ call.chunk \in 1..(MaxChunks + 1)
      BY <1>0, <1>3 DEF WritePayload, CallInv, Locals
    <3>2. call.chunk + 1 \in 1..(MaxChunks + 1)
      BY <3>1
    <3>3. AfterChunk(call.chunk + 1, call.size) \in {"payload", "offset"}
          /\ (AfterChunk(call.chunk + 1, call.size) = "payload" => call.chunk + 1 <= call.size)
      BY DEF AfterChunk
    <3> DEFINE p == AfterChunk(call.chunk + 1, call.size)
               k == call.chunk + 1
    <3>4. then = [[call EXCEPT !.pc = p] EXCEPT !.chunk = k]
      BY <1>0 DEF Locals
    <3> HIDE DEF p, k
    <3>5. p \in {"payload", "offset"} /\ k \in 1..(MaxChunks + 1)
      BY <3>2, <3>3 DEF p, k
    <3>6. \A c \in Locals : c = [[call EXCEPT !.pc = p] EXCEPT !.chunk = k] =>
            c.pc = p /\ c.chunk = k /\ c.id = call.id /\ c.size = call.size /\ c.result = call.result
      BY <1>0, <3>5 DEF Locals
    <3> QED BY <1>0, <3>1, <3>3, <3>4, <3>5, <3>6 DEF p, k, Locals
  <2>2. w \in Writes
    BY <1>0, <1>3 DEF WritePayload, CallInv, Locals, Writes, Chunks, Calls, Address
  <2>3. FEB_write(w, then) /\ call.pc # "idle"
    BY <1>3 DEF WritePayload
  <2> HIDE DEF then, w
  <2> QED BY <2>1, <2>2, <2>3, WriteType
<1>4. CASE WriteOffset
  <2> DEFINE then == [call EXCEPT !.pc = "command"]
             w == [to |-> "offset"]
  <2>1. then \in Locals /\ then.id # 0 /\ then.result = "none" /\ then.pc # "payload"
    BY <1>0, <1>4 DEF WriteOffset, CallInv, Locals
  <2>2. w \in Writes
    BY DEF Writes
  <2>3. FEB_write(w, then) /\ call.pc # "idle"
    BY <1>4 DEF WriteOffset
  <2> HIDE DEF then, w
  <2> QED BY <2>1, <2>2, <2>3, WriteType
<1>5. CASE WriteCommand
  <2> DEFINE then == [call EXCEPT !.pc = "poll"]
             w == [to |-> "cmd_len", value |-> Command(call.id, call.size)]
  <2>1. then \in Locals /\ then.id # 0 /\ then.result = "none" /\ then.pc # "payload"
    BY <1>0, <1>5 DEF WriteCommand, CallInv, Locals
  <2>2. w \in Writes
    BY <1>0, <1>5 DEF WriteCommand, CallInv, Locals, Writes, Command, CmdLen
  <2>3. FEB_write(w, then) /\ call.pc # "idle"
    BY <1>5 DEF WriteCommand
  <2> HIDE DEF then, w
  <2> QED BY <2>1, <2>2, <2>3, WriteType
<1>6. CASE Poll
  <2>1. call' \in Locals /\ (call'.pc # "idle" => call'.id # 0 /\ call'.result = "none")
        /\ call'.pc # "payload"
    <3>1. \/ call' = [call EXCEPT !.pc = "idle", !.result = "status"]
          \/ call' = [call EXCEPT !.pc = "idle", !.result = "error"]
          \/ call' = [call EXCEPT !.polls = @ + 1]
      BY <1>6, Zenon DEF Poll, Returned
    <3>2. call.pc = "poll" /\ call.polls + 1 < MaxPolls
      BY <1>0, <1>6 DEF Poll, LastPoll, Locals
    <3>3. call.polls + 1 \in 0..(MaxPolls - 1)
      BY <1>0, <3>2 DEF Locals
    <3> QED BY <1>0, <3>1, <3>2, <3>3 DEF Locals, CallInv
  <2>2. got' \in CmdLen
    <3>1. Stale \subseteq CmdLen
      <4>1. Status(0) \in CmdLen /\ Command(0, 0) \in CmdLen
        BY DEF Status, Command, CmdLen
      <4> QED BY <4>1 DEF Stale
    <3>2. got' = got \/ got' \in {cmd_len} \cup Stale
      BY <1>6, Zenon DEF Poll
    <3> QED BY <3>1, <3>2 DEF TypeInv, NRTypeOK
  <2>3. sc_clean' \in BOOLEAN /\ failures' \in 0..MaxFailures
    <3>1. Transaction(TRUE) \/ Transaction(FALSE)
      BY <1>6, Zenon DEF Poll
    <3>2. failures \in 0..MaxFailures /\ sc_clean \in BOOLEAN
      BY DEF TypeInv, NRTypeOK
    <3>3. failures' = failures \/ (failures < MaxFailures /\ failures' = failures + 1)
      BY <3>1 DEF Transaction
    <3>4. failures' \in 0..MaxFailures
      BY <3>2, <3>3
    <3>5. sc_clean' \in BOOLEAN
      BY <3>1 DEF Transaction
    <3> QED BY <3>4, <3>5
  <2> QED BY <1>6, <2>1, <2>2, <2>3 DEF Poll, TypeInv, NRTypeOK, CallInv, board_vars
<1>7. CASE GiveUp
  <2>1. call' \in Locals /\ call'.pc = "idle"
    BY <1>0, <1>7 DEF GiveUp, Returned, Locals
  <2> QED BY <1>7, <2>1 DEF GiveUp, TypeInv, NRTypeOK, CallInv, board_vars
<1>8. CASE ExecuteLate
  <2>1. Head(late) \in Writes /\ late' \in Seq(Writes)
    BY <1>8, HeadTailProperties DEF ExecuteLate, TypeInv, NRTypeOK
  <2> QED BY <1>8, <2>1, ExecuteType DEF ExecuteLate, TypeInv, NRTypeOK, CallInv
<1>9. CASE Callback
  <2>1. nios' \in [pc : {"ready", "callback", "boot", "init"}, n : 0..MaxChunks, of : 0..MaxCalls]
    BY <1>9 DEF Callback, TypeInv, NRTypeOK, CmdLen
  <2>2. started' \in [Calls -> Nat]
    <3>1. cmd_len.of \in Calls
      BY <1>0, <1>9 DEF Callback, TypeInv, NRTypeOK, CmdLen, CallInv, Calls
    <3> QED BY <1>9, <3>1 DEF Callback, TypeInv, NRTypeOK
  <2> QED BY <1>9, <2>1, <2>2 DEF Callback, TypeInv, NRTypeOK, CallInv, board_vars
<1>10. CASE CallbackEnds
  <2>1. cmd_len' \in CmdLen /\ ~cmd_len'.cmd
    BY <1>10, StatusType DEF CallbackEnds, TypeInv, NRTypeOK
  <2>2. nios' \in [pc : {"ready", "callback", "boot", "init"}, n : 0..MaxChunks, of : 0..MaxCalls]
    BY <1>10 DEF CallbackEnds, TypeInv, NRTypeOK
  <2> QED BY <1>10, <2>1, <2>2 DEF CallbackEnds, TypeInv, NRTypeOK, CallInv
<1>11. CASE Reboot \/ Main \/ RegisterCallback
  <2>1. nios' \in [pc : {"ready", "callback", "boot", "init"}, n : 0..MaxChunks, of : 0..MaxCalls]
    BY <1>11 DEF Reboot, Main, RegisterCallback, TypeInv, NRTypeOK
  <2>2. cmd_len' \in CmdLen /\ (cmd_len'.cmd => cmd_len'.of # 0)
    BY <1>0, <1>11, StatusType DEF Reboot, Main, RegisterCallback, AfterBoot, board_vars,
                                   TypeInv, NRTypeOK, CallInv
  <2>3. cleared' \in BOOLEAN /\ reboots' \in 0..MaxReboots
    BY <1>11 DEF Reboot, Main, RegisterCallback, board_vars, TypeInv, NRTypeOK
  <2>4. UNCHANGED <<call, got, ram, quiet, late, clears, sc_clean, started, failures>>
    BY <1>11 DEF Reboot, Main, RegisterCallback, board_vars
  <2> QED BY <2>1, <2>2, <2>3, <2>4 DEF TypeInv, NRTypeOK, CallInv
<1> QED BY <1>1, <1>2, <1>3, <1>4, <1>5, <1>6, <1>7, <1>8, <1>9, <1>10, <1>11 DEF NRNext

(* The registers keep their ranges, and the loops of FEBsc_NiosRPC end at  *)
(* their bounds.                                                           *)
THEOREM TypeCorrect == NRSpec => []NRTypeOK
<1>1. TypeInv => NRTypeOK
  BY DEF TypeInv
<1> QED BY <1>1, InitType, NextType, PTL DEF NRSpec
-----------------------------------------------------------------------------
(***************************************************************************)
(* How often commands are started.  The command of a call is first unsent, *)
(* then perhaps on its way, then perhaps in the register, and there it is  *)
(* pending until its callback runs: every start takes it from there, and   *)
(* only a restart of the Nios, if main() does not reset the register, can  *)
(* bring it back.                                                          *)
(***************************************************************************)
Restarts == IF clears THEN 0 ELSE reboots

Unsent(c) ==
  c > call.id \/ (c = call.id /\ call.pc \in {"payload", "offset", "command"})
IsCommand(w, c) == w.to = "cmd_len" /\ w.value.of = c
OnItsWay(c) == \E i \in 1..Len(late) : IsCommand(late[i], c)
Pending ==
  /\ cmd_len.cmd
  /\ ~(nios.pc = "callback" /\ nios.of = cmd_len.of)
  /\ ~(clears /\ nios.pc = "boot")

OnceInv ==
  /\ \A c \in Calls : started[c] <= 1 + Restarts
  /\ Pending => started[cmd_len.of] <= Restarts
  /\ \A c \in Calls : Unsent(c) => ~OnItsWay(c)
  /\ \A c \in Calls : Unsent(c) \/ OnItsWay(c) =>
       started[c] = 0 /\ ~(cmd_len.cmd /\ cmd_len.of = c)
  /\ \A c \in Calls, i, j \in 1..Len(late) :
       IsCommand(late[i], c) /\ IsCommand(late[j], c) => i = j

LEMMA WriteOutcome ==
  ASSUME NEW w, NEW then, FEB_write(w, then)
  PROVE  /\ call' = then \/ (call' = Returned("error") /\ ~sc_clean')
         /\ \/ late = <<>> /\ late' = late /\ Execute(w)
            \/ ~sc_clean' /\ late' = Append(late, w) /\ UNCHANGED board_vars
            \/ ~sc_clean' /\ late' = late /\ UNCHANGED board_vars
         /\ sc_clean' => sc_clean
         /\ UNCHANGED <<got, nios, clears, started, reboots>>
<1>1. PICK ok \in BOOLEAN :
        /\ Transaction(ok)
        /\ call' = IF ok THEN then ELSE Returned("error")
        /\ \/ late = <<>> /\ Execute(w) /\ UNCHANGED late
           \/ ~sc_clean' /\ late' = Append(late, w) /\ UNCHANGED board_vars
           \/ ~sc_clean' /\ UNCHANGED <<late, board_vars>>
        /\ UNCHANGED <<got, nios, clears, started, reboots>>
  BY Zenon DEF FEB_write
<1>2. sc_clean' = (sc_clean /\ ok)
  BY <1>1 DEF Transaction
<1> QED BY <1>1, <1>2, Zenon

LEMMA OnceInit == NRInit => OnceInv
  BY DEF NRInit, OnceInv, Unsent, OnItsWay, Pending, Restarts, Status

(* What does not concern the commands.                                     *)
LEMMA OnceFrame ==
  ASSUME OnceInv, UNCHANGED <<late, cmd_len, nios, started, clears, reboots>>,
         \A c \in Calls : Unsent(c)' => Unsent(c)
  PROVE  OnceInv'
  BY DEF OnceInv, Unsent, OnItsWay, Pending, Restarts

(* A command gets to the board: it was not started yet.                    *)
LEMMA OnceExecute ==
  ASSUME TypeInv, OnceInv, NEW w \in Writes, Execute(w),
         UNCHANGED <<nios, started, clears, reboots>>,
         \A c \in Calls : Unsent(c)' => Unsent(c),
         \A c \in Calls : OnItsWay(c)' => OnItsWay(c),
         \A c \in Calls, i, j \in 1..Len(late') :
           IsCommand(late'[i], c) /\ IsCommand(late'[j], c) => i = j,
         \A c \in Calls : IsCommand(w, c) =>
           (Unsent(c) \/ OnItsWay(c)) /\ ~Unsent(c)' /\ ~OnItsWay(c)'
  PROVE  OnceInv'
<1>1. CASE w.to = "cmd_len"
  <2>1. w.value.of \in Calls /\ cmd_len' = w.value
    BY <1>1 DEF Writes, CmdLen, Calls, Execute
  <2>2. started[w.value.of] = 0
    BY <1>1, <2>1 DEF OnceInv, IsCommand
  <2>3. Restarts' = Restarts /\ Restarts \in Nat
    BY DEF Restarts, TypeInv, NRTypeOK
  <2>4. \A c \in Calls : Unsent(c)' \/ OnItsWay(c)' => c # w.value.of
    BY <1>1, <2>1 DEF IsCommand
  <2>5. \A c \in Calls : started'[c] <= 1 + Restarts'
    BY <2>3 DEF OnceInv
  <2>6. started'[cmd_len'.of] <= Restarts'
    BY <2>1, <2>2, <2>3
  <2>7. \A c \in Calls : Unsent(c)' => ~OnItsWay(c)'
    BY DEF OnceInv
  <2>8. \A c \in Calls : Unsent(c)' \/ OnItsWay(c)' =>
          started'[c] = 0 /\ ~(cmd_len'.cmd /\ cmd_len'.of = c)
    BY <2>1, <2>4 DEF OnceInv
  <2> QED BY <2>5, <2>6, <2>7, <2>8 DEF OnceInv
<1>2. CASE w.to # "cmd_len"
  BY <1>2 DEF Execute, OnceInv, Pending, Restarts
<1> QED BY <1>1, <1>2

(* One write of a call.                                                    *)
LEMMA OnceWrite ==
  ASSUME TypeInv, OnceInv, NEW w \in Writes, NEW then, FEB_write(w, then),
         call.pc \in {"payload", "offset", "command"}, then.id = call.id,
         w.to = "cmd_len" => w.value.of = call.id /\ then.pc = "poll"
  PROVE  OnceInv'
<1>1. call'.id = call.id /\ (w.to = "cmd_len" => call'.pc \in {"poll", "idle"})
  BY WriteOutcome DEF Returned, TypeInv, NRTypeOK, Locals
<1>2. call.id \in Nat /\ late \in Seq(Writes)
  BY DEF TypeInv, NRTypeOK, Locals
<1>3. \A c \in Calls : Unsent(c)' => Unsent(c)
  BY <1>1, <1>2 DEF Unsent, Calls
<1>4. \A c \in Calls : IsCommand(w, c) => Unsent(c) /\ ~Unsent(c)' /\ ~OnItsWay(c)
  BY <1>1, <1>2 DEF IsCommand, Unsent, OnceInv, Calls
<1>5. UNCHANGED <<nios, clears, started, reboots>>
  BY WriteOutcome
<1>6. CASE late = <<>> /\ late' = late /\ Execute(w)
  <2>1. \A c \in Calls : ~OnItsWay(c) /\ ~OnItsWay(c)'
    BY <1>6 DEF OnItsWay
  <2> QED BY <1>3, <1>4, <1>5, <1>6, <2>1, OnceExecute DEF OnceInv
<1>7. CASE late' = late /\ UNCHANGED board_vars
  BY <1>3, <1>5, <1>7, OnceFrame DEF board_vars
<1>8. CASE late' = Append(late, w) /\ UNCHANGED board_vars
  <2>1. /\ Len(late) \in Nat /\ Len(late') = Len(late) + 1
        /\ \A i \in 1..Len(late) : late'[i] = late[i]
        /\ late'[Len(late) + 1] = w
    BY <1>2, <1>8
  <2>2. \A i \in 1..Len(late') : i \in 1..Len(late) \/ i = Len(late) + 1
    BY <2>1
  <2>3. \A c \in Calls : OnItsWay(c)' => OnItsWay(c) \/ IsCommand(w, c)
    BY <2>1, <2>2 DEF OnItsWay, IsCommand
  <2>4. \A c \in Calls : Unsent(c)' => ~OnItsWay(c)'
    BY <1>3, <1>4, <2>3 DEF OnceInv
  <2>5. \A c \in Calls : Unsent(c)' \/ OnItsWay(c)' =>
          started'[c] = 0 /\ ~(cmd_len'.cmd /\ cmd_len'.of = c)
    BY <1>3, <1>4, <1>5, <1>8, <2>3 DEF OnceInv, board_vars
  <2>6. ASSUME NEW c \in Calls, NEW i \in 1..Len(late'), NEW j \in 1..Len(late'),
               IsCommand(late'[i], c), IsCommand(late'[j], c)
        PROVE  i = j
    <3>1. i \in 1..Len(late) => OnItsWay(c) /\ late'[i] = late[i]
      BY <2>1, <2>6 DEF OnItsWay
    <3>2. j \in 1..Len(late) => OnItsWay(c) /\ late'[j] = late[j]
      BY <2>1, <2>6 DEF OnItsWay
    <3>3. i = Len(late) + 1 \/ j = Len(late) + 1 => ~OnItsWay(c)
      BY <1>4, <2>1, <2>6
    <3> QED BY <2>2, <2>6, <3>1, <3>2, <3>3 DEF OnceInv
  <2>7. Pending' = Pending /\ Restarts' = Restarts
    BY <1>5, <1>8 DEF Pending, Restarts, board_vars
  <2>8. /\ \A c \in Calls : started'[c] <= 1 + Restarts'
        /\ Pending' => started'[cmd_len'.of] <= Restarts'
    BY <1>5, <1>8, <2>7 DEF OnceInv, board_vars
  <2>9. \A c \in Calls, i, j \in 1..Len(late') :
          IsCommand(late'[i], c) /\ IsCommand(late'[j], c) => i = j
    BY <2>6
  <2> QED BY <2>4, <2>5, <2>8, <2>9 DEF OnceInv
<1> QED BY <1>6, <1>7, <1>8, WriteOutcome

LEMMA OnceNext == TypeInv /\ OnceInv /\ [NRNext]_vars => OnceInv'
<1> SUFFICES ASSUME TypeInv, OnceInv, [NRNext]_vars PROVE OnceInv'
  OBVIOUS
<1>0. call \in Locals /\ late \in Seq(Writes) /\ reboots \in Nat
      /\ cmd_len \in CmdLen /\ (cmd_len.cmd => cmd_len.of # 0)
      /\ started \in [Calls -> Nat]
  BY DEF TypeInv, NRTypeOK, CallInv
<1>1. CASE UNCHANGED vars
  BY <1>1, OnceFrame DEF vars, board_vars, Unsent
<1>2. CASE Start
  <2>1. call'.id = call.id + 1
    BY <1>2 DEF Start
  <2>2. \A c \in Calls : Unsent(c)' => Unsent(c)
    BY <1>0, <2>1 DEF Unsent, Calls, Locals
  <2> QED BY <1>2, <2>2, OnceFrame DEF Start, board_vars
<1>3. CASE WritePayload
  <2> DEFINE then == [call EXCEPT !.pc = AfterChunk(call.chunk + 1, call.size), !.chunk = @ + 1]
             w == [to |-> "ram", at |-> Address(call.chunk), of |-> call.id]
  <2>1. then.id = call.id
    BY <1>0 DEF Locals
  <2>2. w \in Writes /\ w.to # "cmd_len"
    BY <1>0, <1>3 DEF WritePayload, TypeInv, CallInv, Locals, Writes, Chunks, Calls, Address
  <2>3. FEB_write(w, then) /\ call.pc = "payload"
    BY <1>3 DEF WritePayload
  <2> HIDE DEF then, w
  <2> QED BY <2>1, <2>2, <2>3, OnceWrite
<1>4. CASE WriteOffset
  <2> DEFINE then == [call EXCEPT !.pc = "command"]
             w == [to |-> "offset"]
  <2>1. then.id = call.id /\ w \in Writes /\ w.to # "cmd_len"
    BY <1>0 DEF Locals, Writes
  <2>2. FEB_write(w, then) /\ call.pc = "offset"
    BY <1>4 DEF WriteOffset
  <2> HIDE DEF then, w
  <2> QED BY <2>1, <2>2, OnceWrite
<1>5. CASE WriteCommand
  <2> DEFINE then == [call EXCEPT !.pc = "poll"]
             w == [to |-> "cmd_len", value |-> Command(call.id, call.size)]
  <2>1. then.id = call.id /\ then.pc = "poll"
    BY <1>0 DEF Locals
  <2>2. w \in Writes /\ w.value.of = call.id
    BY <1>0, <1>5 DEF WriteCommand, TypeInv, CallInv, Locals, Writes, Command, CmdLen
  <2>3. FEB_write(w, then) /\ call.pc = "command"
    BY <1>5 DEF WriteCommand
  <2> HIDE DEF then, w
  <2> QED BY <2>1, <2>2, <2>3, OnceWrite
<1>6. CASE Poll \/ GiveUp
  <2>1. \/ call' = [call EXCEPT !.pc = "idle", !.result = "status"]
        \/ call' = [call EXCEPT !.pc = "idle", !.result = "error"]
        \/ call' = [call EXCEPT !.pc = "idle", !.result = "timeout"]
        \/ call' = [call EXCEPT !.polls = @ + 1]
    BY <1>6, Zenon DEF Poll, GiveUp, Returned
  <2>2. call.pc = "poll"
    BY <1>6 DEF Poll, GiveUp
  <2>3. call'.id = call.id /\ call'.pc \in {"poll", "idle"}
    BY <1>0, <2>1, <2>2 DEF Locals
  <2>4. \A c \in Calls : Unsent(c)' => Unsent(c)
    BY <2>3 DEF Unsent
  <2> QED BY <1>6, <2>4, OnceFrame DEF Poll, GiveUp, board_vars
<1>7. CASE ExecuteLate
  <2> DEFINE w == Head(late)
  <2>1. /\ w \in Writes /\ Len(late) \in Nat /\ Len(late) >= 1 /\ w = late[1]
        /\ Len(late') = Len(late) - 1
        /\ \A i \in 1..Len(late') : i + 1 \in 2..Len(late) /\ late'[i] = late[i + 1]
    BY <1>0, <1>7, HeadTailProperties DEF ExecuteLate
  <2>2. Execute(w) /\ UNCHANGED <<call, nios, started, clears, reboots>>
    BY <1>7 DEF ExecuteLate
  <2> HIDE DEF w
  <2>3. \A c \in Calls : Unsent(c)' => Unsent(c)
    BY <2>2 DEF Unsent
  <2>4. \A c \in Calls : OnItsWay(c)' => \E i \in 2..Len(late) : IsCommand(late[i], c)
    BY <2>1 DEF OnItsWay, IsCommand
  <2>5. \A c \in Calls : OnItsWay(c)' => OnItsWay(c)
    BY <2>1, <2>4 DEF OnItsWay
  <2>6. ASSUME NEW c \in Calls, NEW i \in 1..Len(late'), NEW j \in 1..Len(late'),
               IsCommand(late'[i], c), IsCommand(late'[j], c)
        PROVE  i = j
    <3>1. i + 1 \in 1..Len(late) /\ j + 1 \in 1..Len(late)
          /\ IsCommand(late[i + 1], c) /\ IsCommand(late[j + 1], c)
      BY <2>1, <2>6
    <3>2. i + 1 = j + 1
      BY <3>1 DEF OnceInv
    <3> QED BY <2>1, <3>2
  <2>7. ASSUME NEW c \in Calls, IsCommand(w, c)
        PROVE  OnItsWay(c) /\ ~Unsent(c)' /\ ~OnItsWay(c)'
    <3>1. 1 \in 1..Len(late) /\ IsCommand(late[1], c)
      BY <2>1, <2>7
    <3>2. OnItsWay(c)
      BY <3>1 DEF OnItsWay
    <3>3. ~Unsent(c)'
      BY <2>3, <3>2 DEF OnceInv
    <3>4. \A i \in 2..Len(late) : ~IsCommand(late[i], c)
      BY <3>1 DEF OnceInv
    <3> QED BY <2>4, <3>2, <3>3, <3>4
  <2> QED BY <2>1, <2>2, <2>3, <2>5, <2>6, <2>7, OnceExecute
<1>8. CASE Callback
  <2>1. cmd_len.of \in Calls
    BY <1>0, <1>8 DEF Callback, CmdLen, Calls
  <2>2. Pending /\ ~Pending' /\ Restarts' = Restarts /\ Restarts \in Nat
    BY <1>0, <1>8 DEF Callback, Pending, Restarts, board_vars
  <2>3. started' = [started EXCEPT ![cmd_len.of] = @ + 1]
    BY <1>8 DEF Callback
  <2>4. \A c \in Calls : started'[c] <= 1 + Restarts'
    BY <1>0, <2>1, <2>2, <2>3 DEF OnceInv
  <2>5. \A c \in Calls : /\ Unsent(c)' = Unsent(c)
                         /\ OnItsWay(c)' = OnItsWay(c)
    BY <1>8 DEF Callback, Unsent, OnItsWay
  <2>6. \A c \in Calls : Unsent(c) \/ OnItsWay(c) => c # cmd_len.of
    BY <1>8 DEF Callback, OnceInv
  <2>7. \A c \in Calls : Unsent(c)' \/ OnItsWay(c)' =>
          started'[c] = 0 /\ ~(cmd_len'.cmd /\ cmd_len'.of = c)
    BY <1>0, <1>8, <2>3, <2>5, <2>6 DEF Callback, OnceInv, board_vars
  <2> QED BY <1>8, <2>2, <2>4, <2>5, <2>7 DEF Callback, OnceInv
<1>9. CASE CallbackEnds
  BY <1>9 DEF CallbackEnds, OnceInv, Unsent, OnItsWay, Pending, Restarts, Status
<1>10. CASE Reboot
  <2>1. UNCHANGED <<call, late, cmd_len, started, clears>> /\ nios'.pc = "boot"
        /\ reboots' = reboots + 1
    BY <1>10 DEF Reboot, board_vars, TypeInv, NRTypeOK
  <2>2. Restarts' = (IF clears THEN 0 ELSE reboots + 1) /\ Restarts <= Restarts'
    BY <1>0, <2>1 DEF Restarts
  <2>3. \A c \in Calls : started'[c] <= 1 + Restarts'
    BY <1>0, <2>1, <2>2 DEF OnceInv, Restarts
  <2>4. Pending' => started'[cmd_len'.of] <= Restarts'
    BY <1>0, <2>1, <2>2 DEF OnceInv, Pending, Restarts, CmdLen, Calls
  <2> QED BY <2>1, <2>3, <2>4 DEF OnceInv, Unsent, OnItsWay
<1>11. CASE Main
  BY <1>11 DEF Main, AfterBoot, OnceInv, Unsent, OnItsWay, Pending, Restarts, Status
<1>12. CASE RegisterCallback
  BY <1>12 DEF RegisterCallback, board_vars, OnceInv, Unsent, OnItsWay, Pending, Restarts
<1> QED BY <1>1, <1>2, <1>3, <1>4, <1>5, <1>6, <1>7, <1>8, <1>9, <1>10, <1>11, <1>12 DEF NRNext

(* No command is started twice, except by restarts of a Nios whose main()  *)
(* does not reset CMD_LEN, whatever times out, fails or comes late.        *)
THEOREM StartedOnce == NRSpec => []RunsOnce
<1>1. OnceInv => RunsOnce
  BY DEF OnceInv, RunsOnce, Restarts
<1> QED BY <1>1, InitType, NextType, OnceInit, OnceNext, PTL DEF NRSpec
-----------------------------------------------------------------------------
(***************************************************************************)
(* What a call finds and returns as long as slow control works.            *)
(***************************************************************************)
Sending == call.pc \in {"payload", "offset", "command"}

(* Nothing of a call is on the board before it is written, and nothing is  *)
(* under way.                                                              *)
SentInv ==
  /\ late = <<>>
  /\ cmd_len.of <= call.id /\ nios.of <= call.id
  /\ Sending => cmd_len.of < call.id /\ nios.of < call.id
  /\ call.pc # "idle" => \A i \in 1..(call.chunk - 1) : ram[i] = call.id
  /\ call.pc \in {"offset", "command", "poll"} => call.chunk = call.size + 1

(* A call that waits finds its command or its status in the register,      *)
(* unless a callback that ran when it wrote may still overwrite it.        *)
PollInv ==
  call.pc = "poll" =>
    /\ cmd_len.cmd /\ cmd_len.of = call.id => cmd_len.n = call.size
    /\ nios.pc = "callback" /\ nios.of = call.id => nios.n = call.size
    /\ quiet => /\ \/ cmd_len \in {Command(call.id, call.size), Status(call.id)}
                   \/ cleared /\ cmd_len = Status(0)
                /\ nios.pc = "callback" => nios.of = call.id

ResultInv ==
  call.result = "status" /\ quiet => got = Status(call.id) \/ (cleared /\ got = Status(0))

CleanInv == sc_clean => SentInv /\ PollInv /\ ResultInv

LEMMA CleanInit == NRInit => CleanInv
  BY DEF NRInit, CleanInv, SentInv, PollInv, ResultInv, Sending, Status

(* As long as slow control works, a write of a call is executed at once.   *)
LEMMA CleanWrite ==
  ASSUME CleanInv, NEW w, NEW then, FEB_write(w, then), sc_clean'
  PROVE  /\ sc_clean /\ SentInv /\ call' = then /\ late' = <<>> /\ Execute(w)
         /\ UNCHANGED <<got, nios>>
<1>1. sc_clean /\ SentInv
  BY WriteOutcome DEF CleanInv
<1> QED BY <1>1, WriteOutcome DEF SentInv

LEMMA CleanNext == TypeInv /\ CleanInv /\ [NRNext]_vars => CleanInv'
<1> SUFFICES ASSUME TypeInv, CleanInv, [NRNext]_vars, sc_clean'
             PROVE  SentInv' /\ PollInv' /\ ResultInv'
  BY DEF CleanInv
<1>0. call \in Locals /\ CallInv /\ cmd_len \in CmdLen
      /\ nios \in [pc : {"ready", "callback", "boot", "init"}, n : 0..MaxChunks, of : 0..MaxCalls]
      /\ ram \in [Chunks -> 0..MaxCalls]
  BY DEF TypeInv, NRTypeOK
<1>1. CASE UNCHANGED vars
  BY <1>1 DEF vars, board_vars, CleanInv, SentInv, PollInv, ResultInv, Sending
<1>2. CASE Start
  <2>1. sc_clean /\ SentInv /\ UNCHANGED <<late, cmd_len, nios, ram>>
    BY <1>2 DEF Start, CleanInv, board_vars
  <2>2. /\ call'.id = call.id + 1 /\ call'.chunk = 1 /\ call'.result = "none"
        /\ call'.pc \in {"payload", "offset"}
        /\ call'.pc = "offset" => call'.size = 0
    BY <1>2 DEF Start, AfterChunk
  <2>3. SentInv'
    BY <1>0, <2>1, <2>2 DEF SentInv, Sending, Locals, CmdLen
  <2> QED BY <2>2, <2>3 DEF PollInv, ResultInv
<1>3. CASE WritePayload
  <2> DEFINE then == [call EXCEPT !.pc = AfterChunk(call.chunk + 1, call.size), !.chunk = @ + 1]
             w == [to |-> "ram", at |-> Address(call.chunk), of |-> call.id]
  <2>1. FEB_write(w, then) /\ call.pc = "payload" /\ call.result = "none"
        /\ call.chunk \in 1..call.size /\ call.size \in 0..MaxChunks
    BY <1>0, <1>3 DEF WritePayload, CallInv, Locals
  <2>2. /\ then.id = call.id /\ then.size = call.size /\ then.result = call.result
        /\ then.chunk = call.chunk + 1
        /\ then.pc = AfterChunk(call.chunk + 1, call.size)
    BY <1>0 DEF Locals
  <2>3. w.to = "ram" /\ w.at = call.chunk /\ w.of = call.id
    BY DEF Address
  <2> HIDE DEF then, w
  <2>4. sc_clean /\ SentInv /\ call' = then /\ late' = <<>> /\ Execute(w) /\ UNCHANGED nios
    BY <2>1, CleanWrite
  <2>5. ram' = [ram EXCEPT ![call.chunk] = call.id] /\ UNCHANGED cmd_len
    BY <2>3, <2>4 DEF Execute
  <2>6. \A i \in 1..call.chunk : ram'[i] = call.id
    BY <1>0, <2>1, <2>4, <2>5 DEF SentInv, Chunks
  <2>7. then.pc \in {"payload", "offset"} /\ (then.pc = "offset" => then.chunk = then.size + 1)
    BY <2>1, <2>2 DEF AfterChunk
  <2>8. SentInv'
    BY <2>1, <2>2, <2>4, <2>5, <2>6, <2>7 DEF SentInv, Sending
  <2> QED BY <2>1, <2>2, <2>4, <2>7, <2>8 DEF PollInv, ResultInv
<1>4. CASE WriteOffset
  <2> DEFINE then == [call EXCEPT !.pc = "command"]
             w == [to |-> "offset"]
  <2>1. FEB_write(w, then) /\ call.pc = "offset" /\ call.result = "none"
    BY <1>0, <1>4 DEF WriteOffset, CallInv
  <2>2. /\ then.id = call.id /\ then.size = call.size /\ then.result = call.result
        /\ then.chunk = call.chunk /\ then.pc = "command" /\ w.to = "offset"
    BY <1>0 DEF Locals
  <2> HIDE DEF then, w
  <2>3. sc_clean /\ SentInv /\ call' = then /\ late' = <<>> /\ Execute(w) /\ UNCHANGED nios
    BY <2>1, CleanWrite
  <2>4. UNCHANGED <<ram, cmd_len>>
    BY <2>2, <2>3 DEF Execute
  <2> QED BY <2>1, <2>2, <2>3, <2>4 DEF SentInv, PollInv, ResultInv, Sending
<1>5. CASE WriteCommand
  <2> DEFINE then == [call EXCEPT !.pc = "poll"]
             w == [to |-> "cmd_len", value |-> Command(call.id, call.size)]
  <2>1. FEB_write(w, then) /\ call.pc = "command" /\ call.result = "none"
    BY <1>0, <1>5 DEF WriteCommand, CallInv
  <2>2. /\ then.id = call.id /\ then.size = call.size /\ then.result = call.result
        /\ then.chunk = call.chunk /\ then.pc = "poll"
        /\ w.to = "cmd_len" /\ w.value = Command(call.id, call.size)
    BY <1>0 DEF Locals
  <2> HIDE DEF then, w
  <2>3. sc_clean /\ SentInv /\ call' = then /\ late' = <<>> /\ Execute(w) /\ UNCHANGED nios
    BY <2>1, CleanWrite
  <2>4. /\ cmd_len' = Command(call.id, call.size) /\ UNCHANGED ram
        /\ quiet' = (nios.pc # "callback")
    BY <2>2, <2>3 DEF Execute
  <2>5. nios.of < call.id /\ nios.of \in Nat /\ call.id \in Nat
    BY <1>0, <2>1, <2>3 DEF SentInv, Sending, Locals
  <2>6. SentInv'
    BY <1>0, <2>1, <2>2, <2>3, <2>4, <2>5 DEF SentInv, Sending, Command
  <2>7. PollInv'
    <3>1. /\ call'.id = call.id /\ call'.size = call.size /\ nios' = nios
          /\ cmd_len' = Command(call'.id, call'.size) /\ cmd_len'.n = call'.size
      BY <2>2, <2>3, <2>4 DEF Command
    <3>2. nios'.of # call'.id
      BY <2>5, <3>1
    <3>3. quiet' => nios'.pc # "callback"
      BY <2>4, <3>1
    <3> QED BY <3>1, <3>2, <3>3 DEF PollInv
  <2> QED BY <2>1, <2>2, <2>3, <2>6, <2>7 DEF ResultInv
<1>6. CASE Poll
  <2>1. sc_clean /\ SentInv /\ PollInv /\ call.pc = "poll"
        /\ UNCHANGED <<board_vars, nios, late>>
    BY <1>6 DEF Poll, Transaction, CleanInv
  <2>2. \/ ~cmd_len.cmd /\ call' = Returned("status") /\ got' = cmd_len
        \/ call' = [call EXCEPT !.polls = @ + 1]
        \/ call' = Returned("error")
    BY <1>6, <2>1, Zenon DEF Poll, Stale, Finished
  <2>3. CASE ~cmd_len.cmd /\ call' = Returned("status") /\ got' = cmd_len
    <3>1. call'.id = call.id /\ call'.pc = "idle"
      BY <1>0, <2>3 DEF Returned, Locals
    <3>2. quiet => cmd_len = Status(call.id) \/ (cleared /\ cmd_len = Status(0))
      BY <2>1, <2>3 DEF PollInv, Command
    <3> QED BY <2>1, <2>3, <3>1, <3>2 DEF SentInv, PollInv, ResultInv, Sending, board_vars
  <2>4. CASE call' = [call EXCEPT !.polls = @ + 1]
    <3>1. /\ call'.id = call.id /\ call'.pc = "poll" /\ call'.size = call.size
          /\ call'.chunk = call.chunk /\ call'.result = "none"
      BY <1>0, <2>1, <2>4 DEF CallInv, Locals
    <3> QED BY <2>1, <3>1 DEF SentInv, PollInv, ResultInv, Sending, board_vars
  <2>5. CASE call' = Returned("error")
    <3>1. call'.id = call.id /\ call'.pc = "idle" /\ call'.result = "error"
      BY <1>0, <2>5 DEF Returned, Locals
    <3> QED BY <2>1, <3>1 DEF SentInv, PollInv, ResultInv, Sending, board_vars
  <2> QED BY <2>2, <2>3, <2>4, <2>5
<1>7. CASE GiveUp
  <2>1. sc_clean /\ SentInv /\ UNCHANGED <<board_vars, nios, late>>
    BY <1>7 DEF GiveUp, CleanInv
  <2>2. call'.id = call.id /\ call'.pc = "idle" /\ call'.result = "timeout"
    BY <1>0, <1>7 DEF GiveUp, Returned, Locals
  <2> QED BY <2>1, <2>2 DEF SentInv, PollInv, ResultInv, Sending, board_vars
<1>8. CASE ExecuteLate
  BY <1>8 DEF ExecuteLate, CleanInv, SentInv
<1>9. CASE Callback
  <2>1. sc_clean /\ SentInv /\ PollInv /\ ResultInv
        /\ UNCHANGED <<call, got, board_vars, late>>
    BY <1>9 DEF Callback, CleanInv
  <2>2. cmd_len.cmd /\ nios' = [pc |-> "callback", n |-> cmd_len.n, of |-> cmd_len.of]
    BY <1>9 DEF Callback
  <2>3. SentInv'
    BY <2>1, <2>2 DEF SentInv, Sending, board_vars
  <2>4. PollInv'
    BY <2>1, <2>2 DEF PollInv, board_vars, Command, Status
  <2> QED BY <2>1, <2>3, <2>4 DEF ResultInv, board_vars
<1>10. CASE CallbackEnds
  <2>1. sc_clean /\ SentInv /\ PollInv /\ ResultInv /\ nios.pc = "callback"
        /\ UNCHANGED <<call, got, ram, quiet, cleared, late>>
    BY <1>10 DEF CallbackEnds, CleanInv
  <2>2. cmd_len' = Status(nios.of) /\ ~cmd_len'.cmd /\ cmd_len'.of = nios.of
    BY <1>10 DEF CallbackEnds, Status
  <2>3. nios'.pc = "ready" /\ nios'.of = nios.of
    BY <1>0, <1>10 DEF CallbackEnds
  <2> QED BY <2>1, <2>2, <2>3 DEF SentInv, PollInv, ResultInv, Sending
<1>11. CASE Reboot \/ RegisterCallback
  <2>1. sc_clean /\ SentInv /\ PollInv /\ ResultInv
        /\ UNCHANGED <<call, got, board_vars, late>>
    BY <1>11 DEF Reboot, RegisterCallback, CleanInv
  <2>2. nios'.pc # "callback" /\ nios'.of = nios.of
    BY <1>0, <1>11 DEF Reboot, RegisterCallback
  <2> QED BY <2>1, <2>2 DEF SentInv, PollInv, ResultInv, Sending, board_vars
<1>12. CASE Main
  <2>1. sc_clean /\ SentInv /\ PollInv /\ ResultInv
        /\ UNCHANGED <<call, got, ram, quiet, late>>
    BY <1>12 DEF Main, CleanInv
  <2>2. nios'.pc = "init" /\ nios'.of = nios.of
    BY <1>0, <1>12 DEF Main
  <2>3. \/ UNCHANGED cmd_len /\ cleared' = cleared
        \/ cmd_len' = Status(0) /\ cleared'
    <3>1. cmd_len' = (IF clears THEN Status(0) ELSE cmd_len) /\ cleared' = (cleared \/ clears)
      BY <1>12 DEF Main, AfterBoot
    <3>2. clears \in BOOLEAN /\ cleared \in BOOLEAN
      BY DEF TypeInv, NRTypeOK
    <3> QED BY <3>1, <3>2, Zenon
  <2>4. SentInv'
    BY <1>0, <2>1, <2>2, <2>3 DEF SentInv, Sending, Status, Locals, CmdLen, CallInv
  <2>5. PollInv'
    BY <2>1, <2>2, <2>3 DEF PollInv, Status
  <2>6. ResultInv'
    BY <2>1, <2>3 DEF ResultInv
  <2> QED BY <2>4, <2>5, <2>6
<1> QED BY <1>1, <1>2, <1>3, <1>4, <1>5, <1>6, <1>7, <1>8, <1>9, <1>10, <1>11, <1>12 DEF NRNext

LEMMA CleanCorrect == NRSpec => [](TypeInv /\ CleanInv)
  BY InitType, NextType, CleanInit, CleanNext, PTL DEF NRSpec

(* The status that a call returns is its own, also after earlier calls     *)
(* gave up, unless a callback still ran when it wrote its command, or the  *)
(* Nios reset the register since.                                          *)
THEOREM StatusIsOwn == NRSpec => []OwnStatus
<1>1. CleanInv => OwnStatus
  BY DEF CleanInv, ResultInv, OwnStatus
<1> QED BY <1>1, CleanCorrect, PTL

(* The payload that the Nios sees is the one of the call whose command it  *)
(* runs, all of it.                                                        *)
THEOREM PayloadIsOwn == NRSpec => []PayloadWhole
<1>1. TypeInv /\ CleanInv => PayloadWhole
  <2> SUFFICES ASSUME TypeInv, CleanInv, nios.pc = "callback", call.pc = "poll",
                      nios.of = call.id, sc_clean
               PROVE  nios.n = call.size /\ \A i \in 1..nios.n : ram[i] = call.id
    BY DEF PayloadWhole
  <2>1. nios.n = call.size /\ call.size \in Nat /\ call.chunk = call.size + 1
    BY DEF CleanInv, SentInv, PollInv, TypeInv, NRTypeOK, Locals
  <2> QED BY <2>1 DEF CleanInv, SentInv
<1> QED BY <1>1, CleanCorrect, PTL
=============================================================================
