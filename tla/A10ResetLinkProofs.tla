------------------------- MODULE A10ResetLinkProofs -------------------------
(***************************************************************************)
(* What holds of the reset link of the Arria 10 board for every set of     *)
(* boards, every run number and every distance of the register writes.     *)
(***************************************************************************)
EXTENDS A10ResetLink, StateControllerProofs, SequenceTheorems

Write == [register : {"number"}, value : [1..4 -> Byte]]
           \cup [register : {"ctl"}, value : {0, All} \X Byte]
Number(v) == [register |-> "number", value |-> v]
Ctl(cmd) == [register |-> "ctl", value |-> <<All, cmd>>]
Release == [register |-> "ctl", value |-> <<0, 0>>]

\* The calls, write by write.
PrepareCall == <<Number(RunBytes[run]), Ctl(RunPrepare), Release>>
BeginCall == <<Number(Zero), Ctl(RunPrepare), Release, Ctl(Sync), Release,
               Ctl(StartRun), Release>>
EndCall == <<Ctl(EndRun), Release>>
AbortCall == <<Ctl(AbortRun), Release>>
InitCall == <<Ctl(Reset), Release, Ctl(StopReset), Release>>

LEMMA Joins ==
  ASSUME NEW S, NEW p \in Seq(S), NEW q \in Seq(S), NEW r \in Seq(S),
         Len(r) = Len(p) + Len(q),
         \A i \in 1..Len(p) : r[i] = p[i], \A i \in 1..Len(q) : r[Len(p) + i] = q[i]
  PROVE  p \o q = r
<1>1. /\ p \o q \in Seq(S) /\ Len(p \o q) = Len(p) + Len(q)
      /\ \A i \in 1..(Len(p) + Len(q)) :
           (p \o q)[i] = IF i <= Len(p) THEN p[i] ELSE q[i - Len(p)]
  BY ConcatProperties
<1>2. Len(p) \in Nat /\ Len(q) \in Nat BY LenProperties
<1>3. ASSUME NEW i \in 1..(Len(p) + Len(q)) PROVE (p \o q)[i] = r[i]
  <2>1. CASE i <= Len(p) BY <1>1, <1>2, <2>1
  <2>2. CASE ~(i <= Len(p))
    <3>1. i - Len(p) \in 1..Len(q) /\ Len(p) + (i - Len(p)) = i BY <1>2, <2>2
    <3>2. r[i] = q[i - Len(p)] BY <3>1
    <3> QED BY <1>1, <2>2, <3>2
  <2> QED BY <2>1, <2>2
<1> QED BY <1>1, <1>3, SeqEqual

LEMMA CallsAre ==
  /\ WriteCommand(RunPrepare, RunBytes[run]) = PrepareCall
  /\ Begin = BeginCall
  /\ WriteCommand(EndRun, Zero) = EndCall
  /\ WriteCommand(AbortRun, Zero) = AbortCall
  /\ InitClockboard = InitCall
<1>1. \A cmd : Toggle(cmd) = <<Ctl(cmd), Release>>
  BY DEF Toggle, Ctl, Release
<1>2. ASSUME NEW v PROVE WriteCommand(RunPrepare, v) = <<Number(v), Ctl(RunPrepare), Release>>
  <2> DEFINE a == Number(v)  b == Ctl(RunPrepare)  c == Release  S == {a, b, c}
  <2>1. WriteCommand(RunPrepare, v) = <<a>> \o <<b, c>>
    BY <1>1 DEF WriteCommand, Number
  <2> HIDE DEF a, b, c
  <2>2. <<a>> \in Seq(S) /\ <<b, c>> \in Seq(S) /\ <<a, b, c>> \in Seq(S)
    OBVIOUS
  <2> HIDE DEF S
  <2>3. <<a>> \o <<b, c>> = <<a, b, c>>
    <3> DEFINE u == <<a>>  w == <<b, c>>  j == <<a, b, c>>
    <3>1. /\ Len(j) = Len(u) + Len(w)
          /\ \A i \in 1..Len(u) : j[i] = u[i]
          /\ \A i \in 1..Len(w) : j[Len(u) + i] = w[i]
      OBVIOUS
    <3>2. u \in Seq(S) /\ w \in Seq(S) /\ j \in Seq(S) BY <2>2
    <3> HIDE DEF u, w, j
    <3>3. u \o w = j BY <3>1, <3>2, Joins
    <3> QED BY <3>3 DEF u, w, j
  <2> QED BY <2>1, <2>3 DEF a, b, c
<1>3. ASSUME NEW cmd \in {Sync, StartRun, EndRun, AbortRun}, NEW v
      PROVE  WriteCommand(cmd, v) = <<Ctl(cmd), Release>>
  <2> DEFINE q == <<Ctl(cmd), Release>>
  <2>1. WriteCommand(cmd, v) = <<>> \o q
    <3>1. cmd # RunPrepare BY DEF RunPrepare, Sync, StartRun, EndRun, AbortRun
    <3> QED BY <1>1, <3>1 DEF WriteCommand
  <2>2. q \in Seq({Ctl(cmd), Release}) OBVIOUS
  <2> HIDE DEF q
  <2>3. <<>> \o q = q BY <2>2, ConcatEmptySeq
  <2> QED BY <2>1, <2>3 DEF q
<1>4. InitClockboard = InitCall
  <2> DEFINE a == Ctl(Reset)  b == Release  c == Ctl(StopReset)  S == {a, b, c}
  <2>1. InitClockboard = <<a, b>> \o <<c, b>>
    BY <1>1 DEF InitClockboard
  <2> HIDE DEF a, b, c
  <2>2. <<a, b>> \in Seq(S) /\ <<c, b>> \in Seq(S) /\ <<a, b, c, b>> \in Seq(S)
    OBVIOUS
  <2> HIDE DEF S
  <2>3. <<a, b>> \o <<c, b>> = <<a, b, c, b>>
    <3> DEFINE u == <<a, b>>  w == <<c, b>>  j == <<a, b, c, b>>
    <3>1. /\ Len(j) = Len(u) + Len(w)
          /\ \A i \in 1..Len(u) : j[i] = u[i]
          /\ \A i \in 1..Len(w) : j[Len(u) + i] = w[i]
      OBVIOUS
    <3>2. u \in Seq(S) /\ w \in Seq(S) /\ j \in Seq(S) BY <2>2
    <3> HIDE DEF u, w, j
    <3>3. u \o w = j BY <3>1, <3>2, Joins
    <3> QED BY <3>3 DEF u, w, j
  <2> QED BY <2>1, <2>3 DEF a, b, c, InitCall
<1>5. WriteCommand(RunPrepare, Zero) \o WriteCommand(Sync, Zero)
       \o WriteCommand(StartRun, Zero) = BeginCall
  <2> DEFINE n == Number(Zero)  p == Ctl(RunPrepare)  z == Release  s == Ctl(Sync)
             r == Ctl(StartRun)  S == {n, p, z, s, r}
  <2>1. /\ WriteCommand(RunPrepare, Zero) = <<n, p, z>>
        /\ WriteCommand(Sync, Zero) = <<s, z>> /\ WriteCommand(StartRun, Zero) = <<r, z>>
    BY <1>2, <1>3
  <2> HIDE DEF n, p, z, s, r
  <2>2. /\ <<n, p, z>> \in Seq(S) /\ <<s, z>> \in Seq(S) /\ <<r, z>> \in Seq(S)
        /\ <<n, p, z, s, z>> \in Seq(S) /\ <<n, p, z, s, z, r, z>> \in Seq(S)
    OBVIOUS
  <2> HIDE DEF S
  <2>3. <<n, p, z>> \o <<s, z>> = <<n, p, z, s, z>>
    <3> DEFINE u == <<n, p, z>>  w == <<s, z>>  j == <<n, p, z, s, z>>
    <3>1. /\ Len(j) = Len(u) + Len(w)
          /\ \A i \in 1..Len(u) : j[i] = u[i]
          /\ \A i \in 1..Len(w) : j[Len(u) + i] = w[i]
      OBVIOUS
    <3>2. u \in Seq(S) /\ w \in Seq(S) /\ j \in Seq(S) BY <2>2
    <3> HIDE DEF u, w, j
    <3>3. u \o w = j BY <3>1, <3>2, Joins
    <3> QED BY <3>3 DEF u, w, j
  <2>4. <<n, p, z, s, z>> \o <<r, z>> = <<n, p, z, s, z, r, z>>
    <3> DEFINE u == <<n, p, z, s, z>>  w == <<r, z>>  j == <<n, p, z, s, z, r, z>>
    <3>1. /\ Len(j) = Len(u) + Len(w)
          /\ \A i \in 1..Len(u) : j[i] = u[i]
          /\ \A i \in 1..Len(w) : j[Len(u) + i] = w[i]
      OBVIOUS
    <3>2. u \in Seq(S) /\ w \in Seq(S) /\ j \in Seq(S) BY <2>2
    <3> HIDE DEF u, w, j
    <3>3. u \o w = j BY <3>1, <3>2, Joins
    <3> QED BY <3>3 DEF u, w, j
  <2> QED BY <2>1, <2>3, <2>4 DEF BeginCall, n, p, z, s, r
<1> QED BY <1>2, <1>3, <1>4, <1>5 DEF Begin, PrepareCall, EndCall, AbortCall
-----------------------------------------------------------------------------
(***************************************************************************)
(* Types.                                                                  *)
(***************************************************************************)
LinkStates == {"idle", "sync", "start_run", "end_run"} \cup Numbers
Sequenced ==
  /\ xcvr_tx_data \in Byte /\ sends \in {"comma", "command", "number"}
  /\ reset_state \in LinkStates

LEMMA Bytes ==
  /\ 0 \in Byte /\ Comma \in Byte /\ Byte \subseteq Nat
  /\ \A step \in Order : /\ step[2] \in Byte /\ step[1] \in LinkStates /\ step[3] \in LinkStates
  /\ \A v \in {All, 0} : \A b \in Byte : <<v, b>> \in {0, All} \X Byte
<1>1. 0 \in Byte /\ Comma \in Byte /\ Byte \subseteq Nat
  BY ByteAssumption, A10Assumption
<1>2. "rNB0" \in Numbers
  BY DEF Numbers, NumberState
<1>3. \A step \in Order : /\ step[2] \in Byte /\ step[1] \in LinkStates /\ step[3] \in LinkStates
  BY <1>2, A10Assumption DEF Order, LinkStates
<1> QED BY <1>1, <1>3

LEMMA NumberStates ==
  /\ Numbers = {"rNB0", "rNB1", "rNB2", "rNB3"}
  /\ NumberState[1] = "rNB0" /\ NumberState[2] = "rNB1"
  /\ NumberState[3] = "rNB2" /\ NumberState[4] = "rNB3"
<1>1. 1..4 = {1, 2, 3, 4} OBVIOUS
<1>2. /\ NumberState[1] = "rNB0" /\ NumberState[2] = "rNB1"
      /\ NumberState[3] = "rNB2" /\ NumberState[4] = "rNB3"
  BY DEF NumberState
<1>3. Numbers = {NumberState[1], NumberState[2], NumberState[3], NumberState[4]}
  BY <1>1 DEF Numbers
<1> QED BY <1>2, <1>3

LEMMA SequencerTypes ==
  ASSUME RLTypeOK, Sequencer
  PROVE  Sequenced'
<1>1. reset_ctl[2] \in Byte /\ reset_run_number \in [1..4 -> Byte] /\ reset_state \in LinkStates
  BY DEF RLTypeOK, LinkStates
<1>2. CASE Put("command", reset_ctl[2], "idle")
  BY <1>1, <1>2 DEF Put, Sequenced, LinkStates
<1>3. CASE InOrder
  BY <1>3, Bytes DEF InOrder, Put, Sequenced
<1>4. CASE NumberByte
  <2>1. PICK i \in 1..4 : Put("number", reset_run_number[5 - i],
                              IF i < 4 THEN NumberState[i + 1] ELSE AfterNumber)
    BY <1>4 DEF NumberByte
  <2>2. reset_run_number[5 - i] \in Byte BY <1>1
  <2>3. (IF i < 4 THEN NumberState[i + 1] ELSE AfterNumber) \in LinkStates
    <3>1. CASE i < 4
      <4>1. i + 1 \in 1..4 BY <3>1
      <4> QED BY <3>1, <4>1 DEF LinkStates, Numbers
    <3>2. CASE ~(i < 4) BY <3>2 DEF LinkStates, AfterNumber
    <3> QED BY <3>1, <3>2
  <2> QED BY <2>1, <2>2, <2>3 DEF Put, Sequenced
<1>5. CASE Idles
  BY <1>1, <1>5, Bytes DEF Idles, Put, Sequenced
<1> QED BY <1>2, <1>3, <1>4, <1>5 DEF Sequencer

LEMMA CallTypes ==
  ASSUME run \in 1..MaxRuns \/ run = 0
  PROVE  /\ run > 0 => PrepareCall \in Seq(Write)
         /\ BeginCall \in Seq(Write) /\ EndCall \in Seq(Write)
         /\ AbortCall \in Seq(Write) /\ InitCall \in Seq(Write)
<1>1. Release \in Write /\ \A cmd \in Byte : Ctl(cmd) \in Write
  BY Bytes DEF Release, Ctl, Write
<1>2. \A v \in [1..4 -> Byte] : Number(v) \in Write
  BY DEF Number, Write
<1>3. Zero \in [1..4 -> Byte]
  BY Bytes DEF Zero
<1>4. run > 0 => Number(RunBytes[run]) \in Write
  BY <1>2, A10Assumption
<1>5. {Ctl(RunPrepare), Ctl(Sync), Ctl(StartRun), Ctl(EndRun), Ctl(AbortRun), Ctl(Reset),
       Ctl(StopReset), Release, Number(Zero)} \subseteq Write
  BY <1>1, <1>2, <1>3, A10Assumption
<1> QED BY <1>4, <1>5 DEF PrepareCall, BeginCall, EndCall, AbortCall, InitCall

TypeInv == RLTypeOK /\ BoardsInv /\ (midas # "stopped" => run > 0)

LEMMA TypeInit == RLInit => TypeInv
<1> SUFFICES ASSUME RLInit PROVE TypeInv OBVIOUS
<1>1. BoardsInv BY InitInv DEF RLInit
<1>2. TypeOK BY <1>1 DEF BoardsInv, TypeOK
<1>3. writes \in Seq(Write)
  BY CallsAre, CallTypes DEF RLInit
<1>4. spacing \in Spacings /\ spacing \in Nat
  BY A10Assumption DEF RLInit
<1>5. Zero \in [1..4 -> Byte] BY Bytes DEF Zero
<1> QED BY <1>1, <1>2, <1>3, <1>4, <1>5, Bytes, A10Assumption DEF RLInit, TypeInv, RLTypeOK, Write

LEMMA TakeTypes ==
  ASSUME RLTypeOK, TakeWrite \/ NoWrite
  PROVE  /\ writes' \in Seq(Write) /\ since' \in 0..spacing
         /\ reset_run_number' \in [1..4 -> Byte] /\ reset_ctl' \in {0, All} \X Byte
<1>1. spacing \in Nat \ {0} /\ since \in 0..spacing /\ writes \in Seq(Write)
      /\ reset_run_number \in [1..4 -> Byte] /\ reset_ctl \in {0, All} \X Byte
  BY A10Assumption DEF RLTypeOK, Write
<1>2. CASE NoWrite
  BY <1>1, <1>2 DEF NoWrite
<1>3. CASE TakeWrite
  <2>1. writes # <<>> /\ writes' = Tail(writes) /\ since' = 1
    BY <1>3 DEF TakeWrite
  <2>2. Head(writes) \in Write /\ Tail(writes) \in Seq(Write)
    BY <1>1, <2>1, HeadTailProperties
  <2>3. /\ Head(writes).register = "number" => Head(writes).value \in [1..4 -> Byte]
        /\ Head(writes).register # "number" => Head(writes).value \in {0, All} \X Byte
    BY <2>2 DEF Write
  <2>4. since' \in 0..spacing BY <1>1, <2>1
  <2> QED BY <1>1, <1>3, <2>1, <2>2, <2>3, <2>4 DEF TakeWrite
<1> QED BY <1>2, <1>3

LEMMA ClockTypes ==
  ASSUME TypeInv, LinkClock, TakeWrite \/ NoWrite
  PROVE  TypeInv'
<1>1. /\ RLTypeOK /\ BoardsInv /\ xcvr_tx_data \in Byte
  BY DEF TypeInv, RLTypeOK
<1>2. BoardsInv'
  <2> DEFINE l == [f \in FEB |-> IF Selected(f) THEN xcvr_tx_data ELSE Comma]
             t == [f \in FEB |-> f \in ended]
  <2>1. l \in [FEB -> Byte] /\ t \in [FEB -> BOOLEAN] BY <1>1, Bytes
  <2>2. Clock(l, t) BY DEF LinkClock
  <2> HIDE DEF l, t
  <2> QED BY <1>1, <2>1, <2>2, ClockInv
<1>3. TypeOK' BY <1>2 DEF BoardsInv, TypeOK
<1>4. reg_run_command' \in Byte /\ cur_output' \in {0, 4, All}
  BY <1>1 DEF LinkClock, RLTypeOK
<1>5. Sequenced' BY <1>1, SequencerTypes DEF LinkClock
<1>6. UNCHANGED <<spacing, midas, run, disturbed>> /\ ended' \subseteq FEB
  BY <1>1 DEF LinkClock, RLTypeOK
<1> QED BY <1>1, <1>2, <1>3, <1>4, <1>5, <1>6, TakeTypes
        DEF TypeInv, RLTypeOK, Sequenced, LinkStates, Write

LEMMA CallStepTypes ==
  ASSUME TypeInv, NEW to \in {"stopped", "starting", "prepared", "running", "stopping"}, NEW from,
         NEW q \in Seq(Write), Call(from, to, q), run' \in 0..MaxRuns,
         to # "stopped" => run' > 0
  PROVE  TypeInv'
BY DEF Call, TypeInv, RLTypeOK, BoardsInv, BoardInv, TypeOK, Write, link_vars

LEMMA TypeStep ==
  ASSUME TypeInv, [RLNext]_vars
  PROVE  TypeInv'
<1>1. run \in 0..MaxRuns /\ MaxRuns \in Nat /\ (run \in 1..MaxRuns \/ run = 0)
  BY A10Assumption DEF TypeInv, RLTypeOK
<1>2. CASE Tick \/ TickWithWrite
  BY <1>2, ClockTypes DEF Tick, TickWithWrite
<1>3. CASE StartTransition
  <2>1. run' \in 0..MaxRuns /\ run' > 0 /\ Call("stopped", "starting", <<>>)
    BY <1>1, <1>3 DEF StartTransition
  <2>2. <<>> \in Seq(Write) OBVIOUS
  <2> QED BY <2>1, <2>2, CallStepTypes
<1>4. CASE PrepareRunOnRequest
  <2>1. run' = run /\ Call("starting", "prepared", PrepareCall) /\ midas = "starting"
    BY <1>4, CallsAre DEF PrepareRunOnRequest, Call
  <2> QED BY <1>1, <2>1, CallTypes, CallStepTypes DEF TypeInv
<1>5. CASE BeginOfRun
  <2>1. run' = run /\ Call("prepared", "running", BeginCall) /\ midas = "prepared"
    BY <1>5, CallsAre DEF BeginOfRun, Call
  <2> QED BY <1>1, <2>1, CallTypes, CallStepTypes DEF TypeInv
<1>11. CASE BeginUnprepared
  <2>1. writes' = BeginCall /\ writes' \in Seq(Write)
    BY <1>1, <1>11, CallsAre, CallTypes DEF BeginUnprepared
  <2>2. disturbed' \in 0..MaxDisturbed
    BY <1>11, A10Assumption DEF BeginUnprepared, TypeInv, RLTypeOK
  <2>3. run' > 0 BY <1>11 DEF BeginUnprepared, TypeInv
  <2> QED BY <1>11, <2>1, <2>2, <2>3
      DEF BeginUnprepared, TypeInv, RLTypeOK, BoardsInv, TypeOK, Write, link_vars
<1>6. CASE EndOfRun
  <2>1. run' = run /\ Call("running", "stopping", EndCall) /\ midas = "running"
    BY <1>6, CallsAre DEF EndOfRun, Call
  <2> QED BY <1>1, <2>1, CallTypes, CallStepTypes DEF TypeInv
<1>7. CASE StopConfirmed \/ StopCancelled
  <2>1. run' = run /\ midas = "stopping"
        /\ (Call("stopping", "stopped", <<>>) \/ Call("stopping", "running", <<>>))
    BY <1>7 DEF StopConfirmed, StopCancelled, Call
  <2>2. <<>> \in Seq(Write) OBVIOUS
  <2> QED BY <1>1, <2>1, <2>2, CallStepTypes DEF TypeInv
<1>8. CASE Disturb
  <2>1. writes' \in Seq(Write)
    BY <1>1, <1>8, CallsAre, CallTypes DEF Disturb
  <2>2. disturbed' \in 0..MaxDisturbed
    BY <1>8, A10Assumption DEF Disturb, TypeInv, RLTypeOK
  <2> QED BY <1>8, <2>1, <2>2
      DEF Disturb, TypeInv, RLTypeOK, BoardsInv, TypeOK, Write, link_vars
<1>9. CASE \E f \in FEB : Terminate(f)
  BY <1>9 DEF Terminate, TypeInv, RLTypeOK, BoardsInv, TypeOK, register_vars, link_vars
<1>10. CASE UNCHANGED vars
  BY <1>10 DEF vars, TypeInv, RLTypeOK, BoardsInv, TypeOK, register_vars, link_vars
<1> QED BY <1>2, <1>3, <1>4, <1>5, <1>6, <1>7, <1>8, <1>9, <1>10, <1>11 DEF RLNext

\* The registers keep their ranges: the run states of the boards and of the
\* sequencer, the outputs and the bytes.
THEOREM LinkTypeCorrect == RLSpec => []RLTypeOK
<1>1. TypeInv => RLTypeOK BY DEF TypeInv
<1> QED BY <1>1, TypeInit, TypeStep, PTL DEF RLSpec

-----------------------------------------------------------------------------
(***************************************************************************)
(* The writes of one call at a time are under way, and the control register*)
(* is what the last of them has made it.                                   *)
(***************************************************************************)
After(call, n) == IF n = 0 \/ call[n].register = "number" THEN <<0, 0>> ELSE call[n].value
Under(call) ==
  /\ Len(writes) <= Len(call)
  /\ \A i \in 1..Len(writes) : writes[i] = call[i + (Len(call) - Len(writes))]
  /\ reset_ctl = After(call, Len(call) - Len(writes))
InFlight ==
  \/ Under(InitCall) \/ Under(AbortCall)
  \/ midas = "prepared" /\ Under(PrepareCall)
  \/ midas = "running" /\ Under(BeginCall)
  \/ midas = "stopping" /\ Under(EndCall)

\* A command that is still to come, or is in the register already.
Waits(cmd) == \E i \in 1..Len(writes) : writes[i] = Ctl(cmd)
Active(cmd) == reset_ctl[2] = cmd \/ Waits(cmd)
Coming(cmd) == reset_ctl[2] = cmd /\ reg_run_command = 0
Pending(cmd) == Coming(cmd) \/ Waits(cmd)

Commands == {RunPrepare, Sync, StartRun, EndRun, AbortRun, Reset, StopReset}

LEMMA TakeUnder ==
  ASSUME TypeInv, NEW call \in Seq(Write), Under(call), TakeWrite,
         \A i \in 2..Len(call) : call[i].register = "ctl"
  PROVE  Under(call)'
<1> DEFINE k == Len(call) - Len(writes)
<1>1. /\ writes \in Seq(Write) /\ writes # <<>> /\ writes' = Tail(writes)
      /\ Len(writes) \in Nat /\ Len(call) \in Nat /\ Len(writes) > 0
  BY LenProperties, EmptySeq DEF TypeInv, RLTypeOK, TakeWrite, Write
<1>2. /\ Head(writes) = writes[1] /\ Len(writes') = Len(writes) - 1
      /\ \A i \in 1..Len(writes') : writes'[i] = writes[i + 1]
  BY <1>1, HeadTailProperties
<1>3. k \in Nat /\ k + 1 \in 1..Len(call) /\ Len(call) - Len(writes') = k + 1
  BY <1>1, <1>2 DEF Under
<1>4. writes[1] = call[k + 1]
  <2>1. 1 \in 1..Len(writes) /\ 1 + k = k + 1 BY <1>1, <1>3
  <2> QED BY <2>1 DEF Under
<1>5. ASSUME NEW i \in 1..Len(writes') PROVE writes'[i] = call[i + (k + 1)]
  <2>1. i + 1 \in 1..Len(writes) /\ i + 1 + k = i + (k + 1) BY <1>1, <1>2, <1>3
  <2> QED BY <1>2, <2>1 DEF Under
<1>6. reset_ctl' = After(call, k + 1)
  <2>1. CASE Head(writes).register = "number"
    <3>1. ~(k + 1 \in 2..Len(call)) BY <1>2, <1>4, <2>1
    <3>2. k = 0 BY <1>3, <3>1
    <3> QED BY <1>2, <1>4, <2>1, <3>2 DEF Under, After, TakeWrite
  <2>2. CASE Head(writes).register # "number"
    <3>1. reset_ctl' = Head(writes).value BY <2>2 DEF TakeWrite
    <3>2. Head(writes) = call[k + 1] /\ k + 1 # 0 BY <1>2, <1>3, <1>4
    <3> HIDE DEF k
    <3> QED BY <2>2, <3>1, <3>2 DEF After
  <2> QED BY <2>1, <2>2
<1> HIDE DEF k
<1> QED BY <1>1, <1>2, <1>3, <1>5, <1>6 DEF Under

LEMMA StartUnder ==
  ASSUME NEW call \in Seq(Write), writes' = call, reset_ctl' = <<0, 0>>
  PROVE  Under(call)'
<1>1. Len(call) \in Nat /\ Len(call) - Len(call) = 0 BY LenProperties
<1>2. \A i \in 1..Len(call) : i + (Len(call) - Len(call)) = i BY <1>1
<1> QED BY <1>1, <1>2 DEF Under, After

\* What the calls say of the register and the writes that are still to come.
Orders ==
  /\ \/ reset_ctl = <<0, 0>>
     \/ /\ \E cmd \in Commands : reset_ctl = <<All, cmd>>
        /\ Len(writes) > 0 /\ writes[1] = Release
  /\ Len(writes) > 0 => \/ writes[1] = Release
                        \/ writes[1].register = "number" /\ Waits(RunPrepare)
                        \/ \E cmd \in Commands : writes[1] = Ctl(cmd)
  /\ Active(AbortRun) => \A cmd \in Commands \ {AbortRun} : ~Active(cmd)
  /\ Active(Reset) \/ Active(StopReset) => \A cmd \in Commands \ {Reset, StopReset} : ~Active(cmd)
  /\ Active(EndRun) => midas = "stopping" /\ \A cmd \in Commands \ {EndRun} : ~Active(cmd)
  /\ Waits(RunPrepare) => reset_ctl = <<0, 0>>
  /\ Active(RunPrepare) => midas \in {"prepared", "running"}
  /\ reset_ctl[2] = Reset => Len(writes) = 3 /\ writes[2] = Ctl(StopReset)
  /\ Len(writes) = 3 /\ writes[2] = Ctl(StopReset) => reset_ctl[2] = Reset /\ writes[1] = Release
  /\ Len(writes) > 0 /\ writes[1] = Ctl(StopReset) => Len(writes) = 2
  /\ Waits(StopReset) \/ reset_ctl[2] = StopReset => Len(writes) > 0
  /\ Len(writes) = 0 => reset_ctl = <<0, 0>>

LEMMA OrdersFollow ==
  ASSUME TypeInv, InFlight
  PROVE  Orders
<1> USE DEF Commands, RunPrepare, Sync, StartRun, EndRun, AbortRun, Reset, StopReset
<1>1. Len(writes) \in Nat
  BY LenProperties DEF TypeInv, RLTypeOK
<1>7. \A n \in Nat, m \in Nat : n <= m => n \in 0..m
  OBVIOUS
<1>2. CASE Under(InitCall)
  <2>1. Len(InitCall) = 4 BY DEF InitCall
  <2>2. Len(writes) \in 0..4
    <3>2. 4 \in Nat OBVIOUS
    <3>1. Len(writes) <= Len(InitCall) BY <1>2 DEF Under
    <3> QED BY <1>1, <1>7, <2>1, <3>1, <3>2
  <2>3. CASE Len(writes) = 4
    BY <1>2, <2>3 DEF Under, After, InitCall, Orders, Active, Waits, Ctl, Release, Number, All
  <2>4. CASE Len(writes) = 3
    BY <1>2, <2>4 DEF Under, After, InitCall, Orders, Active, Waits, Ctl, Release, Number, All
  <2>5. CASE Len(writes) = 2
    BY <1>2, <2>5 DEF Under, After, InitCall, Orders, Active, Waits, Ctl, Release, Number, All
  <2>6. CASE Len(writes) = 1
    BY <1>2, <2>6 DEF Under, After, InitCall, Orders, Active, Waits, Ctl, Release, Number, All
  <2>7. CASE Len(writes) = 0
    BY <1>2, <2>7 DEF Under, After, InitCall, Orders, Active, Waits, Ctl, Release, Number, All
  <2> QED BY <2>2, <2>3, <2>4, <2>5, <2>6, <2>7
<1>3. CASE Under(AbortCall)
  <2>1. Len(AbortCall) = 2 BY DEF AbortCall
  <2>2. Len(writes) \in 0..2
    <3>2. 2 \in Nat OBVIOUS
    <3>1. Len(writes) <= Len(AbortCall) BY <1>3 DEF Under
    <3> QED BY <1>1, <1>7, <2>1, <3>1, <3>2
  <2>3. CASE Len(writes) = 2
    BY <1>3, <2>3 DEF Under, After, AbortCall, Orders, Active, Waits, Ctl, Release, Number, All
  <2>4. CASE Len(writes) = 1
    BY <1>3, <2>4 DEF Under, After, AbortCall, Orders, Active, Waits, Ctl, Release, Number, All
  <2>5. CASE Len(writes) = 0
    BY <1>3, <2>5 DEF Under, After, AbortCall, Orders, Active, Waits, Ctl, Release, Number, All
  <2> QED BY <2>2, <2>3, <2>4, <2>5
<1>4. CASE midas = "prepared" /\ Under(PrepareCall)
  <2>1. Len(PrepareCall) = 3 BY DEF PrepareCall
  <2>2. Len(writes) \in 0..3
    <3>2. 3 \in Nat OBVIOUS
    <3>1. Len(writes) <= Len(PrepareCall) BY <1>4 DEF Under
    <3> QED BY <1>1, <1>7, <2>1, <3>1, <3>2
  <2>3. CASE Len(writes) = 3
    BY <1>4, <2>3 DEF Under, After, PrepareCall, Orders, Active, Waits, Ctl, Release, Number, All
  <2>4. CASE Len(writes) = 2
    BY <1>4, <2>4 DEF Under, After, PrepareCall, Orders, Active, Waits, Ctl, Release, Number, All
  <2>5. CASE Len(writes) = 1
    BY <1>4, <2>5 DEF Under, After, PrepareCall, Orders, Active, Waits, Ctl, Release, Number, All
  <2>6. CASE Len(writes) = 0
    BY <1>4, <2>6 DEF Under, After, PrepareCall, Orders, Active, Waits, Ctl, Release, Number, All
  <2> QED BY <2>2, <2>3, <2>4, <2>5, <2>6
<1>5. CASE midas = "running" /\ Under(BeginCall)
  <2>1. Len(BeginCall) = 7 BY DEF BeginCall
  <2>2. Len(writes) \in 0..7
    <3>2. 7 \in Nat OBVIOUS
    <3>1. Len(writes) <= Len(BeginCall) BY <1>5 DEF Under
    <3> QED BY <1>1, <1>7, <2>1, <3>1, <3>2
  <2>3. CASE Len(writes) = 7
    BY <1>5, <2>3 DEF Under, After, BeginCall, Orders, Active, Waits, Ctl, Release, Number, All
  <2>4. CASE Len(writes) = 6
    BY <1>5, <2>4 DEF Under, After, BeginCall, Orders, Active, Waits, Ctl, Release, Number, All
  <2>5. CASE Len(writes) = 5
    BY <1>5, <2>5 DEF Under, After, BeginCall, Orders, Active, Waits, Ctl, Release, Number, All
  <2>6. CASE Len(writes) = 4
    BY <1>5, <2>6 DEF Under, After, BeginCall, Orders, Active, Waits, Ctl, Release, Number, All
  <2>7. CASE Len(writes) = 3
    BY <1>5, <2>7 DEF Under, After, BeginCall, Orders, Active, Waits, Ctl, Release, Number, All
  <2>8. CASE Len(writes) = 2
    BY <1>5, <2>8 DEF Under, After, BeginCall, Orders, Active, Waits, Ctl, Release, Number, All
  <2>9. CASE Len(writes) = 1
    BY <1>5, <2>9 DEF Under, After, BeginCall, Orders, Active, Waits, Ctl, Release, Number, All
  <2>10. CASE Len(writes) = 0
    BY <1>5, <2>10 DEF Under, After, BeginCall, Orders, Active, Waits, Ctl, Release, Number, All
  <2> QED BY <2>2, <2>3, <2>4, <2>5, <2>6, <2>7, <2>8, <2>9, <2>10
<1>6. CASE midas = "stopping" /\ Under(EndCall)
  <2>1. Len(EndCall) = 2 BY DEF EndCall
  <2>2. Len(writes) \in 0..2
    <3>2. 2 \in Nat OBVIOUS
    <3>1. Len(writes) <= Len(EndCall) BY <1>6 DEF Under
    <3> QED BY <1>1, <1>7, <2>1, <3>1, <3>2
  <2>3. CASE Len(writes) = 2
    BY <1>6, <2>3 DEF Under, After, EndCall, Orders, Active, Waits, Ctl, Release, Number, All
  <2>4. CASE Len(writes) = 1
    BY <1>6, <2>4 DEF Under, After, EndCall, Orders, Active, Waits, Ctl, Release, Number, All
  <2>5. CASE Len(writes) = 0
    BY <1>6, <2>5 DEF Under, After, EndCall, Orders, Active, Waits, Ctl, Release, Number, All
  <2> QED BY <2>2, <2>3, <2>4, <2>5
<1> QED BY <1>2, <1>3, <1>4, <1>5, <1>6 DEF InFlight
-----------------------------------------------------------------------------
(***************************************************************************)
(* One clock of the sequencer: the commands that go out at once, those     *)
(* that go out in order, the bytes of the number, or a comma.              *)
(***************************************************************************)
AtOnce == {AbortRun, Reset, StopReset}

LEMMA Sequences ==
  ASSUME TypeInv, Orders, Sequencer
  PROVE  \/ \E cmd \in AtOnce : Coming(cmd) /\ Put("command", cmd, "idle")
         \/ Coming(RunPrepare) /\ reset_state = "idle" /\ Put("command", RunPrepare, "rNB0")
         \/ Coming(Sync) /\ reset_state = "sync" /\ Put("command", Sync, "start_run")
         \/ Coming(StartRun) /\ reset_state = "start_run" /\ Put("command", StartRun, "end_run")
         \/ Coming(EndRun) /\ reset_state = "end_run" /\ Put("command", EndRun, "idle")
         \/ reset_state = "rNB0" /\ Put("number", reset_run_number[4], "rNB1")
         \/ reset_state = "rNB1" /\ Put("number", reset_run_number[3], "rNB2")
         \/ reset_state = "rNB2" /\ Put("number", reset_run_number[2], "rNB3")
         \/ reset_state = "rNB3" /\ Put("number", reset_run_number[1], "sync")
         \/ /\ reset_state \notin Numbers /\ Put("comma", Comma, reset_state)
            /\ \A cmd \in AtOnce : ~Coming(cmd)
            /\ ~(Coming(RunPrepare) /\ reset_state = "idle")
<1>1. /\ \A cmd : Arrives(cmd) <=> Coming(cmd)
      /\ AtOnce \subseteq Byte \ {0, RunPrepare, Sync, StartRun, EndRun}
      /\ Commands = AtOnce \cup {RunPrepare, Sync, StartRun, EndRun}
  BY A10Assumption DEF Arrives, Coming, AtOnce, Commands, RunPrepare, Sync, StartRun, EndRun,
                       AbortRun, Reset, StopReset
<1>2. CASE Immediate
  <2>1. PICK cmd \in Byte \ {0, RunPrepare, Sync, StartRun, EndRun} : Coming(cmd)
    BY <1>1, <1>2 DEF Immediate
  <2>2. cmd = reset_ctl[2] /\ Put("command", cmd, "idle")
    BY <1>2, <2>1 DEF Sequencer, Coming
  <2>3. cmd \in AtOnce
    <3>1. reset_ctl = <<0, 0>> \/ \E x \in Commands : reset_ctl = <<All, x>> BY DEF Orders
    <3> QED BY <1>1, <2>1, <2>2, <3>1
  <2> QED BY <2>1, <2>2, <2>3
<1>3. CASE ~Immediate /\ InOrder
  BY <1>1, <1>3 DEF InOrder, Order
<1>4. CASE ~Immediate /\ NumberByte
  <2>1. PICK i \in 1..4 : /\ reset_state = NumberState[i]
                          /\ Put("number", reset_run_number[5 - i],
                                 IF i < 4 THEN NumberState[i + 1] ELSE AfterNumber)
    BY <1>4 DEF NumberByte
  <2>2. CASE i = 1 BY <2>1, <2>2, NumberStates
  <2>3. CASE i = 2 BY <2>1, <2>3, NumberStates
  <2>4. CASE i = 3 BY <2>1, <2>4, NumberStates
  <2>5. CASE i = 4 BY <2>1, <2>5, NumberStates DEF AfterNumber
  <2> QED BY <2>1, <2>2, <2>3, <2>4, <2>5
<1>5. CASE ~Immediate /\ Idles
  <2>1. \A cmd \in AtOnce : ~Coming(cmd) BY <1>1, <1>5 DEF Immediate
  <2>2. ~(Coming(RunPrepare) /\ reset_state = "idle") BY <1>1, <1>5 DEF Idles, Order
  <2> QED BY <1>5, <2>1, <2>2 DEF Idles
<1> QED BY <1>2, <1>3, <1>4, <1>5 DEF Sequencer
-----------------------------------------------------------------------------
(***************************************************************************)
(* What a board makes of the byte on the link: c is the board before the   *)
(* clock, and what, byte and next are the outputs of the sequencer.        *)
(***************************************************************************)
RunBoards == {"IDLE"} \cup InRun
NumberLeft(next) == IF next = "rNB1" THEN 4 ELSE IF next = "rNB2" THEN 3
                    ELSE IF next = "rNB3" THEN 2 ELSE 1

Follows(c, what, byte, next) ==
  /\ Listens(c)
  /\ what = "number" => next \in {"rNB1", "rNB2", "rNB3", "sync"} /\ Awaits(c, NumberLeft(next))
  /\ what = "command" =>
       \/ byte = RunPrepare /\ Is(c, {"IDLE"}) /\ next = "rNB0"
       \/ byte = Sync /\ Is(c, {"PREP"}) /\ next = "start_run"
       \/ byte = StartRun /\ Is(c, {"SYNC"}) /\ next = "end_run"
       \/ byte = EndRun /\ Is(c, {"RUNNING"}) /\ next = "idle"
       \/ byte \in {AbortRun, Reset} /\ Is(c, RunBoards) /\ next = "idle"
       \/ byte = StopReset /\ Is(c, {"RESET", "IDLE"}) /\ next = "idle"
  /\ what = "comma" =>
       /\ byte = Comma
       /\ \/ next = "idle" /\ (Is(c, {"IDLE", "TERMINATING"}) \/ Resets(c, 2))
          \/ next = "sync" /\ Is(c, {"PREP"})
          \/ next = "start_run" /\ Is(c, {"SYNC"})
          \/ next = "end_run" /\ Is(c, {"RUNNING"})

Reads(c, d, what, byte, next, term) ==
  /\ Listens(d)
  /\ what = "number" => IF next = "sync" THEN Is(d, {"PREP"}) ELSE Awaits(d, NumberLeft(next) - 1)
  /\ what = "command" =>
       \/ byte = RunPrepare /\ Awaits(d, 4)
       \/ byte = Sync /\ Is(d, {"SYNC"})
       \/ byte = StartRun /\ Is(d, {"RUNNING"})
       \/ byte = EndRun /\ Is(d, {"TERMINATING"})
       \/ byte \in {AbortRun, StopReset} /\ Is(d, {"IDLE"})
       \/ byte = Reset /\ (Resets(d, 2) \/ Is(d, {"IDLE"}))
  /\ what = "comma" =>
       /\ ~c.recieving_payload =>
            /\ ~d.recieving_payload
            /\ d.state = IF c.state = "TERMINATING" /\ term THEN "IDLE" ELSE c.state
       /\ \A n \in 1..2 : Resets(c, n) => Resets(d, n - 1)

LEMMA BoardReads ==
  ASSUME NEW c \in Controller, PayloadFits(c), NEW addr, NEW term \in BOOLEAN,
         NEW what \in {"comma", "command", "number"}, NEW byte \in Byte, NEW next,
         Follows(c, what, byte, next),
         NEW b \in Byte, b = byte \/ what = "number",
         NEW d, d = Clocked(c, addr, b, term)
  PROVE  Reads(c, d, what, byte, next, term)
<1>1. Listens(c) /\ Comma \in Byte BY Bytes DEF Follows
<1>2. CASE what = "number"
  <2>1. Awaits(c, NumberLeft(next)) /\ next \in {"rNB1", "rNB2", "rNB3", "sync"}
    BY <1>2 DEF Follows
  <2>2. c.recieving_payload BY <2>1 DEF Awaits
  <2>3. /\ Listens(d)
        /\ \A n \in 2..4 : Awaits(c, n) => Awaits(d, n - 1)
        /\ Awaits(c, 1) => Is(d, {"PREP"})
    BY <1>1, <2>2, ReadPayload
  <2>4. next = "sync" => NumberLeft(next) = 1 BY DEF NumberLeft
  <2>5. next # "sync" => NumberLeft(next) \in 2..4 BY <2>1 DEF NumberLeft
  <2> QED BY <1>2, <2>1, <2>3, <2>4, <2>5 DEF Reads
<1>3. CASE what = "command"
  <2>1. byte \in RunBytesOnly /\ b = byte
    BY <1>3 DEF Follows, RunBytesOnly
  <2>2. /\ Is(c, {"IDLE"} \cup InRun \cup {"RESET"}) => Listens(d)
        /\ b = RunPrepare /\ Is(c, {"IDLE"}) => Awaits(d, 4)
        /\ b = Sync /\ Is(c, {"PREP"}) => Is(d, {"SYNC"})
        /\ b = StartRun /\ Is(c, {"SYNC"}) => Is(d, {"RUNNING"})
        /\ b = EndRun /\ Is(c, {"RUNNING"}) => Is(d, {"TERMINATING"})
        /\ b = AbortRun /\ Is(c, {"IDLE"} \cup InRun) => Is(d, {"IDLE"})
        /\ b = Reset /\ Is(c, {"IDLE"} \cup InRun) => Resets(d, 2) \/ Is(d, {"IDLE"})
        /\ b = StopReset /\ Is(c, {"RESET", "IDLE"}) => Is(d, {"IDLE"})
    BY <1>1, <2>1, ReadCommand
  <2>3. Is(c, {"IDLE"} \cup InRun \cup {"RESET"})
    BY <1>3 DEF Follows, Is, RunBoards, InRun
  <2> QED BY <1>3, <2>1, <2>2, <2>3 DEF Follows, Reads, RunBoards
<1>4. CASE what = "comma"
  <2>1. byte = Comma /\ b = Comma BY <1>4 DEF Follows
  <2>2. CASE ~c.recieving_payload
    <3>1. Is(c, {"IDLE", "RESET"} \cup InRun)
      BY <1>4, <2>2 DEF Follows, Is, Resets, InRun
    <3>2. /\ Listens(d) /\ ~d.recieving_payload
          /\ d.state = IF c.state = "TERMINATING" /\ term THEN "IDLE" ELSE c.state
      BY <1>1, <2>1, <3>1, ReadComma
    <3> QED BY <1>4, <2>2, <3>2 DEF Reads, Resets
  <2>3. CASE c.recieving_payload
    <3>1. /\ Listens(d)
          /\ \A n \in 1..4 : Resets(c, n) => Resets(d, n - 1)
      BY <1>1, <2>3, ReadPayload
    <3> QED BY <1>4, <2>3, <3>1 DEF Reads
  <2> QED BY <2>2, <2>3
<1> QED BY <1>2, <1>3, <1>4
-----------------------------------------------------------------------------
(***************************************************************************)
(* The registers in a clock, if two writes are never in neighbouring       *)
(* clocks.                                                                 *)
(***************************************************************************)
Takes ==
  /\ since = spacing /\ since' = 1
  /\ Len(writes) > 0 /\ Len(writes') = Len(writes) - 1
  /\ \A i \in 1..Len(writes') : writes'[i] = writes[i + 1]
  /\ \/ writes[1] = Release /\ reset_ctl' = <<0, 0>>
     \/ /\ writes[1].register = "number" /\ Waits(RunPrepare)
        /\ reset_ctl = <<0, 0>> /\ reset_ctl' = <<0, 0>>
     \/ \E cmd \in Commands : /\ writes[1] = Ctl(cmd) /\ Waits(cmd)
                             /\ reset_ctl = <<0, 0>> /\ reset_ctl' = <<All, cmd>>
Keeps == writes' = writes /\ reset_ctl' = reset_ctl

LEMMA WriteFacts ==
  ASSUME TypeInv, Orders, TakeWrite \/ NoWrite
  PROVE  Takes \/ (NoWrite /\ Keeps)
<1>1. CASE NoWrite BY <1>1 DEF NoWrite, Keeps
<1>2. CASE TakeWrite
  <2>1. /\ writes \in Seq(Write) /\ writes # <<>> /\ writes' = Tail(writes)
        /\ Len(writes) \in Nat /\ Len(writes) > 0
    BY <1>2, LenProperties, EmptySeq DEF TypeInv, RLTypeOK, TakeWrite, Write
  <2>2. /\ Head(writes) = writes[1] /\ Len(writes') = Len(writes) - 1
        /\ \A i \in 1..Len(writes') : writes'[i] = writes[i + 1]
    BY <2>1, HeadTailProperties
  <2>3. since = spacing /\ since' = 1
        /\ (writes[1].register = "number" => reset_ctl' = reset_ctl)
        /\ (writes[1].register # "number" => reset_ctl' = writes[1].value)
    BY <1>2, <2>2 DEF TakeWrite
  <2>4. CASE writes[1] = Release
    <3>1. writes[1].register # "number" /\ writes[1].value = <<0, 0>> BY <2>4 DEF Release
    <3> QED BY <2>1, <2>2, <2>3, <2>4, <3>1 DEF Takes
  <2>5. CASE writes[1] # Release
    <3>1. reset_ctl = <<0, 0>> BY <2>1, <2>5 DEF Orders
    <3>2. CASE writes[1].register = "number"
      <4>1. Waits(RunPrepare)
        <5>1. \A cmd : Ctl(cmd).register # "number" BY DEF Ctl
        <5> QED BY <2>1, <2>5, <3>2, <5>1 DEF Orders
      <4> QED BY <2>1, <2>2, <2>3, <3>1, <3>2, <4>1 DEF Takes
    <3>3. CASE writes[1].register # "number"
      <4>1. PICK cmd \in Commands : writes[1] = Ctl(cmd) BY <2>1, <2>5, <3>3 DEF Orders
      <4>2. Waits(cmd)
        <5>1. 1 \in 1..Len(writes) BY <2>1
        <5> QED BY <4>1, <5>1 DEF Waits
      <4>3. reset_ctl' = <<All, cmd>> BY <2>3, <3>3, <4>1 DEF Ctl
      <4> QED BY <2>1, <2>2, <2>3, <3>1, <4>1, <4>2, <4>3 DEF Takes
    <3> QED BY <3>2, <3>3
  <2> QED BY <2>4, <2>5
<1> QED BY <1>1, <1>2

LEMMA CommandBytes ==
  /\ 0 \notin Commands
  /\ \A a \in Commands : \A v : Ctl(a) # Release /\ Ctl(a) # Number(v)
  /\ \A a \in Commands, b \in Commands : Ctl(a) = Ctl(b) => a = b
  /\ \A a : <<All, a>>[1] = All /\ <<All, a>>[2] = a
  /\ <<0, 0>>[2] = 0
  /\ \A v : Number(v) # Release
BY DEF Commands, RunPrepare, Sync, StartRun, EndRun, AbortRun, Reset, StopReset, Ctl, Release,
       Number, All

\* A command that is pending after a clock was waiting before it.
LEMMA PendingWaits ==
  ASSUME TypeInv, Orders, LinkClock, TakeWrite \/ NoWrite, NEW cmd \in Commands
  PROVE  /\ Waits(cmd)' => Waits(cmd)
         /\ Coming(cmd)' => Waits(cmd)
         /\ Active(cmd)' => Active(cmd)
<1>1. Len(writes) \in Nat /\ reg_run_command' = reset_ctl[2]
  BY LenProperties DEF TypeInv, RLTypeOK, LinkClock
<1>2. CASE NoWrite /\ Keeps
  <2>1. Waits(cmd)' => Waits(cmd) BY <1>2 DEF Keeps, Waits
  <2>2. ~Coming(cmd)' BY <1>1, <1>2, CommandBytes DEF Keeps, Coming
  <2> QED BY <1>2, <2>1, <2>2 DEF Keeps, Active
<1>3. CASE Takes
  <2>1. Waits(cmd)' => Waits(cmd)
    <3> SUFFICES ASSUME NEW i \in 1..Len(writes'), writes'[i] = Ctl(cmd) PROVE Waits(cmd)
      BY DEF Waits
    <3>1. i + 1 \in 1..Len(writes) /\ writes[i + 1] = Ctl(cmd) BY <1>1, <1>3 DEF Takes
    <3> QED BY <3>1 DEF Waits
  <2>2. reset_ctl'[2] = cmd => Waits(cmd)
    BY <1>3, CommandBytes DEF Takes
  <2> QED BY <2>1, <2>2 DEF Coming, Active
<1> QED BY <1>2, <1>3, WriteFacts

Registers ==
  /\ spacing > 1 /\ since >= 1
  /\ since > 1 => reg_run_command = reset_ctl[2]
  /\ since = 1 /\ reset_ctl[2] # 0 => reg_run_command = 0
  /\ reg_run_command # 0 => cur_output = All
  /\ sends = "command" => xcvr_tx_data = reset_ctl[2] /\ reg_run_command = reset_ctl[2]

LEMMA NothingTaken ==
  ASSUME TypeInv, Orders, Registers, TakeWrite \/ NoWrite, NEW cmd \in Commands, Coming(cmd)
  PROVE  NoWrite /\ Keeps /\ since = 1
<1>1. reset_ctl[2] = cmd /\ reg_run_command = 0 /\ cmd # 0
  BY CommandBytes DEF Coming
<1>2. since \in Nat /\ spacing \in Nat
  BY A10Assumption DEF TypeInv, RLTypeOK
<1>3. since = 1 /\ since # spacing BY <1>1, <1>2 DEF Registers
<1> QED BY <1>3, WriteFacts DEF Takes

LEMMA RegistersStep ==
  ASSUME TypeInv, Orders, Registers, LinkClock, TakeWrite \/ NoWrite
  PROVE  Registers'
<1>1. /\ reg_run_command' = reset_ctl[2] /\ cur_output' = reset_ctl[1] /\ spacing' = spacing
      /\ since \in Nat /\ spacing \in Nat
  BY A10Assumption DEF LinkClock, TypeInv, RLTypeOK
<1>2. since' >= 1 /\ (since' > 1 => NoWrite /\ Keeps) /\ (since' = 1 => Takes)
  BY <1>1, WriteFacts DEF NoWrite, Takes, Registers
<1>3. since' > 1 => reg_run_command' = reset_ctl'[2]
  BY <1>1, <1>2 DEF Keeps
<1>4. since' = 1 /\ reset_ctl'[2] # 0 => reg_run_command' = 0
  BY <1>1, <1>2, CommandBytes DEF Takes
<1>5. reg_run_command' # 0 => cur_output' = All
  BY <1>1, CommandBytes DEF Orders
<1>6. ASSUME sends' = "command"
      PROVE  xcvr_tx_data' = reset_ctl'[2] /\ reg_run_command' = reset_ctl'[2]
  <2>1. \E cmd \in Commands : Coming(cmd) /\ xcvr_tx_data' = cmd
    BY <1>6, Sequences DEF LinkClock, Put, AtOnce, Commands
  <2>2. PICK cmd \in Commands : Coming(cmd) /\ xcvr_tx_data' = cmd BY <2>1
  <2>3. Keeps BY <2>2, NothingTaken
  <2> QED BY <1>1, <2>2, <2>3 DEF Coming, Keeps
<1> QED BY <1>1, <1>2, <1>3, <1>4, <1>5, <1>6 DEF Registers
-----------------------------------------------------------------------------
(***************************************************************************)
(* What ties the boards to the sequencer.                                  *)
(***************************************************************************)
\* A command that goes out at once never meets the bytes of a number.
ImmediateInv ==
  (\E cmd \in AtOnce : Active(cmd)) => reset_state \notin Numbers /\ sends # "number"

\* The reset of the boards when crfe starts: the sites where one is in it.
ResetGiven == reset_ctl[2] = Reset /\ reg_run_command # 0 /\ sends = "comma"
ResetHeld == Len(writes) = 2 /\ writes[1] = Ctl(StopReset)
ResetLeft == reset_ctl[2] = StopReset /\ (reg_run_command = 0 \/ sends = "command")
Resetting(c, n) == Is(c, {"IDLE"}) \/ Resets(c, n)

InReset(c) ==
  /\ ResetGiven => Resetting(c, 2)
  /\ ResetHeld => Resetting(c, 2) /\ (since > 1 => Resetting(c, 1))
  /\ ResetLeft => Is(c, {"IDLE", "RESET"})
  /\ c.state = "RESET" => ResetGiven \/ ResetHeld \/ ResetLeft

\* A board whose end of the run is not seen yet holds back the next run.
EndedInv(f) ==
  /\ reset_state = "idle" /\ board[f].state = "TERMINATING" /\ f \notin ended =>
       midas \in {"running", "stopping"} /\ ~Pending(RunPrepare)
  /\ Pending(RunPrepare) /\ reset_state = "idle" =>
       \/ Is(board[f], {"IDLE"})
       \/ /\ Is(board[f], {"TERMINATING"}) /\ f \in ended
          /\ Len(writes) > 0 /\ writes[1].register = "number"

BoardFollows(f) == Follows(board[f], sends, xcvr_tx_data, reset_state)

LinkInv ==
  /\ TypeInv /\ InFlight /\ Registers /\ ImmediateInv
  /\ \A f \in FEB : BoardFollows(f) /\ InReset(board[f]) /\ EndedInv(f)

LEMMA ImmediateStep ==
  ASSUME TypeInv, Orders, ImmediateInv, LinkClock, TakeWrite \/ NoWrite
  PROVE  ImmediateInv'
<1> SUFFICES ASSUME NEW cmd \in AtOnce, Active(cmd)'
             PROVE  reset_state' \notin Numbers /\ sends' # "number"
  BY DEF ImmediateInv
<1>1. cmd \in Commands /\ cmd # RunPrepare /\ RunPrepare \in Commands
  BY DEF AtOnce, Commands, RunPrepare, AbortRun, Reset, StopReset
<1>2. Active(cmd) BY <1>1, PendingWaits
<1>3. ~Active(RunPrepare)
  BY <1>1, <1>2 DEF Orders, AtOnce, RunPrepare, AbortRun, Reset, StopReset, Commands
<1>4. ~Coming(RunPrepare) BY <1>3 DEF Active, Coming
<1>5. reset_state \notin Numbers BY <1>2 DEF ImmediateInv
<1> QED BY <1>4, <1>5, Sequences, NumberStates DEF LinkClock, Put

\* The byte on the link, as one board hears it: only bytes of a number pass
\* a board by.
Heard(f) == IF Selected(f) THEN xcvr_tx_data ELSE Comma

LEMMA HeardByte ==
  ASSUME TypeInv, Orders, Registers, LinkClock, NEW f \in FEB, BoardFollows(f)
  PROVE  /\ board[f] \in Controller /\ PayloadFits(board[f])
         /\ xcvr_tx_data \in Byte /\ sends \in {"comma", "command", "number"}
         /\ board'[f] = Clocked(board[f], Addr[f], Heard(f), f \in ended)
         /\ Heard(f) \in Byte
         /\ Heard(f) = xcvr_tx_data \/ sends = "number"
<1>1. /\ board[f] \in Controller /\ PayloadFits(board[f])
      /\ xcvr_tx_data \in Byte /\ sends \in {"comma", "command", "number"}
  BY DEF TypeInv, RLTypeOK, BoardsInv, BoardInv
<1>2. board'[f] = Clocked(board[f], Addr[f], Heard(f), f \in ended)
  BY DEF LinkClock, Clock, Heard
<1>3. Heard(f) \in Byte BY <1>1, Bytes DEF Heard
<1>4. Heard(f) = xcvr_tx_data \/ sends = "number"
  <2>1. CASE sends = "command"
    <3>1. xcvr_tx_data # 0
      BY <2>1 DEF BoardFollows, Follows, RunPrepare, Sync, StartRun, EndRun, AbortRun, Reset,
                  StopReset
    <3>2. cur_output = All BY <2>1, <3>1 DEF Registers
    <3> QED BY <3>2 DEF Selected, Heard
  <2>2. CASE sends = "comma"
    BY <2>2 DEF BoardFollows, Follows, Heard
  <2> QED BY <1>1, <2>1, <2>2
<1> QED BY <1>1, <1>2, <1>3, <1>4

LEMMA BoardClock ==
  ASSUME TypeInv, Orders, Registers, LinkClock, NEW f \in FEB, BoardFollows(f)
  PROVE  /\ Reads(board[f], board'[f], sends, xcvr_tx_data, reset_state, f \in ended)
         /\ board[f] \in Controller /\ PayloadFits(board[f])
<1> DEFINE b == Heard(f)
           t == f \in ended
<1>1. /\ board[f] \in Controller /\ PayloadFits(board[f])
      /\ xcvr_tx_data \in Byte /\ sends \in {"comma", "command", "number"}
      /\ board'[f] = Clocked(board[f], Addr[f], b, t)
      /\ b \in Byte /\ t \in BOOLEAN
      /\ b = xcvr_tx_data \/ sends = "number"
  BY HeardByte
<1> HIDE DEF b, t
<1>2. Reads(board[f], board'[f], sends, xcvr_tx_data, reset_state, t)
  BY <1>1, BoardReads DEF BoardFollows
<1> QED BY <1>1, <1>2 DEF t

LEMMA FollowsStep ==
  ASSUME TypeInv, Orders, Registers, ImmediateInv, LinkClock, TakeWrite \/ NoWrite,
         NEW f \in FEB, BoardFollows(f), InReset(board[f]), EndedInv(f)
  PROVE  BoardFollows(f)'
<1> DEFINE c == board[f]
           d == board'[f]
<1>1. /\ Reads(c, d, sends, xcvr_tx_data, reset_state, f \in ended)
      /\ Follows(c, sends, xcvr_tx_data, reset_state)
  BY BoardClock DEF BoardFollows
<1>2. /\ Listens(d)
      /\ RunPrepare # 0 /\ Sync # 0 /\ StartRun # 0 /\ EndRun # 0
      /\ \A cmd \in AtOnce : cmd # 0
  BY <1>1 DEF Reads, AtOnce, RunPrepare, Sync, StartRun, EndRun, AbortRun, Reset, StopReset
<1>3. sends \in {"comma", "command", "number"} /\ reset_state \in LinkStates
  BY DEF TypeInv, RLTypeOK, LinkStates
<1>4. sends = "command" => \A cmd : Coming(cmd) => cmd = 0
  <2>1. sends = "command" => reg_run_command # 0
    BY DEF BoardFollows, Follows, Registers, RunPrepare, Sync, StartRun, EndRun, AbortRun,
           Reset, StopReset
  <2> QED BY <2>1 DEF Coming
\* The board after the byte, by the place of the sequencer.
<1>5. /\ reset_state = "rNB0" => sends = "command" /\ Awaits(d, 4)
      /\ reset_state = "rNB1" => sends = "number" /\ Awaits(d, 3)
      /\ reset_state = "rNB2" => sends = "number" /\ Awaits(d, 2)
      /\ reset_state = "rNB3" => sends = "number" /\ Awaits(d, 1)
      /\ reset_state = "sync" => Is(d, {"PREP"})
      /\ reset_state = "start_run" => Is(d, {"SYNC"})
      /\ reset_state = "end_run" => Is(d, {"RUNNING"})
      /\ reset_state = "idle" => sends # "number" /\ (Is(d, {"IDLE", "TERMINATING"}) \/ Resets(d, 2))
  <2>1. CASE sends = "number"
    BY <1>1, <2>1 DEF Follows, Reads, NumberLeft
  <2>2. CASE sends = "command"
    BY <1>1, <2>2 DEF Follows, Reads, Is, RunPrepare, Sync, StartRun, EndRun, AbortRun, Reset,
                      StopReset
  <2>3. CASE sends = "comma"
    <3>1. CASE ~c.recieving_payload
      BY <1>1, <2>3, <3>1 DEF Follows, Reads, Is, Resets
    <3>2. CASE c.recieving_payload
      <4>1. Resets(c, 2) /\ reset_state = "idle" BY <1>1, <2>3, <3>2 DEF Follows, Is
      <4>2. Resets(d, 1) BY <1>1, <2>3, <4>1 DEF Reads
      <4>3. Resets(d, 2)
        <5>1. d.payload_byte_counter \in Nat
          BY TypeStep DEF TypeInv, BoardsInv, Controller, RLNext, Tick, TickWithWrite
        <5> QED BY <4>2, <5>1 DEF Resets
      <4> QED BY <2>3, <4>1, <4>3
    <3> QED BY <3>1, <3>2
  <2> QED BY <1>3, <2>1, <2>2, <2>3
<1>6. ASSUME NEW cmd \in AtOnce, Coming(cmd), Put("command", cmd, "idle")
      PROVE  BoardFollows(f)'
  <2>1. Active(cmd) /\ cmd \in Commands
    BY <1>6 DEF Coming, Active, AtOnce, Commands
  <2>2. sends = "comma" BY <1>2, <1>3, <1>4, <1>6, <2>1 DEF ImmediateInv
  <2>3. /\ reset_ctl = <<All, cmd>> /\ Len(writes) > 0 /\ writes[1] = Release
        /\ reg_run_command = 0 /\ reset_ctl[2] = cmd
    BY <1>6, <2>1, CommandBytes DEF Orders, Coming
  <2>4. CASE cmd = StopReset
    <3>1. Is(c, {"IDLE", "RESET"}) BY <2>3, <2>4 DEF InReset, ResetLeft
    <3>2. Is(d, {"IDLE", "RESET"}) BY <1>1, <2>2, <3>1 DEF Reads, Is
    <3> QED BY <1>2, <1>6, <2>4, <3>2 DEF BoardFollows, Follows, Put, Is
  <2>5. CASE cmd # StopReset
    <3>1. cmd \in {AbortRun, Reset} BY <2>5 DEF AtOnce
    <3>2. ~ResetGiven /\ ~ResetLeft BY <2>3, <2>5 DEF ResetGiven, ResetLeft
    <3>3. ~ResetHeld
      <4>1. StopReset \in Commands BY DEF Commands
      <4> QED BY <2>3, <4>1, CommandBytes DEF ResetHeld
    <3>4. c.state # "RESET" BY <3>2, <3>3 DEF InReset
    <3>5. Is(c, RunBoards) BY <1>1, <2>2, <3>4 DEF Follows, Is, Resets, RunBoards, InRun
    <3>6. Is(d, RunBoards) BY <1>1, <2>2, <3>5 DEF Reads, Is, RunBoards
    <3> QED BY <1>2, <1>6, <3>1, <3>6 DEF BoardFollows, Follows, Put
  <2> QED BY <2>4, <2>5
<1>7. ASSUME Coming(RunPrepare), reset_state = "idle", Put("command", RunPrepare, "rNB0")
      PROVE  BoardFollows(f)'
  <2>1. RunPrepare \in Commands BY DEF Commands
  <2>2. reset_ctl = <<All, RunPrepare>> /\ writes[1] = Release
    BY <1>7, <2>1, CommandBytes DEF Orders, Coming
  <2>3. Release.register # "number" BY DEF Release
  <2>4. Is(c, {"IDLE"}) BY <1>7, <2>2, <2>3 DEF EndedInv, Pending
  <2>5. sends = "comma" BY <1>2, <1>3, <1>4, <1>5, <1>7
  <2>6. Is(d, {"IDLE"}) BY <1>1, <2>4, <2>5 DEF Reads, Is
  <2> QED BY <1>2, <1>7, <2>6 DEF BoardFollows, Follows, Put
<1>8. CASE reset_state = "sync" /\ Put("command", Sync, "start_run")
  BY <1>2, <1>5, <1>8 DEF BoardFollows, Follows, Put
<1>9. CASE reset_state = "start_run" /\ Put("command", StartRun, "end_run")
  BY <1>2, <1>5, <1>9 DEF BoardFollows, Follows, Put
<1>10. CASE reset_state = "end_run" /\ Put("command", EndRun, "idle")
  BY <1>2, <1>5, <1>10 DEF BoardFollows, Follows, Put
<1>11. CASE reset_state = "rNB0" /\ Put("number", reset_run_number[4], "rNB1")
  BY <1>2, <1>5, <1>11 DEF BoardFollows, Follows, Put, NumberLeft
<1>12. CASE reset_state = "rNB1" /\ Put("number", reset_run_number[3], "rNB2")
  BY <1>2, <1>5, <1>12 DEF BoardFollows, Follows, Put, NumberLeft
<1>13. CASE reset_state = "rNB2" /\ Put("number", reset_run_number[2], "rNB3")
  BY <1>2, <1>5, <1>13 DEF BoardFollows, Follows, Put, NumberLeft
<1>14. CASE reset_state = "rNB3" /\ Put("number", reset_run_number[1], "sync")
  BY <1>2, <1>5, <1>14 DEF BoardFollows, Follows, Put, NumberLeft
<1>15. CASE reset_state \notin Numbers /\ Put("comma", Comma, reset_state)
  <2>1. reset_state \in {"idle", "sync", "start_run", "end_run"} BY <1>3, <1>15 DEF LinkStates
  <2> QED BY <1>2, <1>5, <1>15, <2>1 DEF BoardFollows, Follows, Put
<1> QED BY <1>6, <1>7, <1>8, <1>9, <1>10, <1>11, <1>12, <1>13, <1>14, <1>15, Sequences
        DEF LinkClock

LEMMA ResetStep ==
  ASSUME TypeInv, Orders, Registers, ImmediateInv, LinkClock, TakeWrite \/ NoWrite,
         NEW f \in FEB, BoardFollows(f), InReset(board[f])
  PROVE  InReset(board[f])'
<1> DEFINE c == board[f]
           d == board'[f]
<1>1. /\ Reads(c, d, sends, xcvr_tx_data, reset_state, f \in ended)
      /\ Follows(c, sends, xcvr_tx_data, reset_state)
      /\ c.payload_byte_counter \in 0..4
      /\ reg_run_command' = reset_ctl[2]
      /\ sends \in {"comma", "command", "number"}
  BY BoardClock DEF BoardFollows, Controller, LinkClock, TypeInv, RLTypeOK
<1>2. d.payload_byte_counter \in Nat
  BY TypeStep DEF TypeInv, BoardsInv, Controller, RLNext, Tick, TickWithWrite
<1>3. /\ Reset \in Commands /\ StopReset \in Commands /\ RunPrepare \in Commands
      /\ Reset # 0 /\ StopReset # 0 /\ Reset # StopReset
      /\ Reset \in AtOnce /\ StopReset \in AtOnce
  BY DEF Commands, AtOnce, Reset, StopReset
<1>4. sends = "command" => /\ reset_ctl[2] = xcvr_tx_data /\ reg_run_command = xcvr_tx_data
                           /\ xcvr_tx_data # 0
  BY <1>1 DEF Registers, Follows, RunPrepare, Sync, StartRun, EndRun, AbortRun, Reset, StopReset
<1>5. Active(Reset) \/ Active(StopReset) => sends # "number"
  BY <1>3 DEF ImmediateInv
<1>6. Len(writes) \in Nat BY LenProperties DEF TypeInv, RLTypeOK
\* A comma leaves a board in the reset, and counts.
<1>7. ASSUME sends = "comma"
      PROVE  /\ Resetting(c, 2) => Resetting(d, 1) /\ Resetting(d, 2)
             /\ Resetting(c, 1) => Is(d, {"IDLE", "RESET"})
             /\ Is(c, {"IDLE", "RESET"}) => Is(d, {"IDLE", "RESET"})
             /\ d.state = "RESET" => c.state = "RESET"
  <2>1. Resets(c, 2) => Resets(d, 1) BY <1>1, <1>7 DEF Reads
  <2>2. Resets(d, 1) => Resets(d, 2) BY <1>2 DEF Resets
  <2>3. Resets(c, 1) => Resets(d, 0) BY <1>1, <1>7 DEF Reads
  <2>4. Resets(d, 0) => Is(d, {"RESET"})
    <3>1. PayloadFits(d)
      BY TypeStep DEF TypeInv, BoardsInv, BoardInv, RLNext, Tick, TickWithWrite
    <3> QED BY <1>2, <3>1 DEF Resets, PayloadFits, Is
  <2>5. Is(c, {"IDLE"}) => Is(d, {"IDLE"}) BY <1>1, <1>7 DEF Reads, Is
  <2>6. Is(c, {"RESET"}) => Is(d, {"RESET"}) BY <1>1, <1>7 DEF Reads, Is
  <2>7. d.state = "RESET" => c.state = "RESET"
    <3>1. CASE ~c.recieving_payload BY <1>1, <1>7, <3>1 DEF Reads
    <3>2. CASE c.recieving_payload BY <1>1, <1>7, <3>2 DEF Follows, Is, Resets
    <3> QED BY <3>1, <3>2
  <2> HIDE DEF c, d
  <2> QED BY <2>1, <2>2, <2>3, <2>4, <2>5, <2>6, <2>7 DEF Resetting, Is
<1>8. ASSUME ResetGiven' PROVE Resetting(d, 2)
  <2>1. NoWrite /\ Keeps /\ reset_ctl[2] = Reset
    <3>1. ~Takes BY <1>1, <1>3, <1>8, CommandBytes DEF ResetGiven, Takes
    <3> QED BY <1>8, <3>1, WriteFacts DEF Keeps, ResetGiven
  <2>2. sends # "number" BY <1>5, <2>1 DEF Active
  <2>3. CASE sends = "command"
    <3>1. xcvr_tx_data = Reset BY <1>4, <2>1, <2>3
    <3> QED BY <1>1, <2>3, <3>1
        DEF Reads, Resetting, RunPrepare, Sync, StartRun, EndRun, AbortRun, Reset, StopReset
  <2>4. CASE sends = "comma"
    <3>1. reg_run_command # 0
      <4>1. ~Coming(Reset)
        BY <1>3, <1>8, Sequences DEF ResetGiven, LinkClock, Put
      <4> QED BY <2>1, <4>1 DEF Coming
    <3>2. ResetGiven BY <2>1, <2>4, <3>1 DEF ResetGiven
    <3> QED BY <1>7, <2>4, <3>2 DEF InReset
  <2> QED BY <1>1, <2>2, <2>3, <2>4
<1>9. ASSUME ResetHeld' PROVE Resetting(d, 2) /\ (since' > 1 => Resetting(d, 1))
  <2>1. CASE NoWrite /\ Keeps
    <3>1. ResetHeld BY <1>9, <2>1 DEF ResetHeld, Keeps
    <3>2. Active(StopReset)
      <4>1. 1 \in 1..Len(writes) BY <3>1 DEF ResetHeld
      <4> QED BY <3>1, <4>1 DEF ResetHeld, Active, Waits
    <3>3. reset_ctl = <<0, 0>> BY <1>3, <3>1, CommandBytes DEF ResetHeld, Orders
    <3>4. sends = "comma" BY <1>1, <1>4, <1>5, <3>2, <3>3, CommandBytes
    <3> QED BY <1>7, <3>1, <3>4 DEF InReset
  <2>2. CASE Takes
    <3>1. Len(writes) = 3 /\ writes[2] = Ctl(StopReset)
      <4>1. Len(writes') = 2 /\ writes'[1] = Ctl(StopReset) BY <1>9 DEF ResetHeld
      <4>2. Len(writes) = 3
        <5>1. Len(writes') = Len(writes) - 1 BY <2>2 DEF Takes
        <5>2. \A n \in Nat : n - 1 = 2 => n = 3 OBVIOUS
        <5> QED BY <1>6, <4>1, <5>1, <5>2
      <4>3. 1 \in 1..Len(writes') /\ 1 + 1 = 2 BY <4>1
      <4>4. writes'[1] = writes[2] BY <2>2, <4>3 DEF Takes
      <4> QED BY <4>1, <4>2, <4>4
    <3>2. reset_ctl[2] = Reset BY <3>1 DEF Orders
    <3>3. reg_run_command = Reset
      BY <2>2, <3>2 DEF Takes, Registers
    <3>4. sends # "number" BY <1>5, <3>2 DEF Active
    <3>5. since' = 1 BY <2>2 DEF Takes
    <3>6. CASE sends = "command"
      <4>1. xcvr_tx_data = Reset BY <1>4, <3>2, <3>6
      <4>2. Resetting(d, 2)
        BY <1>1, <3>6, <4>1
        DEF Reads, Resetting, RunPrepare, Sync, StartRun, EndRun, AbortRun, Reset, StopReset
      <4> QED BY <3>5, <4>2
    <3>7. CASE sends = "comma"
      <4>1. ResetGiven BY <1>3, <3>2, <3>3, <3>7 DEF ResetGiven
      <4> QED BY <1>7, <3>5, <3>7, <4>1 DEF InReset
    <3> QED BY <1>1, <3>4, <3>6, <3>7
  <2> QED BY <2>1, <2>2, WriteFacts
<1>10. ASSUME ResetLeft' PROVE Is(d, {"IDLE", "RESET"})
  <2>1. CASE NoWrite /\ Keeps
    <3>1. reset_ctl[2] = StopReset BY <1>10, <2>1 DEF ResetLeft, Keeps
    <3>2. sends' = "command" BY <1>1, <1>3, <1>10, <3>1 DEF ResetLeft
    <3>3. reg_run_command = 0
      BY <3>2, Sequences DEF LinkClock, Put, Coming
    <3>4. sends = "comma" BY <1>1, <1>4, <1>5, <3>1, <3>3 DEF Active
    <3>5. ResetLeft BY <3>1, <3>3 DEF ResetLeft
    <3> QED BY <1>7, <3>4, <3>5 DEF InReset
  <2>2. CASE Takes
    <3>1. reset_ctl'[2] = StopReset BY <1>10 DEF ResetLeft
    <3>2. writes[1] = Ctl(StopReset) /\ reset_ctl = <<0, 0>>
      BY <1>3, <2>2, <3>1, CommandBytes DEF Takes
    <3>3. ResetHeld BY <2>2, <3>2 DEF Takes, Orders, ResetHeld
    <3>4. since > 1 BY <2>2 DEF Takes, Registers
    <3>5. Resetting(c, 1) BY <3>3, <3>4 DEF InReset
    <3>6. Active(StopReset)
      <4>1. 1 \in 1..Len(writes) BY <3>3 DEF ResetHeld
      <4> QED BY <3>2, <4>1 DEF Active, Waits
    <3>7. sends = "comma" BY <1>1, <1>4, <1>5, <3>2, <3>6, CommandBytes
    <3> QED BY <1>7, <3>5, <3>7
  <2> QED BY <2>1, <2>2, WriteFacts
<1>11. ASSUME d.state = "RESET" PROVE (ResetGiven \/ ResetHeld \/ ResetLeft)'
  \* while the register holds Reset
  <2>1. ASSUME reset_ctl[2] = Reset, reg_run_command # 0
        PROVE  ResetGiven' \/ ResetHeld'
    <3>1. sends' = "comma" /\ Len(writes) = 3 /\ writes[2] = Ctl(StopReset)
      <4>1. sends # "number" BY <1>5, <2>1 DEF Active
      <4>2. reset_state \notin Numbers BY <1>3, <2>1 DEF ImmediateInv, Active
      <4> QED BY <2>1, <4>2, Sequences, NumberStates DEF LinkClock, Put, Coming, Orders
    <3>2. CASE NoWrite /\ Keeps
      BY <1>1, <1>3, <2>1, <3>1, <3>2 DEF Keeps, ResetGiven
    <3>3. CASE Takes
      <4>1. Len(writes') = 2 BY <3>1, <3>3 DEF Takes
      <4>2. 1 \in 1..Len(writes') /\ 1 + 1 = 2 BY <4>1
      <4>3. writes'[1] = writes[2] BY <3>3, <4>2 DEF Takes
      <4> QED BY <3>1, <4>1, <4>3 DEF ResetHeld
    <3> QED BY <3>2, <3>3, WriteFacts
  <2>2. CASE sends = "command"
    <3>1. xcvr_tx_data = Reset BY <1>1, <1>11, <2>2 DEF Reads, Awaits, Is
    <3> QED BY <1>3, <1>4, <2>1, <2>2, <3>1
  <2>3. CASE sends = "comma"
    <3>1. ResetGiven \/ ResetHeld \/ ResetLeft BY <1>7, <1>11, <2>3 DEF InReset
    <3>2. CASE ResetGiven BY <2>1, <3>2 DEF ResetGiven
    <3>3. CASE ResetHeld
      <4>1. reset_ctl[2] = 0
        BY <1>3, <3>3, CommandBytes DEF ResetHeld, Orders
      <4>2. CASE NoWrite /\ Keeps BY <3>3, <4>2 DEF ResetHeld, Keeps
      <4>3. CASE Takes
        <5>1. reset_ctl'[2] = StopReset
          <6>1. Ctl(StopReset).register # "number" BY DEF Ctl
          <6> QED BY <1>3, <3>3, <4>3, <6>1, CommandBytes DEF Takes, ResetHeld
        <5> QED BY <1>1, <4>1, <5>1 DEF ResetLeft
      <4> QED BY <4>2, <4>3, WriteFacts
    <3>4. CASE ResetLeft
      <4>1. Coming(StopReset) BY <2>3, <3>4 DEF ResetLeft, Coming
      <4>2. Keeps BY <1>3, <4>1, NothingTaken
      <4>3. sends' = "command"
        BY <1>3, <4>1, Sequences, NumberStates DEF LinkClock, Put, ImmediateInv, Active, Coming
      <4> QED BY <3>4, <4>2, <4>3 DEF ResetLeft, Keeps
    <3> QED BY <3>1, <3>2, <3>3, <3>4
  <2>4. CASE sends = "number"
    <3>1. d.state = "PREP" BY <1>1, <2>4 DEF Reads, Is, Awaits
    <3> QED BY <1>11, <3>1
  <2> QED BY <1>1, <2>2, <2>3, <2>4
<1> QED BY <1>8, <1>9, <1>10, <1>11 DEF InReset

LEMMA EndedStep ==
  ASSUME TypeInv, Orders, Registers, LinkClock, TakeWrite \/ NoWrite,
         NEW f \in FEB, BoardFollows(f), EndedInv(f)
  PROVE  EndedInv(f)'
<1> DEFINE c == board[f]
           d == board'[f]
<1>1. /\ Reads(c, d, sends, xcvr_tx_data, reset_state, f \in ended)
      /\ Follows(c, sends, xcvr_tx_data, reset_state)
      /\ sends \in {"comma", "command", "number"}
      /\ midas' = midas
      /\ f \in ended' <=> f \in ended /\ c.o_state # "PREP"
  BY BoardClock DEF BoardFollows, LinkClock, TypeInv, RLTypeOK
<1>2. RunPrepare \in Commands /\ EndRun \in Commands /\ RunPrepare # EndRun
  BY DEF Commands, RunPrepare, EndRun
<1>3. Pending(RunPrepare)' => Waits(RunPrepare)
  BY <1>2, PendingWaits DEF Pending
<1>4. OneBehind(c) BY DEF TypeInv, BoardsInv, BoardInv
<1>5. ASSUME reset_state' = "idle", d.state = "TERMINATING", f \notin ended'
      PROVE  midas' \in {"running", "stopping"} /\ ~Pending(RunPrepare)'
  <2>1. CASE sends = "comma"
    <3>1. c.state = "TERMINATING" /\ f \notin ended
      BY <1>1, <1>5, <2>1 DEF Reads, Follows, Is, Resets
    <3>2. reset_state = "idle" BY <1>1, <2>1, <3>1 DEF Follows, Is, Resets
    <3>3. midas \in {"running", "stopping"} /\ ~Pending(RunPrepare)
      BY <3>1, <3>2 DEF EndedInv
    <3> QED BY <1>1, <1>3, <3>3 DEF Pending
  <2>2. CASE sends = "command"
    <3>1. xcvr_tx_data = EndRun BY <1>1, <1>5, <2>2 DEF Reads, Awaits, Is, Resets
    <3>2. Active(EndRun) BY <2>2, <3>1 DEF Registers, Active
    <3>3. midas = "stopping" /\ ~Active(RunPrepare) BY <1>2, <3>2 DEF Orders
    <3> QED BY <1>1, <1>3, <3>3 DEF Active
  <2>3. CASE sends = "number" BY <1>1, <1>5, <2>3 DEF Reads, Is, Awaits
  <2> QED BY <1>1, <2>1, <2>2, <2>3
<1>6. ASSUME Pending(RunPrepare)', reset_state' = "idle"
      PROVE  Is(d, {"IDLE"})
  <2>1. Waits(RunPrepare) /\ reset_ctl = <<0, 0>> BY <1>3, <1>6 DEF Orders
  <2>2. \A cmd \in Commands : ~Coming(cmd) BY <2>1, CommandBytes DEF Coming
  <2>3. reset_state = "idle"
    BY <1>6, <2>2, Sequences DEF LinkClock, Put, AtOnce, Commands
  <2>4. sends # "number" BY <1>1, <2>3 DEF Follows
  <2>5. sends # "command"
    <3>1. sends = "command" => xcvr_tx_data \in Commands
      BY <1>1 DEF Follows, Commands
    <3> QED BY <2>1, <3>1, CommandBytes DEF Registers
  <2>6. Is(c, {"IDLE"}) \/ (Is(c, {"TERMINATING"}) /\ f \in ended)
    BY <2>1, <2>3 DEF EndedInv, Pending
  <2> QED BY <1>1, <2>4, <2>5, <2>6 DEF Reads, Is
<1> QED BY <1>5, <1>6 DEF EndedInv

LEMMA PrepareStays ==
  ASSUME TypeInv, midas = "prepared", Under(PrepareCall), LinkClock, TakeWrite \/ NoWrite
  PROVE  Under(PrepareCall)'
<1>1. run' = run /\ run > 0 /\ run \in 1..MaxRuns
  BY A10Assumption DEF LinkClock, TypeInv, RLTypeOK
<1>2. CASE NoWrite BY <1>1, <1>2 DEF NoWrite, Under, PrepareCall
<1>3. CASE TakeWrite
  <2>1. PICK q : q = PrepareCall OBVIOUS
  <2>2. q \in Seq(Write) BY <1>1, <2>1, CallTypes
  <2>3. \A i \in 2..Len(q) : q[i].register = "ctl"
    BY <2>1 DEF PrepareCall, Ctl, Release
  <2>4. Under(q) BY <2>1
  <2>5. Under(q)' BY <1>3, <2>2, <2>3, <2>4, TakeUnder
  <2>6. PrepareCall' = q BY <1>1, <2>1 DEF PrepareCall
  <2> QED BY <2>5, <2>6
<1> QED BY <1>2, <1>3

\* A clock keeps the call that is under way.
LEMMA InFlightClock ==
  ASSUME TypeInv, InFlight, LinkClock, TakeWrite \/ NoWrite
  PROVE  InFlight'
<1>1. midas' = midas /\ run' = run /\ run \in 0..MaxRuns /\ MaxRuns \in Nat
      /\ (run \in 1..MaxRuns \/ run = 0)
  BY A10Assumption DEF LinkClock, TypeInv, RLTypeOK
<1>2. CASE NoWrite BY <1>1, <1>2 DEF NoWrite, InFlight, Under, PrepareCall
<1>3. CASE TakeWrite
  <2>1. ASSUME Under(InitCall) PROVE Under(InitCall)'
    <3>1. InitCall \in Seq(Write) BY <1>1, CallTypes
    <3>2. \A i \in 2..Len(InitCall) : InitCall[i].register = "ctl"
      BY DEF InitCall, Ctl, Release
    <3> QED BY <1>3, <2>1, <3>1, <3>2, TakeUnder
  <2>2. ASSUME Under(AbortCall) PROVE Under(AbortCall)'
    <3>1. AbortCall \in Seq(Write) BY <1>1, CallTypes
    <3>2. \A i \in 2..Len(AbortCall) : AbortCall[i].register = "ctl"
      BY DEF AbortCall, Ctl, Release
    <3> QED BY <1>3, <2>2, <3>1, <3>2, TakeUnder
  <2>3. ASSUME midas = "prepared", Under(PrepareCall) PROVE Under(PrepareCall)'
    BY <1>3, <2>3, PrepareStays
  <2>4. ASSUME Under(BeginCall) PROVE Under(BeginCall)'
    <3>1. BeginCall \in Seq(Write) BY <1>1, CallTypes
    <3>2. \A i \in 2..Len(BeginCall) : BeginCall[i].register = "ctl"
      BY DEF BeginCall, Ctl, Release
    <3> QED BY <1>3, <2>4, <3>1, <3>2, TakeUnder
  <2>5. ASSUME Under(EndCall) PROVE Under(EndCall)'
    <3>1. EndCall \in Seq(Write) BY <1>1, CallTypes
    <3>2. \A i \in 2..Len(EndCall) : EndCall[i].register = "ctl"
      BY DEF EndCall, Ctl, Release
    <3> QED BY <1>3, <2>5, <3>1, <3>2, TakeUnder
  <2> QED BY <1>1, <2>1, <2>2, <2>3, <2>4, <2>5 DEF InFlight
<1> QED BY <1>2, <1>3

LEMMA LinkClockStep ==
  ASSUME LinkInv, LinkClock, TakeWrite \/ NoWrite
  PROVE  LinkInv'
<1>1. TypeInv /\ InFlight /\ Registers /\ ImmediateInv /\ Orders
  BY OrdersFollow DEF LinkInv
<1>2. TypeInv'
  BY <1>1, TypeStep DEF RLNext, Tick, TickWithWrite
<1>3. InFlight' BY <1>1, InFlightClock
<1>4. Registers' BY <1>1, RegistersStep
<1>5. ImmediateInv' BY <1>1, ImmediateStep
<1>6. ASSUME NEW f \in FEB PROVE (BoardFollows(f) /\ InReset(board[f]) /\ EndedInv(f))'
  <2>1. BoardFollows(f) /\ InReset(board[f]) /\ EndedInv(f) BY DEF LinkInv
  <2>2. BoardFollows(f)' BY <1>1, <2>1, FollowsStep
  <2>3. InReset(board[f])' BY <1>1, <2>1, ResetStep
  <2>4. EndedInv(f)' BY <1>1, <2>1, EndedStep
  <2> QED BY <2>2, <2>3, <2>4
<1> QED BY <1>2, <1>3, <1>4, <1>5, <1>6 DEF LinkInv
-----------------------------------------------------------------------------
(***************************************************************************)
(* The calls.                                                              *)
(***************************************************************************)
LEMMA CallStep ==
  ASSUME LinkInv, Settled, TypeInv', InFlight',
         UNCHANGED <<board, since, spacing, reset_ctl, link_vars, ended>>,
         ~ResetHeld',
         Waits(RunPrepare)' => /\ midas \notin {"running", "stopping"}
                               /\ Len(writes') > 0 /\ writes'[1].register = "number",
         midas' \in {"running", "stopping"} \/ midas \notin {"running", "stopping"} \/ ended = FEB
  PROVE  LinkInv'
<1>1. /\ TypeInv /\ InFlight /\ Registers /\ ImmediateInv /\ Orders
      /\ \A f \in FEB : BoardFollows(f) /\ InReset(board[f]) /\ EndedInv(f)
  BY OrdersFollow DEF LinkInv
<1>2. /\ reset_ctl[2] = 0 /\ reg_run_command = 0 /\ sends = "comma" /\ Len(writes) = 0
      /\ reset_state \notin Numbers
  BY DEF Settled
<1>3. UNCHANGED <<reg_run_command, cur_output, xcvr_tx_data, sends, reset_state>>
  BY DEF link_vars
<1>4. Registers' BY <1>1, <1>3 DEF Registers
<1>5. ImmediateInv' BY <1>2, <1>3 DEF ImmediateInv
<1>6. Reset # 0 /\ StopReset # 0 /\ RunPrepare # 0 BY DEF Reset, StopReset, RunPrepare
<1>7. ~ResetGiven /\ ~ResetHeld /\ ~ResetLeft /\ ~ResetGiven' /\ ~ResetHeld' /\ ~ResetLeft'
  BY <1>2, <1>3, <1>6 DEF ResetGiven, ResetHeld, ResetLeft
<1>8. ASSUME NEW f \in FEB PROVE (BoardFollows(f) /\ InReset(board[f]) /\ EndedInv(f))'
  <2>1. BoardFollows(f)' BY <1>1, <1>3 DEF BoardFollows
  <2>2. board[f].state # "RESET" /\ InReset(board[f])' BY <1>1, <1>7 DEF InReset
  <2>3. Pending(RunPrepare)' <=> Waits(RunPrepare)' BY <1>2, <1>6 DEF Pending, Coming
  <2>4. ASSUME reset_state = "idle", board[f].state = "TERMINATING", f \notin ended
        PROVE  midas \in {"running", "stopping"} BY <1>1, <2>4 DEF EndedInv
  <2>5. ASSUME reset_state = "idle"
        PROVE  Is(board[f], {"IDLE"}) \/ Is(board[f], {"TERMINATING"})
    BY <1>1, <1>2, <2>2, <2>5 DEF BoardFollows, Follows, Is, Resets
  <2>6. EndedInv(f)' BY <1>3, <2>3, <2>4, <2>5 DEF EndedInv, Is
  <2> QED BY <2>1, <2>2, <2>6
<1> QED BY <1>4, <1>5, <1>8 DEF LinkInv

\* What the new writes of a call mean.
LEMMA CallFacts ==
  ASSUME NEW q, NEW S, q \in Seq(S), writes' = q, reset_ctl' = <<0, 0>>
  PROVE  /\ q \in {EndCall, AbortCall, InitCall, <<>>} => ~Waits(RunPrepare)'
         /\ ~(Len(q) = 2 /\ q[1] = Ctl(StopReset)) => ~ResetHeld'
<1>1. q \in {EndCall, AbortCall, InitCall, <<>>} => ~Waits(RunPrepare)'
    <2>1. ASSUME NEW n \in {EndRun, AbortRun, Reset, StopReset, 0}, NEW v
          PROVE  [register |-> "ctl", value |-> <<v, n>>] # Ctl(RunPrepare)
      BY <2>1 DEF Ctl, RunPrepare, EndRun, AbortRun, Reset, StopReset
    <2>2. \A n \in {EndRun, AbortRun, Reset, StopReset} : Ctl(n) # Ctl(RunPrepare)
      BY <2>1 DEF Ctl
    <2>3. Release # Ctl(RunPrepare) BY <2>1 DEF Release
    <2>4. ASSUME q = EndCall PROVE ~Waits(RunPrepare)' BY <2>2, <2>3, <2>4 DEF Waits, EndCall
    <2>5. ASSUME q = AbortCall PROVE ~Waits(RunPrepare)' BY <2>2, <2>3, <2>5 DEF Waits, AbortCall
    <2>6. ASSUME q = InitCall PROVE ~Waits(RunPrepare)' BY <2>2, <2>3, <2>6 DEF Waits, InitCall
    <2>7. ASSUME q = <<>> PROVE ~Waits(RunPrepare)' BY <2>7 DEF Waits
    <2> QED BY <2>4, <2>5, <2>6, <2>7
<1> QED BY <1>1 DEF ResetHeld

LEMMA NoHeld ==
  /\ \A q \in {EndCall, AbortCall, InitCall, BeginCall, <<>>} :
       ~(Len(q) = 2 /\ q[1] = Ctl(StopReset))
  /\ ~(Len(PrepareCall) = 2)
  /\ Len(BeginCall) > 0 /\ BeginCall[1].register = "number"
  /\ Len(PrepareCall) > 0 /\ PrepareCall[1].register = "number"
<1>1. Len(PrepareCall) = 3 /\ Len(BeginCall) = 7 /\ Len(InitCall) = 4 /\ Len(<<>>) = 0
      /\ EndCall[1] = Ctl(EndRun) /\ AbortCall[1] = Ctl(AbortRun)
  BY DEF PrepareCall, BeginCall, InitCall, EndCall, AbortCall
<1>2. Ctl(EndRun) # Ctl(StopReset) /\ Ctl(AbortRun) # Ctl(StopReset)
  BY CommandBytes DEF Commands, EndRun, AbortRun, StopReset
<1>3. BeginCall[1].register = "number" /\ PrepareCall[1].register = "number"
  BY DEF BeginCall, PrepareCall, Number
<1> QED BY <1>1, <1>2, <1>3

LEMMA LinkStep ==
  ASSUME LinkInv, [RLNext]_vars
  PROVE  LinkInv'
<1>1. /\ TypeInv /\ InFlight /\ Orders /\ TypeInv'
      /\ \A f \in FEB : EndedInv(f)
      /\ run \in 0..MaxRuns /\ MaxRuns \in Nat /\ (run \in 1..MaxRuns \/ run = 0)
  BY OrdersFollow, TypeStep, A10Assumption DEF LinkInv, TypeInv, RLTypeOK
<1>2. CASE Tick \/ TickWithWrite
  BY <1>2, LinkClockStep DEF Tick, TickWithWrite
<1>3. Settled => reset_ctl = <<0, 0>>
  <2>1. Settled => Len(writes) = 0 BY DEF Settled
  <2> QED BY <1>1, <2>1 DEF Orders
<1>4. CASE StartTransition \/ StopConfirmed \/ StopCancelled
  <2>1. \/ Call("stopped", "starting", <<>>)
        \/ Call("stopping", "stopped", <<>>) /\ ended = FEB
        \/ Call("stopping", "running", <<>>)
    BY <1>4 DEF StartTransition, StopConfirmed, StopCancelled
  <2>2. /\ Settled /\ writes' = <<>> /\ reset_ctl' = <<0, 0>>
        /\ UNCHANGED <<board, since, spacing, reset_ctl, link_vars, ended>>
        /\ midas' \in {"running", "stopping"} \/ midas \notin {"running", "stopping"} \/ ended = FEB
    BY <1>3, <2>1 DEF Call
  <2>3. Under(AbortCall)'
    <3>1. Len(AbortCall) = 2 /\ AbortCall[2] = Release BY DEF AbortCall
    <3>2. After(AbortCall, 2) = <<0, 0>> BY <3>1 DEF After, Release
    <3> QED BY <2>2, <3>1, <3>2 DEF Under
  <2>4. InFlight' BY <2>3 DEF InFlight
  <2>5. ~ResetHeld' /\ ~Waits(RunPrepare)'
    <3>1. <<>> \in Seq(Write) OBVIOUS
    <3> QED BY <2>2, <3>1, CallFacts, NoHeld
  <2> QED BY <1>1, <2>2, <2>4, <2>5, CallStep
<1>5. CASE PrepareRunOnRequest
  <2>1. PICK q : q = PrepareCall OBVIOUS
  <2>2. /\ Call("starting", "prepared", q) /\ run' = run
    BY <1>5, <2>1, CallsAre DEF PrepareRunOnRequest
  <2>3. /\ Settled /\ writes' = q /\ reset_ctl' = <<0, 0>> /\ midas' = "prepared"
        /\ midas = "starting"
        /\ UNCHANGED <<board, since, spacing, reset_ctl, link_vars, ended>>
    BY <1>3, <2>2 DEF Call
  <2>4. q \in Seq(Write) BY <1>1, <2>1, <2>3, CallTypes DEF TypeInv
  <2>5. Under(q)' /\ PrepareCall' = q
    BY <2>1, <2>2, <2>3, <2>4, StartUnder DEF PrepareCall
  <2>6. InFlight' BY <2>3, <2>5 DEF InFlight
  <2>7. ~ResetHeld' /\ Len(q) > 0 /\ q[1].register = "number"
    BY <2>1, <2>3, <2>4, CallFacts, NoHeld
  <2> QED BY <1>1, <2>3, <2>6, <2>7, CallStep
<1>6. CASE BeginOfRun \/ BeginUnprepared
  <2>1. Call("prepared", "running", BeginCall) \/ BeginUnprepared
    BY <1>6, CallsAre DEF BeginOfRun
  <2>2. /\ Settled /\ writes' = BeginCall /\ reset_ctl' = <<0, 0>> /\ midas' = "running"
        /\ midas \in {"starting", "prepared"}
        /\ UNCHANGED <<board, since, spacing, reset_ctl, link_vars, ended>>
    BY <1>3, <2>1, CallsAre DEF Call, BeginUnprepared
  <2>3. BeginCall \in Seq(Write) BY <1>1, CallTypes
  <2>4. Under(BeginCall)' BY <2>2, <2>3, StartUnder
  <2>5. InFlight' BY <2>2, <2>4 DEF InFlight
  <2>6. ~ResetHeld' /\ Len(BeginCall) > 0 /\ BeginCall[1].register = "number"
    BY <2>2, <2>3, CallFacts, NoHeld
  <2> QED BY <1>1, <2>2, <2>5, <2>6, CallStep
<1>7. CASE EndOfRun
  <2>1. Call("running", "stopping", EndCall)
    BY <1>7, CallsAre DEF EndOfRun
  <2>2. /\ Settled /\ writes' = EndCall /\ reset_ctl' = <<0, 0>> /\ midas' = "stopping"
        /\ UNCHANGED <<board, since, spacing, reset_ctl, link_vars, ended>>
    BY <1>3, <2>1 DEF Call
  <2>3. EndCall \in Seq(Write) BY <1>1, CallTypes
  <2>4. Under(EndCall)' BY <2>2, <2>3, StartUnder
  <2>5. InFlight' BY <2>2, <2>4 DEF InFlight
  <2>6. ~ResetHeld' /\ ~Waits(RunPrepare)'
    BY <2>2, <2>3, CallFacts, NoHeld
  <2> QED BY <1>1, <2>2, <2>5, <2>6, CallStep
<1>8. CASE Disturb
  <2>1. PICK q \in {AbortCall, InitCall} : writes' = q
    BY <1>8, CallsAre DEF Disturb
  <2>2. /\ Settled /\ reset_ctl' = <<0, 0>> /\ midas' = midas
        /\ UNCHANGED <<board, since, spacing, reset_ctl, link_vars, ended>>
    BY <1>3, <1>8 DEF Disturb
  <2>3. q \in Seq(Write) BY <1>1, <2>1, CallTypes
  <2>4. Under(q)' BY <2>1, <2>2, <2>3, StartUnder
  <2>5. InFlight' BY <2>1, <2>4 DEF InFlight
  <2>6. ~ResetHeld' /\ ~Waits(RunPrepare)'
    BY <2>1, <2>2, <2>3, CallFacts, NoHeld
  <2> QED BY <1>1, <2>2, <2>5, <2>6, CallStep
<1>9. CASE \E f \in FEB : Terminate(f)
  <2>1. /\ UNCHANGED <<board, writes, since, reset_run_number, reset_ctl, spacing,
                       reg_run_command, cur_output, xcvr_tx_data, sends, reset_state, midas, run>>
        /\ ended \subseteq ended'
    BY <1>9 DEF Terminate, register_vars, link_vars
  <2>2. InFlight' BY <1>1, <2>1 DEF InFlight, Under, PrepareCall
  <2>3. Registers' /\ ImmediateInv' /\ \A f \in FEB : (BoardFollows(f) /\ InReset(board[f]))'
    BY <2>1 DEF LinkInv, Registers, ImmediateInv, Active, Waits, BoardFollows, InReset,
                ResetGiven, ResetHeld, ResetLeft
  <2>4. \A f \in FEB : EndedInv(f)'
    BY <1>1, <2>1 DEF EndedInv, Pending, Coming, Waits
  <2> QED BY <1>1, <2>2, <2>3, <2>4 DEF LinkInv
<1>10. CASE UNCHANGED vars
  <2>1. /\ UNCHANGED <<board, writes, since, reset_run_number, reset_ctl, spacing,
                       reg_run_command, cur_output, xcvr_tx_data, sends, reset_state, midas, run>>
        /\ UNCHANGED ended
    BY <1>10 DEF vars, register_vars, link_vars
  <2>2. InFlight' BY <1>1, <2>1 DEF InFlight, Under, PrepareCall
  <2>3. Registers' /\ ImmediateInv' /\ \A f \in FEB : (BoardFollows(f) /\ InReset(board[f]))'
    BY <2>1 DEF LinkInv, Registers, ImmediateInv, Active, Waits, BoardFollows, InReset,
                ResetGiven, ResetHeld, ResetLeft
  <2>4. \A f \in FEB : EndedInv(f)'
    BY <1>1, <2>1 DEF EndedInv, Pending, Coming, Waits
  <2> QED BY <1>1, <2>2, <2>3, <2>4 DEF LinkInv
<1> QED BY <1>2, <1>4, <1>5, <1>6, <1>7, <1>8, <1>9, <1>10 DEF RLNext

\* Two writes never arrive in neighbouring clocks.
WritesApart == \A n \in Spacings : n > 1

LEMMA LinkInit ==
  ASSUME RLInit, WritesApart
  PROVE  LinkInv
<1>1. TypeInv BY TypeInit
<1>2. /\ writes = InitCall /\ reset_ctl = <<0, 0>> /\ spacing > 1 /\ since = spacing
      /\ reg_run_command = 0 /\ sends = "comma" /\ reset_state = "idle" /\ xcvr_tx_data = Comma
      /\ spacing \in Nat /\ midas = "stopped"
  BY CallsAre, A10Assumption DEF RLInit, WritesApart
<1>3. InitCall[1] = Ctl(Reset) /\ Len(InitCall) = 4
  BY DEF InitCall
<1>4. Under(InitCall) BY <1>2, <1>3 DEF Under, After
<1>5. InFlight BY <1>4 DEF InFlight
<1>6. Registers BY <1>2 DEF Registers
<1>7. ImmediateInv BY <1>2, NumberStates DEF ImmediateInv
<1>8. ~Pending(RunPrepare)
  BY <1>2 DEF Pending, Coming, Waits, InitCall, Ctl, Release, RunPrepare, Reset, StopReset, All
<1>9. ASSUME NEW f \in FEB PROVE BoardFollows(f) /\ InReset(board[f]) /\ EndedInv(f)
  <2>1. board[f] = PowerUp BY DEF RLInit, Init
  <2>2. Is(board[f], {"IDLE"}) /\ Listens(board[f])
    BY <2>1 DEF PowerUp, Is, Listens
  <2>3. ~ResetGiven /\ ~ResetHeld /\ ~ResetLeft
    BY <1>2, <1>3 DEF ResetGiven, ResetHeld, ResetLeft, Reset, StopReset
  <2> QED BY <1>2, <1>8, <2>2, <2>3 DEF BoardFollows, Follows, InReset, EndedInv, Is
<1> QED BY <1>1, <1>5, <1>6, <1>7, <1>9 DEF LinkInv

LEMMA Obeyed ==
  ASSUME LinkInv
  PROVE  CommandsObeyed
<1> SUFFICES ASSUME NEW f \in FEB
             PROVE  /\ sends = "command" /\ xcvr_tx_data \in {RunPrepare, Sync, StartRun, EndRun} =>
                         /\ ~board[f].recieving_payload
                         /\ Accepted(board[f].state, xcvr_tx_data, FALSE)
                    /\ sends = "number" => board[f].recieving_payload
  BY DEF CommandsObeyed
<1> DEFINE c == board[f]
<1>1. Follows(c, sends, xcvr_tx_data, reset_state) BY DEF LinkInv, BoardFollows
<1>2. ASSUME sends = "command", xcvr_tx_data \in {RunPrepare, Sync, StartRun, EndRun}
      PROVE  ~c.recieving_payload /\ Accepted(c.state, xcvr_tx_data, FALSE)
  <2>1. \/ xcvr_tx_data = RunPrepare /\ Is(c, {"IDLE"})
        \/ xcvr_tx_data = Sync /\ Is(c, {"PREP"})
        \/ xcvr_tx_data = StartRun /\ Is(c, {"SYNC"})
        \/ xcvr_tx_data = EndRun /\ Is(c, {"RUNNING"})
    BY <1>1, <1>2 DEF Follows, RunPrepare, Sync, StartRun, EndRun, AbortRun, Reset, StopReset
  <2>2. /\ <<"IDLE", RunPrepare, "PREP">> \in Goto /\ <<"PREP", Sync, "SYNC">> \in Goto
        /\ <<"SYNC", StartRun, "RUNNING">> \in Goto
        /\ <<"RUNNING", EndRun, "TERMINATING">> \in Goto
    BY DEF Goto, CommonGoto
  <2> QED BY <2>1, <2>2 DEF Is, Accepted, RunState
<1>3. sends = "number" => c.recieving_payload BY <1>1 DEF Follows, Awaits
<1> QED BY <1>2, <1>3

\* If the writes of a call are two clocks apart or more, the boards obey
\* every command of a run that the sequencer lets through, and await its
\* number bytes.  (At a distance of one clock a board may take the end of
\* the reset for a payload byte of the reset.)
THEOREM BoardsKeepStep == ASSUME WritesApart PROVE RLSpec => []CommandsObeyed
<1>1. RLInit => LinkInv BY LinkInit
<1>2. LinkInv /\ [RLNext]_vars => LinkInv' BY LinkStep
<1>3. LinkInv => CommandsObeyed BY Obeyed
<1> QED BY <1>1, <1>2, <1>3, PTL DEF RLSpec
-----------------------------------------------------------------------------
(***************************************************************************)
(* The run number.                                                         *)
(***************************************************************************)
\* What a board shows, and its run number register, after a byte b.
Shows(c, d, what, next, b) ==
  /\ what = "number" =>
       /\ d.o_state = c.o_state
       /\ \A i \in 1..4 : d.payload["PREP"][i] =
            IF i = NumberLeft(next) THEN b ELSE c.payload["PREP"][i]
  /\ what = "command" => d.o_state = c.state /\ d.payload = c.payload
  /\ what = "comma" => /\ d.o_state = IF c.recieving_payload THEN c.o_state ELSE c.state
                       /\ d.payload["PREP"] = c.payload["PREP"]
                       /\ d.state = "PREP" => c.state = "PREP"

LEMMA BoardShows ==
  ASSUME NEW c \in Controller, PayloadFits(c), NEW addr, NEW term \in BOOLEAN,
         NEW what \in {"comma", "command", "number"}, NEW byte \in Byte, NEW next,
         Follows(c, what, byte, next),
         NEW b \in Byte, b = byte \/ what = "number",
         NEW d, d = Clocked(c, addr, b, term)
  PROVE  Shows(c, d, what, next, b)
<1>1. Listens(c) /\ Comma \in Byte BY Bytes DEF Follows
<1>2. CASE what = "number"
  <2>1. Awaits(c, NumberLeft(next)) /\ next \in {"rNB1", "rNB2", "rNB3", "sync"}
    BY <1>2 DEF Follows
  <2>2. c.recieving_payload /\ NumberLeft(next) \in 1..4 BY <2>1 DEF Awaits, NumberLeft
  <2>3. /\ d.o_state = c.o_state
        /\ \A n \in 1..4 : Awaits(c, n) =>
             \A i \in 1..4 : d.payload["PREP"][i] = IF i = n THEN b ELSE c.payload["PREP"][i]
    BY <1>1, <2>2, ReadPayload
  <2> QED BY <1>2, <2>1, <2>2, <2>3 DEF Shows
<1>3. CASE what = "command"
  <2>1. byte \in RunBytesOnly /\ b = byte
    BY <1>3 DEF Follows, RunBytesOnly
  <2>2. Is(c, {"IDLE"} \cup InRun \cup {"RESET"}) =>
          Listens(d) /\ d.o_state = c.state /\ d.payload = c.payload
    BY <1>1, <2>1, ReadCommand
  <2>3. Is(c, {"IDLE"} \cup InRun \cup {"RESET"})
    BY <1>3 DEF Follows, Is, RunBoards, InRun
  <2> QED BY <1>3, <2>2, <2>3 DEF Shows
<1>4. CASE what = "comma"
  <2>1. byte = Comma /\ b = Comma BY <1>4 DEF Follows
  <2>2. CASE ~c.recieving_payload
    <3>1. Is(c, {"IDLE", "RESET"} \cup InRun)
      BY <1>4, <2>2 DEF Follows, Is, Resets, InRun
    <3>2. /\ d.state = IF c.state = "TERMINATING" /\ term THEN "IDLE" ELSE c.state
          /\ d.o_state = c.state /\ d.payload = c.payload
      BY <1>1, <2>1, <3>1, ReadComma
    <3> QED BY <1>4, <2>2, <3>2 DEF Shows
  <2>3. CASE c.recieving_payload
    <3>1. Resets(c, 2) BY <1>4, <2>3 DEF Follows, Is
    <3>2. /\ d.o_state = c.o_state /\ d.state = c.state
          /\ \A n \in 1..4 : Resets(c, n) => d.payload["PREP"] = c.payload["PREP"]
      BY <1>1, <2>3, ReadPayload
    <3> QED BY <1>4, <2>3, <3>1, <3>2 DEF Shows
  <2> QED BY <2>2, <2>3
<1> QED BY <1>2, <1>3, <1>4

LEMMA BoardHears ==
  ASSUME TypeInv, Orders, Registers, LinkClock, NEW f \in FEB, BoardFollows(f)
  PROVE  Shows(board[f], board'[f], sends, reset_state, Heard(f))
<1> DEFINE b == Heard(f)
           t == f \in ended
<1>1. /\ board[f] \in Controller /\ PayloadFits(board[f])
      /\ xcvr_tx_data \in Byte /\ sends \in {"comma", "command", "number"}
      /\ board'[f] = Clocked(board[f], Addr[f], b, t)
      /\ b \in Byte /\ t \in BOOLEAN
      /\ b = xcvr_tx_data \/ sends = "number"
  BY HeardByte
<1> HIDE DEF b, t
<1>2. Shows(board[f], board'[f], sends, reset_state, b)
  BY <1>1, BoardShows DEF BoardFollows
<1> QED BY <1>2 DEF b

\* The writes of the first call of a run.
LEMMA PrepareUnder ==
  ASSUME TypeInv, Under(PrepareCall)
  PROVE  /\ Len(writes) \in 0..3
         /\ \A cmd \in Commands : Active(cmd) => cmd = RunPrepare
         /\ Len(writes) = 3 => writes[1] = Number(RunBytes[run])
         /\ Len(writes) \in 1..2 => writes[1].register = "ctl"
         /\ Waits(RunPrepare) <=> Len(writes) > 1
         /\ Len(writes) = 2 => writes[1] = Ctl(RunPrepare)
<1> DEFINE k == Len(writes)
<1>1. k \in Nat BY LenProperties DEF TypeInv, RLTypeOK
<1>2. /\ Len(PrepareCall) = 3 /\ PrepareCall[1] = Number(RunBytes[run])
      /\ PrepareCall[2] = Ctl(RunPrepare) /\ PrepareCall[3] = Release
  BY DEF PrepareCall
<1>3. k <= 3 /\ (\A i \in 1..k : writes[i] = PrepareCall[i + (3 - k)])
      /\ reset_ctl = After(PrepareCall, 3 - k)
  BY <1>2 DEF Under
<1>4. k \in 0..3
  <2>1. \A n \in Nat : n <= 3 => n \in 0..3 OBVIOUS
  <2> QED BY <1>1, <1>3, <2>1
<1>5. /\ Number(RunBytes[run]).register = "number" /\ Ctl(RunPrepare).register = "ctl"
      /\ Release.register = "ctl" /\ Ctl(RunPrepare).value = <<All, RunPrepare>>
      /\ Release.value = <<0, 0>> /\ RunPrepare \in Commands
  BY DEF Number, Ctl, Release, Commands
<1> HIDE DEF k
<1>6. CASE k = 3
  <2>1. writes[1] = PrepareCall[1] /\ writes[2] = PrepareCall[2] /\ writes[3] = PrepareCall[3]
    BY <1>3, <1>6
  <2>2. reset_ctl = <<0, 0>> BY <1>3, <1>6 DEF After
  <2>3. \A cmd \in Commands : Active(cmd) => cmd = RunPrepare
    BY <1>2, <1>5, <1>6, <2>1, <2>2, CommandBytes DEF Active, Waits, k
  <2>4. Waits(RunPrepare) BY <1>2, <1>6, <2>1 DEF Waits, k
  <2> QED BY <1>2, <1>4, <1>6, <2>1, <2>3, <2>4 DEF k
<1>7. CASE k = 2
  <2>1. writes[1] = PrepareCall[2] /\ writes[2] = PrepareCall[3]
    BY <1>3, <1>7
  <2>2. reset_ctl = <<0, 0>> BY <1>2, <1>3, <1>5, <1>7 DEF After
  <2>3. \A cmd \in Commands : Active(cmd) => cmd = RunPrepare
    BY <1>2, <1>5, <1>7, <2>1, <2>2, CommandBytes DEF Active, Waits, k
  <2>4. Waits(RunPrepare) BY <1>2, <1>7, <2>1 DEF Waits, k
  <2> QED BY <1>2, <1>4, <1>5, <1>7, <2>1, <2>3, <2>4 DEF k
<1>8. CASE k = 1
  <2>1. writes[1] = PrepareCall[3]
    BY <1>3, <1>8
  <2>2. reset_ctl = <<All, RunPrepare>> BY <1>2, <1>3, <1>5, <1>8 DEF After
  <2>3. \A cmd \in Commands : Active(cmd) => cmd = RunPrepare
    BY <1>2, <1>5, <1>8, <2>1, <2>2, CommandBytes DEF Active, Waits, k
  <2>4. ~Waits(RunPrepare) BY <1>2, <1>5, <1>8, <2>1, CommandBytes DEF Waits, k
  <2> QED BY <1>2, <1>4, <1>5, <1>8, <2>1, <2>3, <2>4 DEF k
<1>9. CASE k = 0
  <2>2. reset_ctl = <<0, 0>> BY <1>2, <1>3, <1>5, <1>9 DEF After
  <2>3. \A cmd \in Commands : Active(cmd) => cmd = RunPrepare
    BY <1>9, <2>2, CommandBytes DEF Active, Waits, k
  <2>4. ~Waits(RunPrepare) BY <1>9 DEF Waits, k
  <2> QED BY <1>4, <1>9, <2>3, <2>4 DEF k
<1> QED BY <1>4, <1>6, <1>7, <1>8, <1>9 DEF k
-----------------------------------------------------------------------------
(***************************************************************************)
(* The sequencer in an undisturbed run: only the first of the two          *)
(* RunPrepare commands of a run makes it send a number, the one in the     *)
(* register.                                                               *)
(***************************************************************************)
NumberSince(next) == IF next = "rNB0" THEN 2 ELSE IF next = "rNB1" THEN 3
                     ELSE IF next = "rNB2" THEN 4 ELSE 5

\* The next write leaves all outputs selected for as many bytes as it is
\* clocks apart: reset_state is where the number has got to.
AllSelected ==
  /\ cur_output = 4 => sends = "comma"
  /\ reset_state \in Numbers /\ NumberSince(reset_state) <= spacing =>
       reset_ctl = <<All, RunPrepare>> /\ since = NumberSince(reset_state)
  /\ sends = "number" /\ 5 - NumberLeft(reset_state) < spacing => cur_output = All

NumberInv == disturbed = 0 =>
  /\ midas = "prepared" =>
       /\ Under(PrepareCall)
       /\ Len(writes) < 3 => reset_run_number = RunBytes[run]
       /\ sends = "number" => xcvr_tx_data = RunBytes[run][NumberLeft(reset_state)]
       /\ Pending(RunPrepare) => reset_state = "idle"
       /\ ~Pending(RunPrepare) => reset_state \in Numbers \cup {"sync"}
  /\ midas # "prepared" => reset_state \notin Numbers /\ sends # "number"
  /\ midas = "running" /\ Pending(RunPrepare) => reset_state = "sync"
  /\ midas \in {"stopped", "starting"} => reset_state = "idle"

LEMMA AllSelectedStep ==
  ASSUME LinkInv, AllSelected, LinkClock, TakeWrite \/ NoWrite
  PROVE  AllSelected'
<1>1. /\ TypeInv /\ Orders /\ Registers
      /\ reset_ctl \in {0, All} \X Byte /\ cur_output' = reset_ctl[1]
      /\ since \in Nat /\ spacing \in Nat /\ spacing' = spacing
      /\ RunPrepare \in Commands
  BY OrdersFollow, A10Assumption DEF LinkInv, TypeInv, RLTypeOK, LinkClock, Commands
<1>2. cur_output' # 4 BY <1>1 DEF All
<1>3. ASSUME reset_state' \in Numbers, NumberSince(reset_state') <= spacing
      PROVE  reset_ctl' = <<All, RunPrepare>> /\ since' = NumberSince(reset_state')
  <2>1. CASE Coming(RunPrepare) /\ reset_state' = "rNB0"
    <3>1. NoWrite /\ Keeps /\ since = 1 BY <1>1, <2>1, NothingTaken
    <3>2. reset_ctl = <<All, RunPrepare>>
      BY <1>1, <2>1, CommandBytes DEF Orders, Coming
    <3>3. since' = 2 BY <1>1, <1>3, <2>1, <3>1 DEF NoWrite, NumberSince
    <3> QED BY <2>1, <3>1, <3>2, <3>3 DEF Keeps, NumberSince
  <2>2. CASE /\ reset_state \in Numbers
             /\ \/ reset_state = "rNB0" /\ reset_state' = "rNB1"
                \/ reset_state = "rNB1" /\ reset_state' = "rNB2"
                \/ reset_state = "rNB2" /\ reset_state' = "rNB3"
    <3>1. NumberSince(reset_state) \in 2..4 /\ NumberSince(reset_state') = NumberSince(reset_state) + 1
      BY <2>2 DEF NumberSince
    <3>2. reset_ctl = <<All, RunPrepare>> /\ since = NumberSince(reset_state) /\ since < spacing
      BY <1>1, <1>3, <2>2, <3>1 DEF AllSelected
    <3>3. NoWrite /\ Keeps
      <4>1. since # spacing BY <1>1, <1>3, <3>2
      <4> QED BY <1>1, <4>1, WriteFacts DEF Takes
    <3>4. since' = since + 1 BY <1>1, <1>3, <3>2, <3>3 DEF NoWrite
    <3> QED BY <3>1, <3>2, <3>3, <3>4 DEF Keeps
  <2> QED BY <1>1, <1>3, <2>1, <2>2, Sequences, NumberStates DEF LinkClock, Put
<1>4. ASSUME sends' = "number", 5 - NumberLeft(reset_state') < spacing PROVE cur_output' = All
  <2>1. \/ reset_state = "rNB0" /\ reset_state' = "rNB1"
        \/ reset_state = "rNB1" /\ reset_state' = "rNB2"
        \/ reset_state = "rNB2" /\ reset_state' = "rNB3"
        \/ reset_state = "rNB3" /\ reset_state' = "sync"
    BY <1>1, <1>4, Sequences, NumberStates DEF LinkClock, Put
  <2>2. reset_state \in Numbers BY <2>1, NumberStates
  <2>3. NumberSince(reset_state) = 6 - NumberLeft(reset_state') /\ NumberLeft(reset_state') \in 1..4
    BY <2>1 DEF NumberSince, NumberLeft
  <2>4. NumberSince(reset_state) <= spacing BY <1>1, <1>4, <2>3
  <2> QED BY <1>1, <2>2, <2>4 DEF AllSelected
<1> QED BY <1>1, <1>2, <1>3, <1>4 DEF AllSelected

LEMMA NumberStep ==
  ASSUME LinkInv, NumberInv, disturbed = 0, LinkClock, TakeWrite \/ NoWrite
  PROVE  NumberInv'
<1>1. /\ TypeInv /\ Orders /\ Registers /\ InFlight
      /\ midas' = midas /\ run' = run /\ disturbed' = disturbed
      /\ RunPrepare \in Commands /\ Sync \in Commands /\ RunPrepare # Sync
      /\ AtOnce \subseteq Commands \ {RunPrepare}
      /\ run \in 0..MaxRuns
      /\ reset_state \in LinkStates
  BY OrdersFollow DEF LinkInv, TypeInv, RLTypeOK, LinkClock, Commands, AtOnce, RunPrepare, Sync,
                      AbortRun, Reset, StopReset, LinkStates
<1>2. Pending(RunPrepare)' => Waits(RunPrepare)
  BY <1>1, PendingWaits DEF Pending
<1>3. Waits(RunPrepare) => /\ Pending(RunPrepare)
                           /\ \A cmd \in Commands : ~Coming(cmd)
  BY CommandBytes, <1>1 DEF Orders, Pending, Coming
<1>4. /\ Coming(RunPrepare) => ~(Pending(RunPrepare)')
      /\ Coming(RunPrepare) => Pending(RunPrepare)
  BY <1>1, <1>2, <1>3 DEF Pending
\* nothing comes: the sequencer goes on in its place
<1>5. ASSUME \A cmd \in Commands : ~Coming(cmd), reset_state \notin Numbers
      PROVE  reset_state' = reset_state /\ sends' = "comma"
  BY <1>1, <1>5, Sequences, NumberStates DEF LinkClock, Put, AtOnce, Commands
<1>6. CASE midas = "prepared"
  <2>1. Under(PrepareCall) /\ Under(PrepareCall)'
    BY <1>1, <1>6, PrepareStays DEF NumberInv
  <2>2. /\ Len(writes) \in 0..3
        /\ \A cmd \in Commands : Active(cmd) => cmd = RunPrepare
        /\ Len(writes) = 3 => writes[1] = Number(RunBytes[run])
        /\ Len(writes) \in 1..2 => writes[1].register = "ctl"
        /\ Waits(RunPrepare) <=> Len(writes) > 1
        /\ Len(writes) = 2 => writes[1] = Ctl(RunPrepare)
    BY <1>1, <2>1, PrepareUnder
  <2>3. ASSUME Len(writes') < 3 PROVE reset_run_number' = RunBytes[run]
    <3>1. CASE Len(writes) = 3
      <4>1. TakeWrite BY <1>1, <2>3, <3>1 DEF NoWrite
      <4>2. writes # <<>> /\ Head(writes) = writes[1]
        BY <1>1, <3>1, HeadTailProperties, EmptySeq DEF TypeInv, RLTypeOK
      <4>3. Head(writes).register = "number" /\ Head(writes).value = RunBytes[run]
        BY <2>2, <3>1, <4>2 DEF Number
      <4> QED BY <4>1, <4>3 DEF TakeWrite
    <3>2. CASE Len(writes) < 3
      <4>1. reset_run_number = RunBytes[run] BY <1>1, <1>6, <3>2 DEF NumberInv
      <4>2. CASE NoWrite BY <4>1, <4>2 DEF NoWrite
      <4>3. CASE TakeWrite
        <5>1. writes # <<>> /\ Head(writes) = writes[1] /\ Len(writes) > 0
          BY <1>1, <4>3, HeadTailProperties, EmptySeq, LenProperties DEF TypeInv, RLTypeOK, TakeWrite
        <5>2. Len(writes) \in 1..2
          <6>1. \A n \in 0..3 : n < 3 /\ n > 0 => n \in 1..2 OBVIOUS
          <6> QED BY <2>2, <3>2, <5>1, <6>1
        <5>3. Head(writes).register # "number" BY <2>2, <5>1, <5>2
        <5> QED BY <4>1, <4>3, <5>3 DEF TakeWrite
      <4> QED BY <4>2, <4>3
    <3>3. \A n \in 0..3 : n < 3 \/ n = 3 OBVIOUS
    <3> QED BY <2>2, <3>1, <3>2, <3>3
  <2>4. ASSUME sends' = "number"
        PROVE  xcvr_tx_data' = RunBytes[run][NumberLeft(reset_state')]
    <3>1. reset_state \in Numbers /\ xcvr_tx_data' = reset_run_number[NumberLeft(reset_state')]
      BY <1>1, <2>4, Sequences, NumberStates DEF LinkClock, Put, NumberLeft
    <3>2. ~Pending(RunPrepare)
      BY <1>1, <1>6, <3>1, NumberStates DEF NumberInv
    <3>3. Len(writes) < 3 BY <1>3, <2>2, <3>2
    <3> QED BY <1>1, <1>6, <3>1, <3>3 DEF NumberInv
  <2>5. ASSUME Pending(RunPrepare)' PROVE reset_state' = "idle"
    <3>1. reset_state = "idle" /\ \A cmd \in Commands : ~Coming(cmd)
      BY <1>1, <1>2, <1>3, <1>6, <2>5 DEF NumberInv
    <3> QED BY <1>5, <3>1, NumberStates
  <2>6. ASSUME ~(Pending(RunPrepare)') PROVE reset_state' \in Numbers \cup {"sync"}
    <3>1. \A cmd \in Commands : Coming(cmd) => cmd = RunPrepare
      BY <2>2 DEF Coming, Active
    <3>2. CASE Pending(RunPrepare)
      <4>1. reset_state = "idle" BY <1>1, <1>6, <3>2 DEF NumberInv
      <4>2. Coming(RunPrepare)
        <5> SUFFICES ASSUME Waits(RunPrepare) PROVE FALSE BY <3>2 DEF Pending
        <5>1. Len(writes) \in 2..3
          <6>1. \A n \in 0..3 : n > 1 => n \in 2..3 OBVIOUS
          <6> QED BY <2>2, <6>1
        <5>2. ~(Waits(RunPrepare)') /\ ~(Coming(RunPrepare)') BY <2>6 DEF Pending
        <5>3. Takes
          <6>1. ~Keeps BY <5>2 DEF Keeps, Waits
          <6> QED BY <1>1, <6>1, WriteFacts
        <5>4. CASE Len(writes) = 2
          <6>1. writes[1] = Ctl(RunPrepare) BY <2>2, <5>4
          <6>2. Ctl(RunPrepare).register # "number" BY DEF Ctl
          <6>3. reset_ctl'[2] = RunPrepare /\ reset_ctl = <<0, 0>>
            BY <1>1, <5>3, <6>1, <6>2, CommandBytes DEF Takes
          <6>4. reg_run_command' = 0 BY <6>3 DEF LinkClock
          <6> QED BY <5>2, <6>3, <6>4 DEF Coming
        <5>5. CASE Len(writes) = 3
          <6>1. Len(writes') = 2 BY <5>3, <5>5 DEF Takes
          <6>2. TypeInv' BY <1>1, TypeStep DEF RLNext, Tick, TickWithWrite
          <6>3. Waits(RunPrepare)'
            <7>1. PICK q : q = PrepareCall OBVIOUS
            <7>2. PrepareCall' = q BY <1>1, <7>1 DEF PrepareCall
            <7>3. Len(q) = 3 /\ q[2] = Ctl(RunPrepare) BY <7>1 DEF PrepareCall
            <7>4. Under(q)' BY <2>1, <7>2
            <7>5. writes'[1] = q[2]
              <8>1. 1 \in 1..Len(writes') /\ 1 + (Len(q) - Len(writes')) = 2 BY <6>1, <7>3
              <8> QED BY <7>4, <8>1 DEF Under
            <7> QED BY <6>1, <7>3, <7>5 DEF Waits
          <6> QED BY <5>2, <6>3
        <5> QED BY <5>1, <5>4, <5>5
      <4> QED BY <1>1, <4>1, <4>2, Sequences, NumberStates DEF LinkClock, Put, Coming, AtOnce,
                 RunPrepare, AbortRun, Reset, StopReset
    <3>3. CASE ~Pending(RunPrepare)
      <4>1. reset_state \in Numbers \cup {"sync"} BY <1>1, <1>6, <3>3 DEF NumberInv
      <4>2. \A cmd \in Commands : ~Coming(cmd) BY <3>1, <3>3 DEF Pending
      <4> QED BY <1>1, <4>1, <4>2, Sequences, NumberStates DEF LinkClock, Put, AtOnce, Commands
    <3> QED BY <3>2, <3>3
  <2>7. RunBytes[run] = (RunBytes[run])' BY <1>1
  <2> QED BY <1>1, <1>6, <2>1, <2>3, <2>4, <2>5, <2>6 DEF NumberInv
<1>7. CASE midas # "prepared"
  <2>1. reset_state \notin Numbers /\ sends # "number" BY <1>1, <1>7 DEF NumberInv
  <2>2. ~(Coming(RunPrepare) /\ reset_state = "idle")
    <3>1. Coming(RunPrepare) => Active(RunPrepare) BY DEF Coming, Active
    <3>2. Coming(RunPrepare) => midas = "running" BY <1>1, <1>7, <3>1 DEF Orders
    <3> QED BY <1>1, <1>4, <3>2 DEF NumberInv
  <2>3. reset_state' \notin Numbers /\ sends' # "number"
    BY <1>1, <2>1, <2>2, Sequences, NumberStates DEF LinkClock, Put
  <2>4. ASSUME midas = "running", Pending(RunPrepare)' PROVE reset_state' = "sync"
    <3>1. reset_state = "sync" /\ \A cmd \in Commands : ~Coming(cmd)
      BY <1>1, <1>2, <1>3, <2>4 DEF NumberInv
    <3> QED BY <1>5, <2>1, <3>1
  <2>5. ASSUME midas \in {"stopped", "starting"} PROVE reset_state' = "idle"
    <3>1. reset_state = "idle" BY <1>1, <2>5 DEF NumberInv
    <3> QED BY <1>1, <2>2, <3>1, Sequences, NumberStates DEF LinkClock, Put
  <2> QED BY <1>1, <1>7, <2>3, <2>4, <2>5 DEF NumberInv
<1> QED BY <1>6, <1>7
-----------------------------------------------------------------------------
(***************************************************************************)
(* The boards in an undisturbed run.                                       *)
(***************************************************************************)
Runs == {"PREP", "SYNC", "RUNNING"}
GoodByte(f, i) ==
  \/ board[f].payload["PREP"][i] = RunBytes[run][i]
  \/ 5 - i >= spacing /\ Output[f] # 0 /\ board[f].payload["PREP"][i] = Comma
Awaited(c, i) == c.state = "PREP" /\ c.recieving_payload /\ i <= c.payload_byte_counter

BoardRun(f) ==
  /\ board[f].o_state \in {"SYNC", "RUNNING"} => f \notin ended
  /\ board[f].state = "PREP" /\ board[f].recieving_payload => board[f].o_state = "IDLE"
  /\ disturbed = 0 =>
       /\ midas \in {"stopped", "starting"} =>
            board[f].state \notin Runs /\ board[f].o_state \notin Runs
       /\ midas \in {"running", "stopping"} =>
            /\ board[f].state = "PREP" =>
                 board[f].o_state = "PREP" /\ ~board[f].recieving_payload
            /\ board[f].o_state = "PREP" /\ f \in ended => Len(writes) = 7
       /\ midas \notin {"stopped", "starting"} /\ (board[f].state \in Runs \/ board[f].o_state \in Runs) =>
            \A i \in 1..4 : GoodByte(f, i) \/ Awaited(board[f], i)

RunInv == LinkInv /\ AllSelected /\ NumberInv /\ \A f \in FEB : BoardRun(f)

LEMMA ShownLater ==
  ASSUME TypeInv, NEW f \in FEB
  PROVE  /\ board[f].state = "SYNC" => board[f].o_state \in {"PREP", "SYNC"}
         /\ board[f].state = "RUNNING" => board[f].o_state \in {"SYNC", "RUNNING"}
<1>1. OneBehind(board[f]) BY DEF TypeInv, BoardsInv, BoardInv
<1> QED BY <1>1 DEF OneBehind, Shown!Edges, Shown!RunEdges, Shown!AbortEdges, Shown!TestEdges,
                    Shown!ResetEdges, Shown!DaqEdges, Shown!RunState

LEMMA BoardRunStep ==
  ASSUME LinkInv, AllSelected, NumberInv, LinkClock, TakeWrite \/ NoWrite,
         NEW f \in FEB, BoardRun(f)
  PROVE  BoardRun(f)'
<1> DEFINE c == board[f]
           d == board'[f]
<1>1. /\ TypeInv /\ Orders /\ Registers /\ BoardFollows(f)
      /\ midas' = midas /\ run' = run /\ disturbed' = disturbed /\ spacing' = spacing
      /\ f \in ended' <=> f \in ended /\ c.o_state # "PREP"
      /\ reset_state \in LinkStates
      /\ sends \in {"comma", "command", "number"}
      /\ midas \in {"stopped", "starting", "prepared", "running", "stopping"}
  BY OrdersFollow DEF LinkInv, TypeInv, RLTypeOK, LinkClock, LinkStates
<1>2. /\ Reads(c, d, sends, xcvr_tx_data, reset_state, f \in ended)
      /\ Shows(c, d, sends, reset_state, Heard(f))
      /\ Follows(c, sends, xcvr_tx_data, reset_state)
  BY <1>1, BoardClock, BoardHears DEF BoardFollows
<1>3. d.o_state \in {c.o_state, c.state} BY <1>1, <1>2 DEF Shows
<1>4. ASSUME d.o_state \in {"SYNC", "RUNNING"} PROVE f \notin ended'
  <2>1. CASE c.o_state \in {"SYNC", "RUNNING"} BY <1>1, <2>1 DEF BoardRun
  <2>2. CASE c.state \in {"SYNC", "RUNNING"}
    <3>1. c.o_state \in {"PREP", "SYNC", "RUNNING"} BY <1>1, <2>2, ShownLater
    <3> QED BY <1>1, <2>1, <3>1
  <2> QED BY <1>3, <1>4, <2>1, <2>2
<1>5. ASSUME d.state = "PREP", d.recieving_payload PROVE d.o_state = "IDLE"
  <2>1. CASE sends = "number"
    <3>1. c.state = "PREP" /\ c.recieving_payload BY <1>2, <2>1 DEF Follows, Awaits
    <3> QED BY <1>2, <2>1, <3>1 DEF Shows, BoardRun
  <2>2. CASE sends = "command"
    <3>1. xcvr_tx_data = RunPrepare BY <1>2, <1>5, <2>2 DEF Reads, Is, Resets
    <3>2. c.state = "IDLE"
      BY <1>2, <2>2, <3>1 DEF Follows, Is, RunPrepare, Sync, StartRun, EndRun, AbortRun, Reset,
                              StopReset
    <3> QED BY <1>2, <2>2, <3>2 DEF Shows
  <2>3. CASE sends = "comma"
    <3>1. c.state = "PREP" BY <1>2, <1>5, <2>3 DEF Shows
    <3>2. ~c.recieving_payload BY <1>2, <2>3, <3>1 DEF Follows, Is, Resets
    <3> QED BY <1>2, <1>5, <2>3, <3>2 DEF Reads
  <2> QED BY <1>1, <2>1, <2>2, <2>3
<1>6. ASSUME disturbed = 0, midas # "prepared"
      PROVE  /\ sends # "number" /\ reset_state \notin Numbers
             /\ ~(sends = "command" /\ xcvr_tx_data = RunPrepare)
  <2>1. sends # "number" /\ reset_state \notin Numbers BY <1>6 DEF NumberInv
  <2>2. ~(sends = "command" /\ xcvr_tx_data = RunPrepare)
    BY <1>2, <2>1, NumberStates
    DEF Follows, RunPrepare, Sync, StartRun, EndRun, AbortRun, Reset, StopReset
  <2> QED BY <2>1, <2>2
<1>7. ASSUME disturbed = 0, midas \in {"stopped", "starting"}
      PROVE  d.state \notin Runs /\ d.o_state \notin Runs
  <2>1. c.state \notin Runs /\ c.o_state \notin Runs /\ reset_state = "idle"
    BY <1>7 DEF BoardRun, NumberInv
  <2>2. CASE sends = "comma"
    <3>1. CASE ~c.recieving_payload BY <1>2, <1>3, <2>1, <2>2, <3>1 DEF Reads, Runs
    <3>2. CASE c.recieving_payload
      <4>1. Resets(c, 2) BY <1>2, <2>2, <3>2 DEF Follows, Is
      <4>2. d.state = "RESET" BY <1>2, <2>2, <4>1 DEF Reads, Resets
      <4> QED BY <1>3, <2>1, <4>2 DEF Runs
    <3> QED BY <3>1, <3>2
  <2>3. CASE sends = "command"
    <3>1. xcvr_tx_data \in {AbortRun, Reset, StopReset}
      BY <1>2, <2>1, <2>3 DEF Follows, Is, Runs
    <3>2. d.state \in {"IDLE", "RESET"}
      BY <1>2, <2>3, <3>1 DEF Reads, Is, Resets, Awaits, RunPrepare, Sync, StartRun, EndRun, AbortRun, Reset,
                              StopReset
    <3> QED BY <1>3, <2>1, <3>2 DEF Runs
  <2> QED BY <1>1, <1>6, <1>7, <2>2, <2>3
<1>8. ASSUME disturbed = 0, midas \in {"running", "stopping"}
      PROVE  /\ d.state = "PREP" => d.o_state = "PREP" /\ ~d.recieving_payload
             /\ ~(d.o_state = "PREP" /\ f \in ended')
  <2>1. c.state = "PREP" => c.o_state = "PREP" /\ ~c.recieving_payload
    BY <1>8 DEF BoardRun
  <2>2. ASSUME d.state = "PREP" PROVE d.o_state = "PREP" /\ ~d.recieving_payload
    <3>1. sends = "comma"
      <4>1. sends = "command" => xcvr_tx_data = RunPrepare
        BY <1>2, <2>2 DEF Reads, Is, Resets
      <4> QED BY <1>1, <1>6, <1>8, <4>1
    <3>2. c.state = "PREP" BY <1>2, <2>2, <3>1 DEF Shows
    <3> QED BY <1>2, <2>1, <3>1, <3>2 DEF Shows, Reads
  <2>3. ~(d.o_state = "PREP" /\ f \in ended')
    BY <1>1, <1>3, <2>1
  <2> QED BY <2>2, <2>3
<1>9. ASSUME disturbed = 0, midas \notin {"stopped", "starting"},
             d.state \in Runs \/ d.o_state \in Runs, NEW i \in 1..4
      PROVE  GoodByte(f, i)' \/ Awaited(d, i)
  <2>1. /\ c.state \in Runs \/ c.o_state \in Runs => GoodByte(f, i) \/ Awaited(c, i)
        /\ RunBytes[run]' = RunBytes[run]
    BY <1>1, <1>9 DEF BoardRun
  <2>2. CASE sends = "number"
    <3>1. Awaits(c, NumberLeft(reset_state)) /\ reset_state \in {"rNB1", "rNB2", "rNB3", "sync"}
      BY <1>2, <2>2 DEF Follows
    <3>2. NumberLeft(reset_state) \in 1..4 /\ (reset_state = "sync" <=> NumberLeft(reset_state) = 1)
      BY <3>1 DEF NumberLeft
    <3>3. GoodByte(f, i) \/ i <= NumberLeft(reset_state)
      BY <2>1, <3>1 DEF Runs, Awaits, Awaited
    <3>4. CASE i = NumberLeft(reset_state)
      <4>1. d.payload["PREP"][i] = Heard(f) BY <1>2, <2>2, <3>4 DEF Shows
      <4>2. midas = "prepared" /\ xcvr_tx_data = RunBytes[run][i]
        BY <1>6, <1>9, <2>2, <3>4 DEF NumberInv
      <4>3. CASE Selected(f) BY <1>1, <4>1, <4>2, <4>3 DEF Heard, GoodByte
      <4>4. CASE ~Selected(f)
        <5>1. cur_output = 0
          <6>1. cur_output \in {0, 4, All} BY <1>1 DEF TypeInv, RLTypeOK
          <6> QED BY <2>2, <4>4, <6>1 DEF AllSelected, Selected
        <5>2. Output[f] # 0 BY <4>4, <5>1 DEF Selected
        <5>3. 5 - i >= spacing
          <6>1. spacing \in Nat BY <1>1, A10Assumption DEF TypeInv, RLTypeOK
          <6> QED BY <2>2, <3>4, <5>1, <6>1 DEF AllSelected, All
        <5> QED BY <1>1, <4>1, <4>4, <5>2, <5>3 DEF Heard, GoodByte
      <4> QED BY <4>3, <4>4
    <3>5. CASE i # NumberLeft(reset_state)
      <4>1. d.payload["PREP"][i] = c.payload["PREP"][i] BY <1>2, <2>2, <3>5 DEF Shows
      <4>2. CASE GoodByte(f, i) BY <1>1, <4>1, <4>2 DEF GoodByte
      <4>3. CASE i <= NumberLeft(reset_state)
        <5>1. reset_state # "sync" /\ i <= NumberLeft(reset_state) - 1 BY <3>2, <3>5, <4>3
        <5>2. Awaits(d, NumberLeft(reset_state) - 1) BY <1>2, <2>2, <5>1 DEF Reads
        <5> QED BY <5>1, <5>2 DEF Awaits, Awaited
      <4> QED BY <3>3, <4>2, <4>3
    <3> QED BY <3>4, <3>5
  <2>3. CASE sends = "command" /\ xcvr_tx_data = RunPrepare
    <3>1. Awaits(d, 4)
      BY <1>2, <2>3 DEF Reads, RunPrepare, Sync, StartRun, EndRun, AbortRun, Reset, StopReset
    <3> QED BY <3>1 DEF Awaits, Awaited
  <2>4. CASE sends = "comma" \/ (sends = "command" /\ xcvr_tx_data # RunPrepare)
    <3>1. d.payload["PREP"] = c.payload["PREP"] BY <1>2, <2>4 DEF Shows
    <3>2. d.state \in Runs => c.state \in Runs
      <4>1. CASE sends = "comma"
        <5>1. CASE ~c.recieving_payload BY <1>2, <4>1, <5>1 DEF Reads, Runs
        <5>2. CASE c.recieving_payload
          BY <1>2, <4>1, <5>2 DEF Reads, Follows, Is, Resets, Runs
        <5> QED BY <5>1, <5>2
      <4>2. CASE sends = "command" /\ xcvr_tx_data # RunPrepare
        BY <1>2, <4>2 DEF Follows, Reads, Is, Resets, Runs, RunPrepare, Sync, StartRun, EndRun,
                          AbortRun, Reset, StopReset
      <4> QED BY <2>4, <4>1, <4>2
    <3>3. ~Awaited(c, i)
      BY <1>2, <2>4 DEF Follows, Is, Resets, Awaited
    <3>4. GoodByte(f, i) BY <1>3, <1>9, <2>1, <3>2, <3>3
    <3> QED BY <1>1, <3>1, <3>4 DEF GoodByte
  <2> QED BY <1>1, <2>2, <2>3, <2>4
<1> QED BY <1>1, <1>4, <1>5, <1>7, <1>8, <1>9 DEF BoardRun

\* A call keeps what holds of the boards and of their selection.
LEMMA CallRun ==
  ASSUME LinkInv, AllSelected, Settled, NEW f \in FEB, BoardRun(f),
         UNCHANGED <<board, since, spacing, reset_ctl, link_vars, ended, disturbed>>,
         disturbed = 0 =>
           \/ midas \in {"stopped", "starting"} /\ midas' \in {"starting", "prepared"} 
           \/ midas' = midas /\ run' = run
           \/ midas = "prepared" /\ midas' = "running" /\ run' = run /\ Len(writes') = 7
           \/ midas \in {"running", "stopping"} /\ midas' \in {"running", "stopping"} /\ run' = run
           \/ midas' = "stopped" /\ reset_state = "idle"
  PROVE  AllSelected' /\ BoardRun(f)'
<1>1. /\ UNCHANGED <<reg_run_command, cur_output, xcvr_tx_data, sends, reset_state>>
      /\ sends = "comma" /\ reset_state \notin Numbers /\ Len(writes) = 0
      /\ ~board[f].recieving_payload /\ board[f].o_state = board[f].state
      /\ Follows(board[f], sends, xcvr_tx_data, reset_state)
  BY DEF link_vars, Settled, LinkInv, BoardFollows
<1>2. AllSelected' BY <1>1 DEF AllSelected
<1>3. ASSUME disturbed = 0, midas' \in {"stopped", "starting"}
      PROVE  board[f].state \notin Runs /\ board[f].o_state \notin Runs
  <2>1. midas \in {"stopped", "starting"} \/ reset_state = "idle" BY <1>3
  <2>2. CASE midas \in {"stopped", "starting"} BY <1>3, <2>2 DEF BoardRun
  <2>3. CASE reset_state = "idle" BY <1>1, <2>3 DEF Follows, Is, Resets, Runs
  <2> QED BY <2>1, <2>2, <2>3
<1>4. ASSUME disturbed = 0, midas' \in {"running", "stopping"}
      PROVE  board[f].o_state = "PREP" /\ f \in ended => Len(writes') = 7
  <2>1. CASE midas = "prepared" BY <1>4, <2>1
  <2>2. CASE midas \in {"running", "stopping"} BY <1>1, <1>4, <2>2 DEF BoardRun
  <2> QED BY <1>4, <2>1, <2>2
<1>5. ASSUME disturbed = 0, midas' \notin {"stopped", "starting"},
             board[f].state \in Runs \/ board[f].o_state \in Runs, NEW i \in 1..4
      PROVE  (GoodByte(f, i) \/ Awaited(board[f], i))'
  <2>1. midas \notin {"stopped", "starting"} BY <1>5 DEF BoardRun
  <2>2. run' = run BY <1>5, <2>1
  <2>3. GoodByte(f, i) \/ Awaited(board[f], i) BY <1>5, <2>1 DEF BoardRun
  <2> QED BY <2>2, <2>3 DEF GoodByte
<1> QED BY <1>1, <1>2, <1>3, <1>4, <1>5 DEF BoardRun

LEMMA RunStepKeeps ==
  ASSUME RunInv, [RLNext]_vars, FEB # {}
  PROVE  RunInv'
<1>1. /\ LinkInv /\ AllSelected /\ NumberInv /\ LinkInv'
      /\ \A f \in FEB : BoardRun(f)
      /\ TypeInv /\ Orders /\ disturbed \in Nat /\ disturbed >= 0
  BY LinkStep, OrdersFollow, A10Assumption DEF RunInv, LinkInv, TypeInv, RLTypeOK
<1>2. CASE Tick \/ TickWithWrite
  <2>1. LinkClock /\ (TakeWrite \/ NoWrite) BY <1>2 DEF Tick, TickWithWrite
  <2>2. NumberInv'
    <3>1. disturbed' = disturbed BY <2>1 DEF LinkClock
    <3>2. disturbed = 0 => NumberInv' BY <1>1, <2>1, NumberStep
    <3> QED BY <3>1, <3>2 DEF NumberInv
  <2> QED BY <1>1, <2>1, <2>2, AllSelectedStep, BoardRunStep DEF RunInv
\* what is known when a call is made
<1>3. ASSUME Settled
      PROVE  /\ sends = "comma" /\ reset_state \notin Numbers /\ ~Pending(RunPrepare)
             /\ reset_ctl = <<0, 0>>
  <2>1. Len(writes) = 0 /\ reset_ctl[2] = 0 /\ sends = "comma" /\ reset_state \notin Numbers
    BY <1>3 DEF Settled
  <2>2. RunPrepare # 0 BY DEF RunPrepare
  <2> QED BY <1>1, <2>1, <2>2 DEF Pending, Coming, Waits, Orders
<1>4. CASE StartTransition
  <2>1. /\ Settled /\ midas = "stopped" /\ midas' = "starting" /\ writes' = <<>>
        /\ UNCHANGED <<board, since, spacing, reset_ctl, link_vars, ended, disturbed>>
    BY <1>4 DEF StartTransition, Call
  <2>2. AllSelected' /\ \A f \in FEB : BoardRun(f)' BY <1>1, <2>1, CallRun
  <2>3. NumberInv' BY <1>1, <1>3, <2>1 DEF NumberInv, link_vars
  <2> QED BY <1>1, <2>2, <2>3 DEF RunInv
<1>5. CASE PrepareRunOnRequest
  <2>1. PICK q : q = PrepareCall OBVIOUS
  <2>2. /\ Settled /\ midas = "starting" /\ midas' = "prepared" /\ writes' = q /\ run' = run
        /\ UNCHANGED <<board, since, spacing, reset_ctl, link_vars, ended, disturbed>>
    BY <1>5, <2>1, CallsAre DEF PrepareRunOnRequest, Call
  <2>3. AllSelected' /\ \A f \in FEB : BoardRun(f)' BY <1>1, <2>2, CallRun
  <2>4. PrepareCall' = q /\ Len(q) = 3 /\ q[2] = Ctl(RunPrepare)
    BY <2>1, <2>2 DEF PrepareCall
  <2>5. q \in Seq(Write)
    <3>1. run > 0 /\ run \in 1..MaxRuns BY <1>1, <2>2, A10Assumption DEF TypeInv, RLTypeOK
    <3> QED BY <2>1, <3>1, CallTypes
  <2>6. Under(PrepareCall)' BY <1>3, <2>2, <2>4, <2>5, StartUnder
  <2>7. Pending(RunPrepare)' BY <2>2, <2>4 DEF Pending, Waits
  <2>8. reset_state = "idle" \/ disturbed # 0 BY <1>1, <2>2 DEF NumberInv
  <2>9. Len(writes') = 3 /\ sends' = "comma" /\ reset_state' = reset_state /\ disturbed' = disturbed
    BY <1>3, <2>2, <2>4 DEF link_vars
  <2>10. NumberInv' BY <2>2, <2>6, <2>7, <2>8, <2>9 DEF NumberInv
  <2> QED BY <1>1, <2>3, <2>10 DEF RunInv
<1>6. CASE BeginOfRun
  <2>1. /\ Settled /\ midas = "prepared" /\ midas' = "running" /\ writes' = BeginCall /\ run' = run
        /\ UNCHANGED <<board, since, spacing, reset_ctl, link_vars, ended, disturbed>>
    BY <1>6, CallsAre DEF BeginOfRun, Call
  <2>2. Len(writes') = 7 BY <2>1 DEF BeginCall
  <2>3. AllSelected' /\ \A f \in FEB : BoardRun(f)' BY <1>1, <2>1, <2>2, CallRun
  <2>4. reset_state = "sync" \/ disturbed # 0 BY <1>1, <1>3, <2>1 DEF NumberInv
  <2>5. NumberInv' BY <1>1, <1>3, <2>1, <2>4, NumberStates DEF NumberInv, link_vars
  <2> QED BY <1>1, <2>3, <2>5 DEF RunInv
<1>7. CASE EndOfRun \/ StopCancelled
  <2>1. /\ Settled /\ midas \in {"running", "stopping"} /\ midas' \in {"running", "stopping"}
        /\ writes' \in {EndCall, <<>>} /\ run' = run
        /\ UNCHANGED <<board, since, spacing, reset_ctl, link_vars, ended, disturbed>>
    BY <1>7, CallsAre DEF EndOfRun, StopCancelled, Call
  <2>2. AllSelected' /\ \A f \in FEB : BoardRun(f)' BY <1>1, <2>1, CallRun
  <2>3. ~Pending(RunPrepare)'
    <3>1. PICK q \in {EndCall, <<>>} : writes' = q BY <2>1
    <3>2. q \in Seq(Write)
      <4>1. run \in 1..MaxRuns \/ run = 0 BY <1>1, A10Assumption DEF TypeInv, RLTypeOK
      <4>2. EndCall \in Seq(Write) BY <4>1, CallTypes
      <4>3. <<>> \in Seq(Write) OBVIOUS
      <4> QED BY <3>1, <4>2, <4>3
    <3>3. ~Waits(RunPrepare)' BY <1>3, <2>1, <3>1, <3>2, CallFacts
    <3>4. ~Coming(RunPrepare)' BY <1>3, <2>1 DEF Coming, RunPrepare
    <3> QED BY <3>3, <3>4 DEF Pending
  <2>4. NumberInv' BY <1>1, <1>3, <2>1, <2>3 DEF NumberInv, link_vars
  <2> QED BY <1>1, <2>2, <2>4 DEF RunInv
<1>8. CASE StopConfirmed
  <2>1. /\ Settled /\ midas = "stopping" /\ midas' = "stopped" /\ writes' = <<>> /\ ended = FEB
        /\ UNCHANGED <<board, since, spacing, reset_ctl, link_vars, ended, disturbed>>
    BY <1>8 DEF StopConfirmed, Call
  <2>2. disturbed = 0 => reset_state = "idle"
    <3>1. PICK f \in FEB : TRUE OBVIOUS
    <3>2. f \in ended /\ board[f].o_state = board[f].state /\ Len(writes) = 0
          /\ sends = "comma"
      BY <2>1, <3>1 DEF Settled
    <3>3. BoardRun(f) BY <1>1
    <3>4. board[f].state \notin {"SYNC", "RUNNING"} BY <3>2, <3>3 DEF BoardRun
    <3>5. disturbed = 0 => board[f].state # "PREP" BY <2>1, <3>2, <3>3 DEF BoardRun
    <3> QED BY <1>1, <3>2, <3>4, <3>5 DEF LinkInv, BoardFollows, Follows, Is
  <2>3. AllSelected' /\ \A f \in FEB : BoardRun(f)' BY <1>1, <2>1, <2>2, CallRun
  <2>4. NumberInv' BY <1>1, <1>3, <2>1, <2>2 DEF NumberInv, link_vars
  <2> QED BY <1>1, <2>3, <2>4 DEF RunInv
<1>9. CASE Disturb \/ BeginUnprepared
  <2>1. /\ disturbed' # 0 /\ Settled
        /\ UNCHANGED <<board, since, spacing, reset_ctl, link_vars, run, ended>>
    BY <1>1, <1>9 DEF Disturb, BeginUnprepared
  <2>2. AllSelected' /\ NumberInv' BY <1>1, <2>1 DEF AllSelected, NumberInv, link_vars
  <2>3. \A f \in FEB : BoardRun(f)' BY <1>1, <2>1 DEF BoardRun
  <2> QED BY <1>1, <2>2, <2>3 DEF RunInv
<1>10. CASE (\E f \in FEB : Terminate(f)) \/ UNCHANGED vars
  <2>1. /\ UNCHANGED <<board, writes, since, reset_run_number, reset_ctl, spacing,
                       reg_run_command, cur_output, xcvr_tx_data, sends, reset_state, midas, run,
                       disturbed>>
        /\ \A f \in FEB : f \in ended' => f \in ended \/ board[f].o_state = "TERMINATING"
    BY <1>10 DEF Terminate, vars, register_vars, link_vars
  <2>2. AllSelected' BY <1>1, <2>1 DEF AllSelected
  <2>3. NumberInv'
    <3>1. /\ Under(PrepareCall) => Under(PrepareCall)'
          /\ Pending(RunPrepare)' <=> Pending(RunPrepare)
      BY <2>1 DEF Under, PrepareCall, Pending, Coming, Waits
    <3> QED BY <1>1, <2>1, <3>1 DEF NumberInv
  <2>4. \A f \in FEB : BoardRun(f)'
    BY <1>1, <2>1 DEF BoardRun, GoodByte
  <2> QED BY <1>1, <2>2, <2>3, <2>4 DEF RunInv
<1> QED BY <1>2, <1>4, <1>5, <1>6, <1>7, <1>8, <1>9, <1>10 DEF RLNext

LEMMA RunInit ==
  ASSUME RLInit, WritesApart
  PROVE  RunInv
<1>1. LinkInv BY LinkInit
<1>2. /\ sends = "comma" /\ reset_state = "idle" /\ midas = "stopped" /\ ended = {}
  BY DEF RLInit
<1>3. AllSelected /\ NumberInv BY <1>2, NumberStates DEF AllSelected, NumberInv
<1>4. ASSUME NEW f \in FEB PROVE BoardRun(f)
  <2>1. board[f] = PowerUp BY DEF RLInit, Init
  <2>2. board[f].state = "IDLE" /\ board[f].o_state = "IDLE" BY <2>1 DEF PowerUp
  <2> QED BY <1>2, <2>2 DEF BoardRun, Runs
<1> QED BY <1>1, <1>3, <1>4 DEF RunInv

LEMMA Arrived ==
  ASSUME RunInv
  PROVE  BytesArrive
<1> SUFFICES ASSUME disturbed = 0, NEW f \in FEB, ShowsRun(f), NEW n \in 1..4
             PROVE  \/ board[f].payload["PREP"][5 - n] = OnLine(run)[n]
                    \/ /\ n >= spacing /\ Output[f] # 0
                       /\ board[f].payload["PREP"][5 - n] = Comma
  BY DEF BytesArrive
<1> DEFINE i == 5 - n
<1>1. BoardRun(f) BY DEF RunInv
<1>2. board[f].o_state \in Runs BY DEF ShowsRun, Runs
<1>3. midas \notin {"stopped", "starting"} BY <1>1, <1>2 DEF BoardRun
<1>4. i \in 1..4 /\ 5 - i = n OBVIOUS
<1>5. GoodByte(f, i) \/ Awaited(board[f], i) BY <1>1, <1>2, <1>3, <1>4 DEF BoardRun
<1>6. ~Awaited(board[f], i) BY <1>1, <1>2 DEF BoardRun, Awaited, Runs
<1> QED BY <1>4, <1>5, <1>6 DEF GoodByte, OnLine

\* The boards show a run with the bytes that crfe gave it, the lowest in the
\* place that they await first: all of them if the writes of a call are five
\* clocks apart, and else with commas from the byte on at which the next
\* write has taken the line away from the outputs other than 0.
THEOREM RunBytesArrive == ASSUME WritesApart PROVE RLSpec => []BytesArrive
<1>1. CASE FEB # {}
  <2>1. RLInit => RunInv BY RunInit
  <2>2. RunInv /\ [RLNext]_vars => RunInv' BY <1>1, RunStepKeeps
  <2>3. RunInv => BytesArrive BY Arrived
  <2> QED BY <2>1, <2>2, <2>3, PTL DEF RLSpec
<1>2. CASE FEB = {}
  <2>1. BytesArrive BY <1>2 DEF BytesArrive
  <2> QED BY <2>1, PTL
<1> QED BY <1>1, <1>2
=============================================================================
