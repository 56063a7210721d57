-------------------------- MODULE ClockBoardProofs --------------------------
(***************************************************************************)
(* What holds of the clock and reset system for every set of boards and    *)
(* switching boards, every run number and every number of runs and aborts. *)
(***************************************************************************)
EXTENDS ClockBoard, StateControllerProofs, SequenceTheorems

(***************************************************************************)
(* The frames, symbol by symbol.                                           *)
(***************************************************************************)
LEMMA Joined ==
  ASSUME NEW S, NEW p \in Seq(S), NEW q \in Seq(S)
  PROVE  /\ p \o q \in Seq(S) /\ Len(p \o q) = Len(p) + Len(q)
         /\ \A i \in 1..Len(p) : (p \o q)[i] = p[i]
         /\ \A i \in 1..Len(q) : (p \o q)[Len(p) + i] = q[i]
<1>1. /\ p \o q \in Seq(S) /\ Len(p \o q) = Len(p) + Len(q)
      /\ \A i \in 1..(Len(p) + Len(q)) :
           (p \o q)[i] = IF i <= Len(p) THEN p[i] ELSE q[i - Len(p)]
  BY ConcatProperties
<1>2. Len(p) \in Nat /\ Len(q) \in Nat BY LenProperties
<1>3. \A i \in 1..Len(p) : (p \o q)[i] = p[i]
  BY <1>1, <1>2
<1>4. ASSUME NEW i \in 1..Len(q) PROVE (p \o q)[Len(p) + i] = q[i]
  <2>1. /\ Len(p) + i \in 1..(Len(p) + Len(q)) /\ ~(Len(p) + i <= Len(p))
        /\ (Len(p) + i) - Len(p) = i
    BY <1>2
  <2> QED BY <1>1, <2>1
<1> QED BY <1>1, <1>3, <1>4

Sym(byte, to, role, left) == [byte |-> byte, to |-> to, role |-> role, left |-> left]
Roles == {"comma", "command", "payload", "address"}

LEMMA AsIs ==
  ASSUME NEW role \in Roles, NEW to \in SUBSET FEB, NEW bytes \in Seq(Byte)
  PROVE  /\ As(role, to, bytes) \in Seq(Symbol)
         /\ Len(As(role, to, bytes)) = Len(bytes)
         /\ \A i \in 1..Len(bytes) : As(role, to, bytes)[i] = Sym(bytes[i], to, role, Len(bytes) - i)
<1> DEFINE n == Len(bytes)
           sym(i) == Sym(bytes[i], to, role, n - i)
           a == [i \in 1..n |-> sym(i)]
<1>1. n \in Nat /\ \A i \in 1..n : bytes[i] \in Byte
  BY LenProperties
<1>2. As(role, to, bytes) = a
  BY DEF As, Sym
<1>3. \A i \in 1..n : sym(i) \in Symbol
  BY <1>1 DEF Symbol, Sym, Roles
<1> HIDE DEF n, sym
<1>4. a \in [1..n -> Symbol] BY <1>3
<1>5. a \in Seq(Symbol) BY <1>1, <1>4, SeqDef
<1>6. Len(a) = n BY <1>1, <1>4, <1>5
<1>7. \A i \in 1..n : a[i] = sym(i) OBVIOUS
<1> HIDE DEF a
<1> QED BY <1>2, <1>5, <1>6, <1>7 DEF n, sym

\* A command byte and what belongs to it.
LEMMA CommandIs ==
  ASSUME NEW to \in SUBSET FEB, NEW cmd \in Byte, NEW p \in [1..4 -> Byte]
  PROVE  /\ Command(to, cmd, p) \in Seq(Symbol)
         /\ Len(Command(to, cmd, p)) = IF HasPayload(cmd) THEN 5 ELSE 1
         /\ Command(to, cmd, p)[1] = Sym(cmd, to, "command", 0)
         /\ HasPayload(cmd) =>
              \A i \in 1..4 : Command(to, cmd, p)[1 + i] = Sym(p[i], to, "payload", 4 - i)
<1> DEFINE u == As("command", to, <<cmd>>)
           w == IF HasPayload(cmd) THEN As("payload", to, p) ELSE <<>>
<1>1. <<cmd>> \in Seq(Byte) /\ Len(<<cmd>>) = 1 /\ <<cmd>>[1] = cmd OBVIOUS
<1>2. u \in Seq(Symbol) /\ Len(u) = 1 /\ u[1] = Sym(cmd, to, "command", 0)
  <2>1. u \in Seq(Symbol) /\ Len(u) = 1 /\ \A i \in 1..1 : u[i] = Sym(<<cmd>>[i], to, "command", 1 - i)
    BY <1>1, AsIs DEF Roles
  <2>2. 1 \in 1..1 /\ 1 - 1 = 0 OBVIOUS
  <2> QED BY <1>1, <2>1, <2>2
<1>3. p \in Seq(Byte) /\ Len(p) = 4
  <2>1. p \in Seq(Byte) BY SeqDef
  <2>2. DOMAIN p = 1..Len(p) /\ Len(p) \in Nat BY <2>1, LenProperties
  <2>3. DOMAIN p = 1..4 OBVIOUS
  <2> QED BY <2>1, <2>2, <2>3
<1>4. w \in Seq(Symbol) /\ Len(w) = IF HasPayload(cmd) THEN 4 ELSE 0
  <2>1. CASE HasPayload(cmd)
    BY <1>3, <2>1, AsIs DEF Roles
  <2>2. CASE ~HasPayload(cmd)
    BY <2>2
  <2> QED BY <2>1, <2>2
<1>5. HasPayload(cmd) => \A i \in 1..4 : w[i] = Sym(p[i], to, "payload", 4 - i)
  <2> DEFINE r == As("payload", to, p)
  <2>1. \A i \in 1..Len(p) : r[i] = Sym(p[i], to, "payload", Len(p) - i)
    BY <1>3, AsIs DEF Roles
  <2>2. HasPayload(cmd) => w = r OBVIOUS
  <2> HIDE DEF r, w
  <2> QED BY <1>3, <2>1, <2>2
<1>6. Command(to, cmd, p) = u \o w
  BY DEF Command
<1> HIDE DEF u, w
<1>7. /\ u \o w \in Seq(Symbol) /\ Len(u \o w) = Len(u) + Len(w)
      /\ \A i \in 1..Len(u) : (u \o w)[i] = u[i]
      /\ \A i \in 1..Len(w) : (u \o w)[Len(u) + i] = w[i]
  <2>0. u \in Seq(Symbol) /\ w \in Seq(Symbol) BY <1>2, <1>4
  <2>1. u \o w \in Seq(Symbol) BY <2>0, Joined
  <2>2. Len(u \o w) = Len(u) + Len(w) BY <2>0, Joined
  <2>3. \A i \in 1..Len(u) : (u \o w)[i] = u[i] BY <2>0, Joined
  <2>4. \A i \in 1..Len(w) : (u \o w)[Len(u) + i] = w[i] BY <2>0, Joined
  <2> QED BY <2>1, <2>2, <2>3, <2>4
<1>8. Len(u \o w) = IF HasPayload(cmd) THEN 5 ELSE 1
  BY <1>2, <1>4, <1>7
<1>9. (u \o w)[1] = Sym(cmd, to, "command", 0)
  BY <1>2, <1>7
<1>10. HasPayload(cmd) => \A i \in 1..4 : (u \o w)[1 + i] = Sym(p[i], to, "payload", 4 - i)
  BY <1>2, <1>4, <1>5, <1>7
<1> QED BY <1>6, <1>7, <1>8, <1>9, <1>10

\* What is written for all boards: three commas in front.
LEMMA FrameIs ==
  ASSUME NEW cmd \in Byte, NEW p \in [1..4 -> Byte]
  PROVE  /\ Frame(cmd, p) \in Seq(Symbol)
         /\ Len(Frame(cmd, p)) = IF HasPayload(cmd) THEN 8 ELSE 4
         /\ \A i \in 1..3 : Frame(cmd, p)[i] = Sym(Comma, FEB, "comma", 3 - i)
         /\ Frame(cmd, p)[4] = Sym(cmd, FEB, "command", 0)
         /\ HasPayload(cmd) =>
              \A i \in 1..4 : Frame(cmd, p)[4 + i] = Sym(p[i], FEB, "payload", 4 - i)
<1> DEFINE t == <<Comma, Comma, Comma>>
           u == As("comma", FEB, t)
           w == Command(FEB, cmd, p)
<1>1. t \in Seq(Byte) /\ Len(t) = 3 /\ \A i \in 1..3 : t[i] = Comma
  BY LineAssumption
<1> HIDE DEF t
<1>2. u \in Seq(Symbol) /\ Len(u) = 3 /\ \A i \in 1..3 : u[i] = Sym(Comma, FEB, "comma", 3 - i)
  <2>1. "comma" \in Roles /\ FEB \in SUBSET FEB BY DEF Roles
  <2>2. u \in Seq(Symbol) BY <1>1, <2>1, AsIs
  <2>3. Len(u) = 3 BY <1>1, <2>1, AsIs
  <2>4. \A i \in 1..3 : u[i] = Sym(t[i], FEB, "comma", 3 - i)
    <3>1. t \in Seq(Byte) BY <1>1
    <3>2. \A i \in 1..Len(t) : u[i] = Sym(t[i], FEB, "comma", Len(t) - i) BY <2>1, <3>1, AsIs
    <3>3. Len(t) = 3 BY <1>1
    <3> QED BY <3>2, <3>3
  <2> QED BY <1>1, <2>2, <2>3, <2>4
<1>3. /\ w \in Seq(Symbol) /\ Len(w) = IF HasPayload(cmd) THEN 5 ELSE 1
      /\ w[1] = Sym(cmd, FEB, "command", 0)
      /\ HasPayload(cmd) => \A i \in 1..4 : w[1 + i] = Sym(p[i], FEB, "payload", 4 - i)
  BY CommandIs
<1>4. Frame(cmd, p) = u \o w
  BY DEF Frame, t
<1> HIDE DEF u, w
<1>5. /\ u \o w \in Seq(Symbol) /\ Len(u \o w) = Len(u) + Len(w)
      /\ \A i \in 1..Len(u) : (u \o w)[i] = u[i]
      /\ \A i \in 1..Len(w) : (u \o w)[Len(u) + i] = w[i]
  <2>0. u \in Seq(Symbol) /\ w \in Seq(Symbol) BY <1>2, <1>3
  <2>1. u \o w \in Seq(Symbol) BY <2>0, Joined
  <2>2. Len(u \o w) = Len(u) + Len(w) BY <2>0, Joined
  <2>3. \A i \in 1..Len(u) : (u \o w)[i] = u[i] BY <2>0, Joined
  <2>4. \A i \in 1..Len(w) : (u \o w)[Len(u) + i] = w[i] BY <2>0, Joined
  <2> QED BY <2>1, <2>2, <2>3, <2>4
<1>6. Len(u \o w) = IF HasPayload(cmd) THEN 8 ELSE 4
  BY <1>2, <1>3, <1>5
<1>7. (u \o w)[4] = Sym(cmd, FEB, "command", 0)
  <2>1. 1 \in 1..Len(w) /\ Len(u) + 1 = 4 BY <1>2, <1>3
  <2> QED BY <1>3, <1>5, <2>1
<1>8. HasPayload(cmd) => \A i \in 1..4 : (u \o w)[4 + i] = Sym(p[i], FEB, "payload", 4 - i)
  <2> SUFFICES ASSUME HasPayload(cmd), NEW i \in 1..4
               PROVE  (u \o w)[4 + i] = Sym(p[i], FEB, "payload", 4 - i)
    OBVIOUS
  <2>1. 1 + i \in 1..5 /\ 3 + (1 + i) = 4 + i OBVIOUS
  <2> QED BY <1>2, <1>3, <1>5, <2>1
<1> QED BY <1>2, <1>4, <1>5, <1>6, <1>7, <1>8

\* What is written for one board: its address in front.
AddressByte(g, left) == IF left = 2 THEN Address ELSE IF left = 1 THEN Addr[g][1] ELSE Addr[g][2]

LEMMA AddressedFrameIs ==
  ASSUME NEW cmd \in Byte, NEW p \in [1..4 -> Byte], NEW g \in FEB
  PROVE  /\ AddressedFrame(cmd, p, g) \in Seq(Symbol)
         /\ Len(AddressedFrame(cmd, p, g)) = IF HasPayload(cmd) THEN 8 ELSE 4
         /\ \A i \in 1..3 : AddressedFrame(cmd, p, g)[i] =
                              Sym(AddressByte(g, 3 - i), {g}, "address", 3 - i)
         /\ AddressedFrame(cmd, p, g)[4] = Sym(cmd, {g}, "command", 0)
<1> DEFINE t == <<Address>> \o Addr[g]
           u == As("address", {g}, t)
           w == Command({g}, cmd, p)
<1>1. /\ t \in Seq(Byte) /\ Len(t) = 3
      /\ t[1] = Address /\ t[2] = Addr[g][1] /\ t[3] = Addr[g][2]
  <2> DEFINE x == <<Address>>  y == Addr[g]
  <2>1. x \in Seq(Byte) /\ Len(x) = 1 /\ x[1] = Address BY LineAssumption
  <2>2. y \in Seq(Byte) /\ Len(y) = 2
    <3>1. y \in Byte \X Byte BY LineAssumption
    <3>2. PICK a \in Byte, b \in Byte : y = <<a, b>> BY <3>1
    <3>3. <<a, b>> \in Seq(Byte) /\ Len(<<a, b>>) = 2 OBVIOUS
    <3> QED BY <3>2, <3>3
  <2> HIDE DEF x, y
  <2>3. /\ x \o y \in Seq(Byte) /\ Len(x \o y) = Len(x) + Len(y)
        /\ \A i \in 1..Len(x) : (x \o y)[i] = x[i]
        /\ \A i \in 1..Len(y) : (x \o y)[Len(x) + i] = y[i]
    <3>0. x \in Seq(Byte) /\ y \in Seq(Byte) BY <2>1, <2>2
    <3>1. x \o y \in Seq(Byte) BY <3>0, Joined
    <3>2. Len(x \o y) = Len(x) + Len(y) BY <3>0, Joined
    <3>3. \A i \in 1..Len(x) : (x \o y)[i] = x[i] BY <3>0, Joined
    <3>4. \A i \in 1..Len(y) : (x \o y)[Len(x) + i] = y[i] BY <3>0, Joined
    <3> QED BY <3>1, <3>2, <3>3, <3>4
  <2>4. (x \o y)[1] = Address /\ (x \o y)[1 + 1] = y[1] /\ (x \o y)[1 + 2] = y[2]
    BY <2>1, <2>2, <2>3
  <2>5. 1 + 1 = 2 /\ 1 + 2 = 3 OBVIOUS
  <2> QED BY <2>1, <2>2, <2>3, <2>4, <2>5 DEF x, y
<1> HIDE DEF t
<1>2. u \in Seq(Symbol) /\ Len(u) = 3 /\ \A i \in 1..3 : u[i] = Sym(t[i], {g}, "address", 3 - i)
  BY <1>1, AsIs DEF Roles
<1>3. \A i \in 1..3 : t[i] = AddressByte(g, 3 - i)
  BY <1>1 DEF AddressByte
<1>4. /\ w \in Seq(Symbol) /\ Len(w) = IF HasPayload(cmd) THEN 5 ELSE 1
      /\ w[1] = Sym(cmd, {g}, "command", 0)
  BY CommandIs
<1>5. AddressedFrame(cmd, p, g) = u \o w
  BY DEF AddressedFrame, t
<1> HIDE DEF u, w
<1>6. /\ u \o w \in Seq(Symbol) /\ Len(u \o w) = Len(u) + Len(w)
      /\ \A i \in 1..Len(u) : (u \o w)[i] = u[i]
      /\ \A i \in 1..Len(w) : (u \o w)[Len(u) + i] = w[i]
  <2>0. u \in Seq(Symbol) /\ w \in Seq(Symbol) BY <1>2, <1>4
  <2>1. u \o w \in Seq(Symbol) BY <2>0, Joined
  <2>2. Len(u \o w) = Len(u) + Len(w) BY <2>0, Joined
  <2>3. \A i \in 1..Len(u) : (u \o w)[i] = u[i] BY <2>0, Joined
  <2>4. \A i \in 1..Len(w) : (u \o w)[Len(u) + i] = w[i] BY <2>0, Joined
  <2> QED BY <2>1, <2>2, <2>3, <2>4
<1>7. Len(u \o w) = IF HasPayload(cmd) THEN 8 ELSE 4
  BY <1>2, <1>4, <1>6
<1>8. (u \o w)[4] = Sym(cmd, {g}, "command", 0)
  <2>1. 1 \in 1..Len(w) /\ Len(u) + 1 = 4 BY <1>2, <1>4
  <2> QED BY <1>4, <1>6, <2>1
<1> QED BY <1>2, <1>3, <1>5, <1>6, <1>7, <1>8
-----------------------------------------------------------------------------
(***************************************************************************)
(* Types.  A run is requested and prepared only once its number is known.  *)
(***************************************************************************)
TypeInv ==
  /\ BoardsInv
  /\ CBTypeOK
  /\ midas # "stopped" => run > 0
  /\ \A s \in SWB : request[s] => run > 0

LEMMA CommandBytes ==
  /\ {Comma, RunPrepare, Sync, StartRun, EndRun, Address} \subseteq Byte
  /\ Zero \in [1..4 -> Byte]
  /\ \A r \in 1..MaxRuns : RunBytes[r] \in [1..4 -> Byte]
<1>1. 0 \in Byte BY ByteAssumption
<1>2. Zero \in [1..4 -> Byte] BY <1>1 DEF Zero
<1> QED BY <1>2, LineAssumption, RunAssumption

\* The sequences that are written, as sequences of symbols.
BeginFrames == Frame(RunPrepare, Zero) \o Frame(Sync, Zero) \o Frame(StartRun, Zero)

LEMMA WrittenTypes ==
  /\ run \in 1..MaxRuns => Frame(RunPrepare, RunBytes[run]) \in Seq(Symbol)
  /\ BeginFrames \in Seq(Symbol)
  /\ Frame(EndRun, Zero) \in Seq(Symbol)
<1>1. \A cmd \in Byte, p \in [1..4 -> Byte] : Frame(cmd, p) \in Seq(Symbol)
  BY FrameIs
<1>2. /\ Frame(RunPrepare, Zero) \in Seq(Symbol) /\ Frame(Sync, Zero) \in Seq(Symbol)
      /\ Frame(StartRun, Zero) \in Seq(Symbol) /\ Frame(EndRun, Zero) \in Seq(Symbol)
      /\ run \in 1..MaxRuns => Frame(RunPrepare, RunBytes[run]) \in Seq(Symbol)
  BY <1>1, CommandBytes
<1>3. Frame(RunPrepare, Zero) \o Frame(Sync, Zero) \in Seq(Symbol)
  BY <1>2, Joined
<1>4. BeginFrames \in Seq(Symbol)
  BY <1>2, <1>3, Joined DEF BeginFrames
<1> QED BY <1>2, <1>4

\* The actions that leave boards, line and disturbances alone.
Talks ==
  \/ StartTransition \/ StartCancelled
  \/ StopConfirmed \/ WaitForRunEnd \/ StopCancelled
  \/ \E s \in SWB : RequestRunPrepare(s) \/ RequestReturns(s)
  \/ \E f \in FEB : Acknowledge(f) \/ Terminate(f)
\* And those that write.
Writes ==
  \/ PrepareRunOnRequest \/ BeginOfRun \/ EndOfRun
  \/ \E cmd \in Buttons : Press(cmd)

LEMMA StepKinds ==
  ASSUME [CBNext]_vars
  PROVE  UNCHANGED vars \/ Talks \/ Writes \/ Tick \/ \E f \in FEB : LoseLink(f)
BY DEF CBNext, Talks, Writes

LEMMA SameBoards == ASSUME BoardsInv, board' = board PROVE BoardsInv'
BY DEF BoardsInv

LEMMA TalksTypes ==
  ASSUME TypeInv, Talks
  PROVE  TypeInv'
<1>0. UNCHANGED <<board, line, presses, losses>>
  BY DEF Talks, StartTransition, StartCancelled, StopConfirmed, WaitForRunEnd, StopCancelled,
         RequestRunPrepare, RequestReturns,
         Acknowledge, Terminate, sw_vars, ack_vars
<1>1. BoardsInv' BY <1>0, SameBoards DEF TypeInv
<1> USE DEF TypeInv, CBTypeOK
<1>2. \A f \in FEB : listener[f] \in Listener
  OBVIOUS
<1>3. CASE StartTransition
  <2>1. run' \in 0..MaxRuns /\ run' > 0
    BY <1>3, BoundAssumption DEF StartTransition
  <2> QED BY <1>0, <1>1, <1>3, <2>1 DEF StartTransition, ack_vars
<1>4. CASE StopConfirmed \/ WaitForRunEnd \/ StopCancelled
  BY <1>0, <1>1, <1>4 DEF StopConfirmed, WaitForRunEnd, StopCancelled, ack_vars
<1>5. ASSUME NEW s \in SWB, ResetListeners(s) PROVE listener' \in [FEB -> Listener]
  <2>1. 0 \in Byte BY ByteAssumption
  <2>2. ASSUME NEW f \in FEB
        PROVE  [listener[f] EXCEPT !.run_prep_acknowledge_received = FALSE,
                                   !.run_number = [i \in 1..3 |-> 0]] \in Listener
    BY <1>2, <2>1 DEF Listener
  <2> QED BY <1>2, <1>5, <2>2 DEF ResetListeners
<1>6. CASE StartCancelled
  <2>1. /\ midas' = "stopped" /\ listener' \in [FEB -> Listener]
        /\ UNCHANGED <<terminated, acked, run, request, asked, ready>>
    BY <1>5, <1>6 DEF StartCancelled
  <2> QED BY <1>0, <1>1, <2>1
<1>7. ASSUME NEW s \in SWB, RequestRunPrepare(s) PROVE TypeInv'
  <2>2. listener' \in [FEB -> Listener]
    BY <1>7, <1>5 DEF RequestRunPrepare
  <2>3. /\ request' \in [SWB -> BOOLEAN] /\ asked' \subseteq SWB
        /\ UNCHANGED <<terminated, acked, midas, run, ready>> /\ midas = "starting"
    BY <1>7 DEF RequestRunPrepare
  <2> QED BY <1>0, <1>1, <2>2, <2>3
<1>8. ASSUME NEW s \in SWB, RequestReturns(s) PROVE TypeInv'
  BY <1>0, <1>1, <1>8 DEF RequestReturns, ack_vars
<1>9. ASSUME NEW f \in FEB, Acknowledge(f) PROVE TypeInv'
  <2>1. \A i \in 1..3 : board[f].payload["PREP"][i] \in Byte
    BY DEF Controller, PayloadRegisters, PayloadState
  <2>2. [i \in 1..3 |-> board[f].payload["PREP"][i]] \in [1..3 -> Byte]
    BY <2>1
  <2>3. [run_prep_acknowledge_received |-> TRUE, end_of_run_received |-> FALSE,
         run_number |-> [i \in 1..3 |-> board[f].payload["PREP"][i]]] \in Listener
    BY <2>2 DEF Listener
  <2>4. listener' \in [FEB -> Listener]
    BY <1>9, <2>3 DEF Acknowledge
  <2>5. acked' \subseteq FEB /\ UNCHANGED <<terminated, sw_vars>>
    BY <1>9 DEF Acknowledge
  <2> QED BY <1>0, <1>1, <2>4, <2>5 DEF sw_vars
<1>10. ASSUME NEW f \in FEB, Terminate(f) PROVE TypeInv'
  <2>1. [listener[f] EXCEPT !.run_prep_acknowledge_received = FALSE,
                            !.end_of_run_received = TRUE] \in Listener
    BY <1>2 DEF Listener
  <2>2. listener' \in [FEB -> Listener]
    BY <1>10, <2>1 DEF Terminate
  <2>3. terminated' \subseteq FEB /\ UNCHANGED <<acked, sw_vars>>
    BY <1>10 DEF Terminate
  <2> QED BY <1>0, <1>1, <2>2, <2>3 DEF sw_vars
<1> QED BY <1>3, <1>4, <1>6, <1>7, <1>8, <1>9, <1>10 DEF Talks

LEMMA PressWrites ==
  ASSUME NEW cmd \in Buttons, Press(cmd), TypeInv
  PROVE  \E p \in [1..4 -> Byte] :
           \/ Write(Frame(cmd, p))
           \/ \E f \in FEB : Write(AddressedFrame(cmd, p, f))
<1>1. PICK p \in (IF cmd = RunPrepare /\ run > 0 THEN {RunBytes[run]} ELSE PayloadField) :
          \/ Write(Frame(cmd, p))
          \/ \E f \in FEB : Addr[f] # <<0, 0>> /\ Write(AddressedFrame(cmd, p, f))
  BY DEF Press
<1>2. run > 0 => RunBytes[run] \in [1..4 -> Byte]
  BY CommandBytes DEF TypeInv, CBTypeOK
<1>3. p \in [1..4 -> Byte] BY <1>2, RunAssumption
<1> QED BY <1>1, <1>3

LEMMA WritesTypes ==
  ASSUME TypeInv, Writes
  PROVE  TypeInv'
<1>0. UNCHANGED <<board, terminated, ack_vars, run, asked, ready, losses>>
  BY DEF Writes, PrepareRunOnRequest, BeginOfRun, EndOfRun, Press
<1>1. BoardsInv' BY <1>0, SameBoards DEF TypeInv
<1>2. line \in Seq(Symbol) BY DEF TypeInv, CBTypeOK
<1>3. \A q \in Seq(Symbol) : Write(q) => line' \in Seq(Symbol)
  BY <1>2, Joined DEF Write
<1>4. run > 0 => run \in 1..MaxRuns
  BY DEF TypeInv, CBTypeOK
<1>5. CASE PrepareRunOnRequest
  <2>1. line' \in Seq(Symbol)
    BY <1>3, <1>4, <1>5, WrittenTypes DEF PrepareRunOnRequest, TypeInv
  <2> QED BY <1>0, <1>1, <1>5, <2>1 DEF PrepareRunOnRequest, TypeInv, CBTypeOK, ack_vars
<1>6. CASE BeginOfRun
  <2>1. line' \in Seq(Symbol)
    BY <1>3, <1>6, WrittenTypes DEF BeginOfRun, BeginFrames
  <2> QED BY <1>0, <1>1, <1>6, <2>1 DEF BeginOfRun, TypeInv, CBTypeOK, ack_vars
<1>7. CASE EndOfRun
  <2>1. line' \in Seq(Symbol)
    BY <1>3, <1>7, WrittenTypes DEF EndOfRun
  <2> QED BY <1>0, <1>1, <1>7, <2>1 DEF EndOfRun, TypeInv, CBTypeOK, ack_vars
<1>8. ASSUME NEW cmd \in Buttons, Press(cmd) PROVE TypeInv'
  <2>1. PICK p \in [1..4 -> Byte] :
           \/ Write(Frame(cmd, p))
           \/ \E f \in FEB : Write(AddressedFrame(cmd, p, f))
    BY <1>8, PressWrites
  <2>2. cmd \in Byte BY LineAssumption
  <2>3. /\ Frame(cmd, p) \in Seq(Symbol)
        /\ \A f \in FEB : AddressedFrame(cmd, p, f) \in Seq(Symbol)
    BY <2>2, FrameIs, AddressedFrameIs
  <2>4. line' \in Seq(Symbol)
    BY <1>3, <2>1, <2>3
  <2>5. /\ <<presses', losses'>> \in Disturbances \cup {<<0, 0>>}
        /\ UNCHANGED <<request, midas>>
    BY <1>8, <1>0 DEF Press
  <2> QED BY <1>0, <1>1, <2>4, <2>5 DEF TypeInv, CBTypeOK, ack_vars
<1> QED BY <1>5, <1>6, <1>7, <1>8 DEF Writes

\* The symbol that is read: an idle line is commas.
Idle == Sym(Comma, FEB, "comma", 0)
Now == IF line = <<>> THEN Idle ELSE Head(line)

LEMMA NowType == ASSUME line \in Seq(Symbol) PROVE Now \in Symbol
<1>1. Idle \in Symbol BY CommandBytes DEF Idle, Sym, Symbol
<1>2. line # <<>> => Head(line) \in Symbol BY HeadTailProperties
<1> QED BY <1>1, <1>2 DEF Now

LEMMA TickIs ==
  ASSUME Tick
  PROVE  /\ Clock([f \in FEB |-> Now.byte], [f \in FEB |-> f \in terminated])
         /\ \A f \in FEB : board'[f] = Clocked(board[f], Addr[f], Now.byte, f \in terminated)
<1>1. [f \in FEB |-> IF line = <<>> THEN Comma ELSE Head(line).byte] = [f \in FEB |-> Now.byte]
  BY DEF Now, Idle, Sym
<1>2. Clock([f \in FEB |-> Now.byte], [f \in FEB |-> f \in terminated])
  BY <1>1 DEF Tick
<1> QED BY <1>2 DEF Clock

LEMMA TickTypes ==
  ASSUME TypeInv, Tick
  PROVE  TypeInv'
<1>1. line \in Seq(Symbol) BY DEF TypeInv, CBTypeOK
<1>2. Now.byte \in Byte BY <1>1, NowType DEF Symbol
<1>3. /\ [f \in FEB |-> Now.byte] \in [FEB -> Byte]
      /\ [f \in FEB |-> f \in terminated] \in [FEB -> BOOLEAN]
  BY <1>2
<1>4. BoardsInv'
  BY <1>3, TickIs, ClockInv DEF TypeInv
<1>5. line' \in Seq(Symbol)
  <2>1. line # <<>> => Tail(line) \in Seq(Symbol) BY <1>1, HeadTailProperties
  <2> QED BY <1>1, <2>1 DEF Tick
<1>6. terminated' \subseteq FEB /\ acked' \subseteq FEB /\ UNCHANGED <<listener, sw_vars, losses>>
  BY DEF Tick, TypeInv, CBTypeOK
<1> QED BY <1>4, <1>5, <1>6 DEF TypeInv, CBTypeOK, BoardsInv, sw_vars

LEMMA LoseLinkTypes ==
  ASSUME TypeInv, NEW f \in FEB, LoseLink(f)
  PROVE  TypeInv'
<1>1. BoardsInv' BY ResetInv DEF TypeInv, LoseLink
<1>2. /\ UNCHANGED <<terminated, line, ack_vars, sw_vars>>
      /\ <<presses', losses'>> \in Disturbances \cup {<<0, 0>>}
  BY DEF LoseLink, sw_vars
<1> QED BY <1>1, <1>2 DEF TypeInv, CBTypeOK, BoardsInv, sw_vars, ack_vars

LEMMA InitTypes == ASSUME CBInit PROVE TypeInv
<1>1. BoardsInv BY InitInv DEF CBInit
<1>2. 0 \in Byte BY ByteAssumption
<1>3. [run_prep_acknowledge_received |-> FALSE, end_of_run_received |-> FALSE,
       run_number |-> [i \in 1..3 |-> 0]] \in Listener
  BY <1>2 DEF Listener
<1>4. listener \in [FEB -> Listener] BY <1>3 DEF CBInit
<1>5. line \in Seq(Symbol) BY DEF CBInit
<1>6. run \in 0..MaxRuns BY BoundAssumption DEF CBInit
<1> QED BY <1>1, <1>4, <1>5, <1>6 DEF CBInit, TypeInv, CBTypeOK, BoardsInv

LEMMA TypeStep == TypeInv /\ [CBNext]_vars => TypeInv'
<1> SUFFICES ASSUME TypeInv, [CBNext]_vars PROVE TypeInv' OBVIOUS
<1>1. CASE UNCHANGED vars
  BY <1>1, SameBoards DEF TypeInv, CBTypeOK, vars, sw_vars, ack_vars
<1> QED BY <1>1, StepKinds, TalksTypes, WritesTypes, TickTypes, LoseLinkTypes

(* All registers, the line and what the switching boards remember keep     *)
(* their types, whatever an operator presses and however links are lost;   *)
(* what is written are whole symbols of the protocol.                      *)
THEOREM SystemTypeCorrect == CBSpec => []CBTypeOK
<1>1. CBInit => TypeInv BY InitTypes
<1>2. TypeInv /\ [CBNext]_vars => TypeInv' BY TypeStep
<1>3. TypeInv => CBTypeOK BY DEF TypeInv
<1> QED BY <1>1, <1>2, <1>3, PTL DEF CBSpec
-----------------------------------------------------------------------------
(***************************************************************************)
(* The line: what a symbol is, and which symbols follow each other.        *)
(***************************************************************************)
Commands == {RunPrepare, Sync, StartRun, EndRun, AbortRun}
IsComma(x) == x.role = "comma" /\ x.byte = Comma /\ x.to = FEB /\ x.left \in 0..2
IsCommand(x) ==
  /\ x.role = "command" /\ x.byte \in Commands /\ x.left = 0
  /\ x.to = FEB \/ (x.byte = AbortRun /\ \E g \in FEB : x.to = {g})
IsPayload(x) == x.role = "payload" /\ x.to = FEB /\ x.left \in 0..3
IsAddress(x) ==
  /\ x.role = "address" /\ x.left \in 0..2
  /\ \E g \in FEB : x.to = {g} /\ x.byte = AddressByte(g, x.left)
IsSymbol(x) == IsComma(x) \/ IsCommand(x) \/ IsPayload(x) \/ IsAddress(x)

\* The first and the last symbol of a frame.
Opens(x) == x.left = 2 /\ x.role \in {"comma", "address"}
Closes(x) == x.left = 0 /\ (x.role = "payload" \/ (x.role = "command" /\ x.byte # RunPrepare))
Follows(x, y) ==
  /\ x.left > 0 => y.role = x.role /\ y.to = x.to /\ y.left = x.left - 1
  /\ x.left = 0 /\ x.role = "comma" => y.role = "command" /\ y.to = FEB
  /\ x.left = 0 /\ x.role = "address" => y.role = "command" /\ y.to = x.to /\ y.byte = AbortRun
  /\ x.role = "command" /\ x.byte = RunPrepare => y.role = "payload" /\ y.left = 3
  /\ Closes(x) => Opens(y)
Shaped(q) ==
  /\ \A i \in 1..Len(q) : IsSymbol(q[i])
  /\ \A i \in 1..(Len(q) - 1) : Follows(q[i], q[i + 1])
  /\ Len(q) > 0 => Closes(q[Len(q)])

LEMMA ShapedJoin ==
  ASSUME NEW p \in Seq(Symbol), NEW q \in Seq(Symbol), Shaped(p), Shaped(q),
         Len(q) > 0, Opens(q[1]), NEW r, r = p \o q
  PROVE  Shaped(r)
<1>1. p \o q \in Seq(Symbol) BY Joined
<1>2. Len(p \o q) = Len(p) + Len(q) BY Joined
<1>3. \A i \in 1..Len(p) : (p \o q)[i] = p[i] BY Joined
<1>4. \A i \in 1..Len(q) : (p \o q)[Len(p) + i] = q[i] BY Joined
<1> DEFINE m == Len(p)  n == Len(q)
<1>5. m \in Nat /\ n \in Nat BY LenProperties
<1>6. /\ Len(r) = m + n /\ \A i \in 1..m : r[i] = p[i]
      /\ \A i \in 1..n : r[m + i] = q[i]
  BY <1>2, <1>3, <1>4
<1>7. /\ \A i \in 1..m : IsSymbol(p[i])
      /\ \A i \in 1..(m - 1) : Follows(p[i], p[i + 1])
      /\ m > 0 => Closes(p[m])
      /\ \A i \in 1..n : IsSymbol(q[i])
      /\ \A i \in 1..(n - 1) : Follows(q[i], q[i + 1])
      /\ Closes(q[n]) /\ n > 0
  BY DEF Shaped
<1> HIDE DEF m, n
<1>8. ASSUME NEW i \in 1..(m + n) PROVE IsSymbol(r[i])
  <2>1. CASE i <= m
    <3>1. i \in 1..m BY <1>5, <2>1
    <3> QED BY <1>6, <1>7, <3>1
  <2>2. CASE i > m
    <3>1. PICK j \in 1..n : i = m + j
      <4>1. i - m \in 1..n /\ i = m + (i - m) BY <1>5, <2>2
      <4> QED BY <4>1
    <3> QED BY <1>6, <1>7, <3>1
  <2>3. i <= m \/ i > m BY <1>5
  <2> QED BY <2>1, <2>2, <2>3
<1>9. ASSUME NEW i \in 1..(m + n - 1) PROVE Follows(r[i], r[i + 1])
  <2>1. CASE i < m
    <3>1. i \in 1..m /\ i + 1 \in 1..m /\ i \in 1..(m - 1) BY <1>5, <2>1
    <3> QED BY <1>6, <1>7, <3>1
  <2>2. CASE i = m
    <3>1. m \in 1..m /\ 1 \in 1..n /\ m > 0 BY <1>5, <1>7, <2>2
    <3>2. r[i] = p[m] /\ r[i + 1] = q[1] BY <1>6, <2>2, <3>1
    <3>3. IsSymbol(p[m]) /\ Closes(p[m]) BY <1>7, <3>1
    <3>4. Follows(p[m], q[1])
      BY <3>3 DEF Follows, Closes, IsSymbol, IsComma, IsCommand, IsPayload, IsAddress
    <3> QED BY <3>2, <3>4
  <2>3. CASE i > m
    <3>1. PICK j \in 1..(n - 1) : i = m + j
      <4>1. i - m \in 1..(n - 1) /\ i = m + (i - m) BY <1>5, <2>3
      <4> QED BY <4>1
    <3>2. j \in 1..n /\ j + 1 \in 1..n /\ i + 1 = m + (j + 1) BY <1>5, <3>1
    <3> QED BY <1>6, <1>7, <3>1, <3>2
  <2>4. i < m \/ i = m \/ i > m BY <1>5
  <2> QED BY <2>1, <2>2, <2>3, <2>4
<1>10. Closes(r[m + n])
  <2>1. n \in 1..n BY <1>5, <1>7
  <2> QED BY <1>6, <1>7, <2>1
<1>11. \A i \in 1..Len(r) : IsSymbol(r[i]) BY <1>6, <1>8
<1>12. \A i \in 1..(Len(r) - 1) : Follows(r[i], r[i + 1])
  <2>1. Len(r) = m + n BY <1>6
  <2>2. Len(r) - 1 = m + n - 1 BY <1>5, <2>1
  <2> QED BY <1>9, <2>2
<1>13. Closes(r[Len(r)]) BY <1>6, <1>10
<1> QED BY <1>11, <1>12, <1>13 DEF Shaped

\* The frames of the run are of this shape.
LEMMA ShapedFrame ==
  ASSUME NEW cmd \in Commands, cmd \in Byte, NEW p \in [1..4 -> Byte],
         NEW q, q = Frame(cmd, p)
  PROVE  /\ q \in Seq(Symbol) /\ Shaped(q) /\ Opens(q[1])
         /\ Len(q) = IF cmd = RunPrepare THEN 8 ELSE 4
         /\ \A i \in 1..3 : q[i] = Sym(Comma, FEB, "comma", 3 - i)
         /\ q[4] = Sym(cmd, FEB, "command", 0)
         /\ \A i \in 5..Len(q) : q[i] = Sym(p[i - 4], FEB, "payload", 8 - i)
<1>1. HasPayload(cmd) <=> cmd = RunPrepare
  BY DEF Commands, HasPayload, RunPrepare, Sync, StartRun, EndRun, AbortRun,
     StartLinkTest, StartSyncTest, TestSync, Reset, StopReset, Address
<1>2. /\ q \in Seq(Symbol) /\ Len(q) = IF cmd = RunPrepare THEN 8 ELSE 4
      /\ \A i \in 1..3 : q[i] = Sym(Comma, FEB, "comma", 3 - i)
      /\ q[4] = Sym(cmd, FEB, "command", 0)
      /\ cmd = RunPrepare => \A i \in 1..4 : q[4 + i] = Sym(p[i], FEB, "payload", 4 - i)
  BY <1>1, FrameIs
<1>3. ASSUME NEW i \in 5..Len(q) PROVE q[i] = Sym(p[i - 4], FEB, "payload", 8 - i)
  <2>1. cmd = RunPrepare /\ i \in 5..8 BY <1>2, <1>3
  <2>2. i - 4 \in 1..4 /\ 4 + (i - 4) = i /\ 4 - (i - 4) = 8 - i BY <2>1
  <2> QED BY <1>2, <2>1, <2>2
<1>4. ASSUME NEW i \in 1..3 PROVE IsComma(q[i]) /\ q[i].left = 3 - i
  BY <1>2 DEF IsComma, Sym
<1>5. IsCommand(q[4]) /\ q[4].byte = cmd /\ q[4].to = FEB
  BY <1>2 DEF IsCommand, Sym
<1>6. ASSUME NEW i \in 5..Len(q) PROVE IsPayload(q[i]) /\ q[i].left = 8 - i
  <2>1. i \in 5..8 BY <1>2
  <2>2. 8 - i \in 0..3 BY <2>1
  <2>3. q[i] = Sym(p[i - 4], FEB, "payload", 8 - i) BY <1>3
  <2>4. /\ q[i].role = "payload" /\ q[i].to = FEB /\ q[i].left = 8 - i
    BY <2>3 DEF Sym
  <2> QED BY <2>2, <2>4 DEF IsPayload
<1>7. Opens(q[1])
  BY <1>4 DEF Opens, IsComma
<1>8. \A i \in 1..Len(q) : IsSymbol(q[i])
  <2>1. \A i \in 1..Len(q) : i \in 1..3 \/ i = 4 \/ i \in 5..Len(q) BY <1>2
  <2> QED BY <1>4, <1>5, <1>6, <2>1 DEF IsSymbol
<1>9. ASSUME NEW i \in 1..(Len(q) - 1) PROVE Follows(q[i], q[i + 1])
  <2>1. CASE i \in 1..2
    <3>1. i + 1 \in 1..3 /\ i \in 1..3 BY <2>1
    <3>2. 3 - i > 0 /\ 3 - (i + 1) = (3 - i) - 1 BY <2>1
    <3> QED BY <1>4, <3>1, <3>2 DEF Follows, IsComma, Closes
  <2>2. CASE i = 3
    BY <1>4, <1>5, <2>2 DEF Follows, IsComma, IsCommand, Closes
  <2>3. CASE i = 4
    <3>1. cmd = RunPrepare /\ 5 \in 5..Len(q) BY <1>2, <2>3
    <3> QED BY <1>5, <1>6, <2>3, <3>1 DEF Follows, IsCommand, IsPayload, Closes
  <2>4. CASE i > 4
    <3>1. i \in 5..Len(q) /\ i + 1 \in 5..Len(q) /\ i \in 5..7 BY <1>2, <2>4
    <3>2. 8 - i > 0 /\ 8 - (i + 1) = (8 - i) - 1 BY <3>1
    <3> QED BY <1>6, <3>1, <3>2 DEF Follows, IsPayload, Closes
  <2> QED BY <1>2, <2>1, <2>2, <2>3, <2>4
<1>10. Closes(q[Len(q)])
  <2>1. CASE cmd = RunPrepare
    <3>1. Len(q) = 8 /\ 8 \in 5..Len(q) BY <1>2, <2>1
    <3> QED BY <1>6, <3>1 DEF Closes, IsPayload
  <2>2. CASE cmd # RunPrepare
    BY <1>2, <1>5, <2>2 DEF Closes, IsCommand
  <2> QED BY <2>1, <2>2
<1> QED BY <1>2, <1>3, <1>7, <1>8, <1>9, <1>10 DEF Shaped

LEMMA ShapedAddressed ==
  ASSUME AbortRun \in Byte, NEW p \in [1..4 -> Byte], NEW g \in FEB,
         NEW q, q = AddressedFrame(AbortRun, p, g)
  PROVE  /\ q \in Seq(Symbol) /\ Shaped(q) /\ Opens(q[1]) /\ Len(q) = 4
         /\ \A i \in 1..3 : q[i] = Sym(AddressByte(g, 3 - i), {g}, "address", 3 - i)
         /\ q[4] = Sym(AbortRun, {g}, "command", 0)
<1>1. ~HasPayload(AbortRun) /\ AbortRun # RunPrepare
  BY DEF HasPayload, RunPrepare, AbortRun, StartLinkTest, StartSyncTest, TestSync, Reset,
     StopReset, Address
<1>2. /\ q \in Seq(Symbol) /\ Len(q) = 4
      /\ \A i \in 1..3 : q[i] = Sym(AddressByte(g, 3 - i), {g}, "address", 3 - i)
      /\ q[4] = Sym(AbortRun, {g}, "command", 0)
  BY <1>1, AddressedFrameIs
<1>4. ASSUME NEW i \in 1..3
      PROVE  IsAddress(q[i]) /\ q[i].role = "address" /\ q[i].left = 3 - i /\ q[i].to = {g}
  <2>1. 3 - i \in 0..2 OBVIOUS
  <2> QED BY <1>2, <2>1 DEF IsAddress, Sym
<1>5. IsCommand(q[4]) /\ q[4].role = "command" /\ q[4].byte = AbortRun /\ q[4].to = {g}
  BY <1>2 DEF IsCommand, Sym, Commands
<1>7. Opens(q[1])
  BY <1>4 DEF Opens, IsAddress
<1>8. \A i \in 1..Len(q) : IsSymbol(q[i])
  <2>1. \A i \in 1..Len(q) : i \in 1..3 \/ i = 4 BY <1>2
  <2> QED BY <1>4, <1>5, <2>1 DEF IsSymbol
<1>9. ASSUME NEW i \in 1..(Len(q) - 1) PROVE Follows(q[i], q[i + 1])
  <2>1. CASE i \in 1..2
    <3>1. i + 1 \in 1..3 /\ i \in 1..3 BY <2>1
    <3>2. 3 - i > 0 /\ 3 - (i + 1) = (3 - i) - 1 BY <2>1
    <3>3. /\ q[i].role = "address" /\ q[i].left = 3 - i /\ q[i].to = {g}
          /\ q[i + 1].role = "address" /\ q[i + 1].left = 3 - (i + 1) /\ q[i + 1].to = {g}
      BY <1>4, <3>1
    <3> QED BY <3>2, <3>3 DEF Follows, Closes
  <2>2. CASE i = 3
    <3>1. 3 \in 1..3 /\ 3 - 3 = 0 /\ 3 + 1 = 4 OBVIOUS
    <3>2. q[3].role = "address" /\ q[3].left = 0 /\ q[3].to = {g} BY <1>4, <3>1
    <3>3. Follows(q[3], q[4]) BY <1>5, <3>2 DEF Follows, Closes
    <3> QED BY <2>2, <3>1, <3>3
  <2> QED BY <1>2, <2>1, <2>2
<1>10. Closes(q[Len(q)])
  BY <1>1, <1>2, <1>5 DEF Closes, IsCommand
<1> QED BY <1>2, <1>7, <1>8, <1>9, <1>10 DEF Shaped
-----------------------------------------------------------------------------
(***************************************************************************)
(* What a board makes of a symbol, if its address process is where the     *)
(* symbol expects it.                                                      *)
(***************************************************************************)
Running == {"IDLE"} \cup InRun
RunNext(s, b, term) ==
  IF s = "TERMINATING" /\ term THEN "IDLE"
  ELSE IF b = AbortRun THEN "IDLE"
  ELSE IF s = "IDLE" /\ b = RunPrepare THEN "PREP"
  ELSE IF s = "PREP" /\ b = Sync THEN "SYNC"
  ELSE IF s = "SYNC" /\ b = StartRun THEN "RUNNING"
  ELSE IF s = "RUNNING" /\ b = EndRun THEN "TERMINATING"
  ELSE s

LEMMA RunNextIs ==
  ASSUME NEW s \in Running, NEW b \in Commands \cup {0, Comma}, NEW term \in BOOLEAN
  PROVE  /\ NextState(s, b, term) = RunNext(s, b, term)
         /\ Accepted(s, b, term) /\ PayloadBytes(b) > 0 <=> s = "IDLE" /\ b = RunPrepare
         /\ b \in {0, Comma} => ~Accepted(s, b, term)
         /\ PayloadBytes(RunPrepare) = 4
<1>1. s \in {"IDLE", "RESET"} \cup InRun /\ b \in RunBytesOnly
  BY DEF Running, Commands, RunBytesOnly
<1>2. /\ s = "TERMINATING" /\ term => NextState(s, b, term) = "IDLE" /\ ~Accepted(s, b, term)
      /\ ~(s = "TERMINATING" /\ term) =>
           /\ \A t \in RunState : <<s, b, t>> \in RunStep =>
                NextState(s, b, term) = t /\ Accepted(s, b, term)
           /\ (\A t \in RunState : <<s, b, t>> \notin RunStep) =>
                NextState(s, b, term) = s /\ ~Accepted(s, b, term)
  BY <1>1, RunDecoded
<1>3. /\ \A t \in RunState : <<s, b, t>> \in RunStep =>
           s # "TERMINATING" \/ b = AbortRun
      /\ RunNext(s, b, FALSE) \in RunState
      /\ <<s, b, RunNext(s, b, FALSE)>> \in RunStep
           \/ (RunNext(s, b, FALSE) = s /\ \A t \in RunState : <<s, b, t>> \notin RunStep)
  BY DEF Running, InRun, RunState, RunStep, RunNext, Commands, RunPrepare, Sync, StartRun, EndRun,
         AbortRun, Reset, StopReset, Comma
<1>4. NextState(s, b, term) = RunNext(s, b, term)
  BY <1>2, <1>3 DEF RunNext
<1>5. /\ PayloadBytes(RunPrepare) = 4
      /\ b # RunPrepare => PayloadBytes(b) = 0
  BY DEF PayloadBytes, Commands, RunPrepare, Sync, StartRun, EndRun, AbortRun, Reset,
         StartLinkTest, StartSyncTest, Comma
<1>6. b = RunPrepare /\ s = "IDLE" => Accepted(s, b, term)
  <2>1. <<"IDLE", RunPrepare, "PREP">> \in RunStep /\ "PREP" \in RunState
    BY DEF RunStep, RunState
  <2> QED BY <1>2, <2>1
<1>7. b = RunPrepare /\ s # "IDLE" => ~Accepted(s, b, term)
  <2>1. s # "IDLE" => \A t \in RunState : <<s, RunPrepare, t>> \notin RunStep
    BY DEF RunStep, RunPrepare, Sync, StartRun, EndRun, AbortRun, Reset, StopReset
  <2> QED BY <1>2, <2>1
<1>8. b \in {0, Comma} => ~Accepted(s, b, term)
  <2>1. b \in {0, Comma} => \A t \in RunState : <<s, b, t>> \notin RunStep
    BY DEF RunStep, RunPrepare, Sync, StartRun, EndRun, AbortRun, Reset, StopReset, Comma
  <2> QED BY <1>2, <2>1
<1> QED BY <1>4, <1>5, <1>6, <1>7, <1>8

Deaf(c) == ~c.addressed /\ ~c.ignoring_signals /\ ~c.recieving_payload
Hears(c, f, x) ==
  /\ c.recieving_payload => x.role = "payload" /\ c.payload_byte_counter = x.left + 1
  /\ x.role \in {"comma", "payload"} \/ Opens(x) \/ (x.role = "command" /\ f \in x.to)
       => Listens(c)
  /\ x.role = "command" /\ f \notin x.to
       => Deaf(c) /\ ~c.recieving_address /\ c.address_counter = 0
  /\ x.role = "address" /\ x.left < 2 =>
       /\ Deaf(c) /\ c.recieving_address /\ c.address_counter = x.left + 1
       /\ x.left = 1 => ~c.address_part1_match
       /\ x.left = 0 => (c.address_part1_match <=> \E g \in x.to : Addr[f][1] = Addr[g][1])

Took(c, d, x, f, term) ==
  /\ c.recieving_payload =>
       /\ d.state = c.state /\ d.o_state = c.o_state
       /\ d.recieving_payload <=> c.payload_byte_counter # 1
       /\ d.payload_byte_counter = c.payload_byte_counter - 1
       /\ d.payload = [c.payload EXCEPT ![c.state][c.payload_byte_counter] = x.byte]
  /\ ~c.recieving_payload =>
       /\ d.o_state = c.state /\ d.payload = c.payload
       /\ IF x.role = "command" /\ f \in x.to
          THEN d.state = RunNext(c.state, x.byte, term)
          ELSE d.state = c.state \/ (c.state = "TERMINATING" /\ term /\ d.state = "IDLE")
       /\ x.role = "comma" /\ c.state = "TERMINATING" /\ term => d.state = "IDLE"
       /\ d.recieving_payload
            <=> x.role = "command" /\ f \in x.to /\ x.byte = RunPrepare /\ c.state = "IDLE"
       /\ d.recieving_payload => d.payload_byte_counter = 4

\* A symbol that a listening board decodes.
LEMMA TakesDecoded ==
  ASSUME NEW c \in Controller, Listens(c), ~c.recieving_payload, c.state \in Running,
         NEW f \in FEB, NEW x, x.byte \in Byte, x.byte \in Commands \cup {0, Comma},
         x.role \in {"comma", "payload"} => x.byte \in {0, Comma},
         x.role = "command" => f \in x.to, x.role # "address",
         x.role \in {"comma", "payload", "command"},
         NEW term \in BOOLEAN, NEW d, d = Clocked(c, Addr[f], x.byte, term)
  PROVE  /\ Listens(d) /\ Took(c, d, x, f, term)
<1> DEFINE b == x.byte
<1>1. b # Address
  BY DEF Commands, RunPrepare, Sync, StartRun, EndRun, AbortRun, Comma, Address
<1>2. /\ Listens(d)
      /\ d.o_state = c.state /\ d.payload = c.payload
      /\ d.state = NextState(c.state, b, term)
      /\ d.recieving_payload => Accepted(c.state, b, term) /\ PayloadBytes(b) > 0
      /\ Accepted(c.state, b, term) /\ PayloadBytes(b) > 0 => d.recieving_payload
      /\ d.recieving_payload => d.payload_byte_counter = PayloadBytes(b)
  BY <1>1, DecodesStep
<1>3. /\ d.state = RunNext(c.state, b, term)
      /\ d.recieving_payload <=> c.state = "IDLE" /\ b = RunPrepare
      /\ d.recieving_payload => d.payload_byte_counter = 4
  BY <1>2, RunNextIs
<1>4. b \in {0, Comma} => b # AbortRun /\ b # RunPrepare /\ b # Sync /\ b # StartRun /\ b # EndRun
  BY DEF RunPrepare, Sync, StartRun, EndRun, AbortRun, Comma
<1>5. x.role # "command" =>
        /\ ~d.recieving_payload
        /\ d.state = IF c.state = "TERMINATING" /\ term THEN "IDLE" ELSE c.state
  BY <1>3, <1>4 DEF RunNext
<1> HIDE DEF b
<1> QED BY <1>2, <1>3, <1>5 DEF Took, b

\* Clocked, taken apart.
LEMMA ClockedIs ==
  ASSUME NEW c \in Controller, ~c.recieving_payload, NEW addr, NEW b, NEW term,
         NEW d, d = Clocked(c, addr, b, term),
         NEW t, t = TransitionProcess(c, b, term), NEW a, a = AddressProcess(c, addr, b)
  PROVE  /\ d.state = t.state /\ d.payload = c.payload
         /\ d.recieving_payload <=> t.recieving_payload
         /\ d.o_state = c.state
         /\ d.addressed <=> a.addressed
         /\ d.address_part1_match <=> a.address_part1_match
         /\ d.recieving_address <=> a.recieving_address
         /\ d.address_counter = a.address_counter
         /\ d.ignoring_signals <=> a.ignoring_signals
         /\ ~c.addressed => d.state = c.state /\ ~d.recieving_payload
<1>1. t.payload = c.payload
  BY DEF TransitionProcess, TakeCommand, Controller
<1>2. ~c.addressed => t = c
  BY DEF TransitionProcess
<1> QED BY <1>1, <1>2 DEF Clocked

\* The bytes of an address, and a command for another board.
LEMMA TakesAddressByte ==
  ASSUME NEW c \in Controller, c.state \in Running, NEW addr, Listens(c), ~c.recieving_payload,
         NEW b, b = Address, NEW term, NEW d, d = Clocked(c, addr, b, term)
  PROVE  /\ d.o_state = c.state /\ d.payload = c.payload /\ ~d.recieving_payload
         /\ d.state = c.state \/ (c.state = "TERMINATING" /\ term /\ d.state = "IDLE")
         /\ Deaf(d) /\ d.recieving_address /\ d.address_counter = 2 /\ ~d.address_part1_match
<1>1. PICK t : t = TransitionProcess(c, b, term) OBVIOUS
<1>2. PICK a : a = AddressProcess(c, addr, b) OBVIOUS
<1>3. /\ ~t.recieving_payload
      /\ t.state = c.state \/ (c.state = "TERMINATING" /\ term /\ t.state = "IDLE")
  <2>1. \A s \in RunState : <<c.state, Address, s>> \notin Goto
    BY DEF Goto, CommonGoto, FullGoto, Address, RunPrepare, Sync, StartRun, EndRun, AbortRun,
           StartLinkTest, StopLinkTest, StartSyncTest, StopSyncTest, Reset, StopReset, Enable, Disable
  <2>2. ~Accepted(c.state, b, term) BY <2>1 DEF Accepted
  <2>3. NextState(c.state, b, term) = c.state
          \/ (c.state = "TERMINATING" /\ term /\ NextState(c.state, b, term) = "IDLE")
    BY <2>2 DEF NextState, Otherwise, Running, InRun
  <2> DEFINE n == IF Accepted(c.state, b, term) THEN PayloadBytes(b) ELSE 0
  <2>4. t = [c EXCEPT !.state = NextState(c.state, b, term), !.recieving_payload = n > 0,
                      !.payload_byte_counter = IF n > 0 THEN n ELSE c.payload_byte_counter]
    BY <1>1 DEF TransitionProcess, TakeCommand, Listens
  <2>6. ~(n > 0) BY <2>2
  <2> HIDE DEF n
  <2>5. t.state = NextState(c.state, b, term) /\ ~t.recieving_payload
    BY <2>4, <2>6 DEF Controller
  <2> QED BY <2>3, <2>5
<1>4. /\ ~a.addressed /\ ~a.ignoring_signals /\ a.recieving_address
      /\ a.address_counter = 2 /\ ~a.address_part1_match
  BY <1>2 DEF AddressProcess, StartAddress, IsAddressByte, Listens, Controller
<1> QED BY <1>1, <1>2, <1>3, <1>4, ClockedIs DEF Deaf

LEMMA TakesHighByte ==
  ASSUME NEW c \in Controller, NEW addr, Deaf(c), c.recieving_address, c.address_counter = 2,
         NEW b, NEW term, NEW d, d = Clocked(c, addr, b, term)
  PROVE  /\ d.o_state = c.state /\ d.payload = c.payload
         /\ d.state = c.state /\ ~d.recieving_payload
         /\ Deaf(d) /\ d.recieving_address /\ d.address_counter = 1
         /\ d.address_part1_match <=> c.address_part1_match \/ b = addr[1]
<1>1. PICK t : t = TransitionProcess(c, b, term) OBVIOUS
<1>2. PICK a : a = AddressProcess(c, addr, b) OBVIOUS
<1>3. /\ ~a.addressed /\ ~a.ignoring_signals /\ a.recieving_address
      /\ a.address_counter = 1
      /\ a.address_part1_match <=> c.address_part1_match \/ b = addr[1]
  BY <1>2 DEF AddressProcess, TakeAddress, Deaf, Controller
<1>5. ~c.addressed /\ ~c.recieving_payload BY DEF Deaf
<1>6. /\ d.state = c.state /\ d.payload = c.payload /\ ~d.recieving_payload
      /\ d.o_state = c.state
      /\ d.addressed <=> a.addressed
      /\ d.address_part1_match <=> a.address_part1_match
      /\ d.recieving_address <=> a.recieving_address
      /\ d.address_counter = a.address_counter
      /\ d.ignoring_signals <=> a.ignoring_signals
  BY <1>1, <1>2, <1>5, ClockedIs
<1> QED BY <1>3, <1>6 DEF Deaf

LEMMA TakesLowByte ==
  ASSUME NEW c \in Controller, NEW addr, Deaf(c), c.recieving_address, c.address_counter = 1,
         NEW b, NEW term, NEW d, d = Clocked(c, addr, b, term)
  PROVE  /\ d.o_state = c.state /\ d.payload = c.payload
         /\ d.state = c.state /\ ~d.recieving_payload
         /\ ~d.recieving_address /\ d.address_counter = 0 /\ ~d.ignoring_signals
         /\ d.addressed <=> b = addr[2] /\ c.address_part1_match
<1>1. PICK t : t = TransitionProcess(c, b, term) OBVIOUS
<1>2. PICK a : a = AddressProcess(c, addr, b) OBVIOUS
<1>3. /\ ~a.recieving_address /\ a.address_counter = 0 /\ ~a.ignoring_signals
      /\ a.addressed <=> b = addr[2] /\ c.address_part1_match
  BY <1>2 DEF AddressProcess, TakeAddress, Deaf, Controller
<1>5. ~c.addressed /\ ~c.recieving_payload BY DEF Deaf
<1>6. /\ d.state = c.state /\ d.payload = c.payload /\ ~d.recieving_payload
      /\ d.o_state = c.state
      /\ d.addressed <=> a.addressed
      /\ d.address_part1_match <=> a.address_part1_match
      /\ d.recieving_address <=> a.recieving_address
      /\ d.address_counter = a.address_counter
      /\ d.ignoring_signals <=> a.ignoring_signals
  BY <1>1, <1>2, <1>5, ClockedIs
<1> QED BY <1>3, <1>6 DEF Deaf

LEMMA TakesForeign ==
  ASSUME NEW c \in Controller, NEW addr, Deaf(c), ~c.recieving_address, c.address_counter = 0,
         NEW b, b = AbortRun, NEW term, NEW d, d = Clocked(c, addr, b, term)
  PROVE  /\ d.o_state = c.state /\ d.payload = c.payload
         /\ d.state = c.state /\ ~d.recieving_payload /\ Listens(d)
<1>1. PICK t : t = TransitionProcess(c, b, term) OBVIOUS
<1>2. PICK a : a = AddressProcess(c, addr, b) OBVIOUS
<1>3. SkippedBytes(b) = 0 /\ ~IsAddressByte(c, b)
  BY DEF SkippedBytes, IsAddressByte, RunPrepare, AbortRun, StartLinkTest, StartSyncTest,
         TestSync, Reset, Address
<1>4. a = TakeForeignCommand(c, b)
  BY <1>2 DEF AddressProcess, Deaf
<1>5. Listens(a)
  BY <1>3, <1>4 DEF TakeForeignCommand, Listens, Deaf, Controller
<1>6. ~c.addressed /\ ~c.recieving_payload BY DEF Deaf
<1> QED BY <1>1, <1>2, <1>5, <1>6, ClockedIs DEF Listens

Distinct == \A f, g \in FEB : Addr[f] = Addr[g] => f = g

LEMMA SameAddress ==
  ASSUME Distinct, NEW f \in FEB, NEW g \in FEB
  PROVE  Addr[f][1] = Addr[g][1] /\ Addr[f][2] = Addr[g][2] <=> f = g
<1>1. Addr[f] = <<Addr[f][1], Addr[f][2]>> /\ Addr[g] = <<Addr[g][1], Addr[g][2]>>
  BY LineAssumption
<1> QED BY <1>1 DEF Distinct

\* The address process follows the symbols, whatever the state of the run.
LEMMA ReadsComma ==
  ASSUME NEW c \in Controller, c.state \in Running, NEW f \in FEB, NEW x, IsComma(x),
         x.byte \in Byte, Listens(c), ~c.recieving_payload, NEW term \in BOOLEAN,
         NEW d, d = Clocked(c, Addr[f], x.byte, term)
  PROVE  /\ Took(c, d, x, f, term) /\ Listens(d) /\ ~d.recieving_payload
         /\ \A y : IsSymbol(y) /\ Follows(x, y) => Hears(d, f, y)
<1>1. Took(c, d, x, f, term) /\ Listens(d)
  BY TakesDecoded DEF IsComma
<1>2. ~d.recieving_payload BY <1>1 DEF Took, IsComma
<1>3. ASSUME NEW y, IsSymbol(y), Follows(x, y) PROVE Hears(d, f, y)
  <2>1. CASE x.left > 0
    <3>1. y.role = "comma" BY <2>1, <1>3 DEF Follows, IsComma
    <3> QED BY <1>1, <1>2, <3>1 DEF Hears
  <2>2. CASE x.left = 0
    <3>1. y.role = "command" /\ y.to = FEB BY <2>2, <1>3 DEF Follows, IsComma
    <3> QED BY <1>1, <1>2, <3>1 DEF Hears
  <2> QED BY <2>1, <2>2 DEF IsComma
<1> QED BY <1>1, <1>2, <1>3

LEMMA ReadsOwnCommand ==
  ASSUME NEW c \in Controller, c.state \in Running, NEW f \in FEB, NEW x, IsCommand(x),
         x.byte \in Byte, f \in x.to, Listens(c), ~c.recieving_payload, NEW term \in BOOLEAN,
         NEW d, d = Clocked(c, Addr[f], x.byte, term)
  PROVE  /\ Took(c, d, x, f, term)
         /\ Closes(x) => Listens(d) /\ ~d.recieving_payload
         /\ \A y : IsSymbol(y) /\ Follows(x, y) => Hears(d, f, y)
<1>1. Took(c, d, x, f, term) /\ Listens(d)
  BY TakesDecoded DEF IsCommand
<1>2. /\ d.recieving_payload => x.byte = RunPrepare
      /\ d.recieving_payload => d.payload_byte_counter = 4
  BY <1>1 DEF Took
<1>3. Closes(x) => ~d.recieving_payload BY <1>2 DEF Closes, IsCommand
<1>4. ASSUME NEW y, IsSymbol(y), Follows(x, y) PROVE Hears(d, f, y)
  <2>1. CASE x.byte = RunPrepare
    <3>1. y.role = "payload" /\ y.left = 3 BY <2>1, <1>4 DEF Follows, IsCommand
    <3> QED BY <1>1, <1>2, <3>1 DEF Hears
  <2>2. CASE x.byte # RunPrepare
    <3>1. Opens(y) BY <2>2, <1>4 DEF Follows, IsCommand, Closes
    <3>2. Opens(y) => y.role # "command" /\ ~(y.left < 2) BY DEF Opens
    <3> QED BY <1>1, <1>2, <2>2, <3>1, <3>2 DEF Hears
  <2> QED BY <2>1, <2>2
<1> QED BY <1>1, <1>3, <1>4

LEMMA ReadsOtherCommand ==
  ASSUME NEW c \in Controller, c.state \in Running, NEW f \in FEB, NEW x, IsCommand(x),
         x.byte \in Byte, f \notin x.to, Hears(c, f, x), NEW term \in BOOLEAN,
         NEW d, d = Clocked(c, Addr[f], x.byte, term)
  PROVE  /\ Took(c, d, x, f, term) /\ Listens(d) /\ ~d.recieving_payload
         /\ \A y : IsSymbol(y) /\ Follows(x, y) => Hears(d, f, y)
<1>1. x.byte = AbortRun BY DEF IsCommand
<1>2. Deaf(c) /\ ~c.recieving_address /\ c.address_counter = 0 /\ ~c.recieving_payload
  BY DEF Hears, IsCommand, Deaf
<1>3. /\ d.o_state = c.state /\ d.payload = c.payload
      /\ d.state = c.state /\ ~d.recieving_payload /\ Listens(d)
  BY <1>1, <1>2, TakesForeign
<1>4. Took(c, d, x, f, term)
  BY <1>2, <1>3 DEF Took, IsCommand
<1>5. ASSUME NEW y, IsSymbol(y), Follows(x, y) PROVE Hears(d, f, y)
  <2>1. x.byte # RunPrepare BY <1>1 DEF AbortRun, RunPrepare
  <2>2. Opens(y) BY <2>1, <1>5 DEF Follows, IsCommand, Closes
  <2>3. Opens(y) => y.role # "command" /\ ~(y.left < 2) BY DEF Opens
  <2> QED BY <1>3, <2>2, <2>3 DEF Hears
<1> QED BY <1>3, <1>4, <1>5

LEMMA ReadsPayload ==
  ASSUME NEW c \in Controller, PayloadFits(c), c.state \in Running, NEW f \in FEB, NEW x,
         IsPayload(x), x.byte \in Byte, Hears(c, f, x), NEW term \in BOOLEAN,
         ~c.recieving_payload => x.byte = 0,
         NEW d, d = Clocked(c, Addr[f], x.byte, term)
  PROVE  /\ Took(c, d, x, f, term)
         /\ Closes(x) => Listens(d) /\ ~d.recieving_payload
         /\ \A y : IsSymbol(y) /\ Follows(x, y) => Hears(d, f, y)
<1>1. Listens(c) BY DEF Hears, IsPayload
<1>2. CASE c.recieving_payload
  <2>1. /\ Listens(d)
        /\ d.state = c.state /\ d.o_state = c.o_state
        /\ d.payload_byte_counter = c.payload_byte_counter - 1
        /\ d.recieving_payload <=> c.payload_byte_counter # 1
        /\ d.payload = [c.payload EXCEPT ![c.state][c.payload_byte_counter] = x.byte]
    BY <1>1, <1>2, ListensStep
  <2>2. c.payload_byte_counter = x.left + 1 /\ x.left \in 0..3 BY <1>2 DEF Hears, IsPayload
  <2>3. d.payload_byte_counter = x.left /\ (d.recieving_payload <=> x.left # 0)
    BY <2>1, <2>2
  <2>4. Took(c, d, x, f, term) BY <1>2, <2>1 DEF Took
  <2>5. ASSUME NEW y, IsSymbol(y), Follows(x, y) PROVE Hears(d, f, y)
    <3>1. CASE x.left > 0
      <4>1. y.role = "payload" /\ y.left = x.left - 1 BY <2>5, <3>1 DEF Follows, IsPayload
      <4>2. d.payload_byte_counter = y.left + 1 BY <2>2, <2>3, <4>1
      <4> QED BY <2>1, <4>1, <4>2 DEF Hears
    <3>2. CASE x.left = 0
      <4>1. Opens(y) /\ ~d.recieving_payload BY <2>3, <2>5, <3>2 DEF Follows, Closes, IsPayload
      <4>2. Opens(y) => y.role # "command" /\ ~(y.left < 2) BY DEF Opens
      <4> QED BY <2>1, <4>1, <4>2 DEF Hears
    <3> QED BY <2>2, <3>1, <3>2
  <2> QED BY <2>1, <2>3, <2>4, <2>5 DEF Closes
<1>3. CASE ~c.recieving_payload
  <2>1. Took(c, d, x, f, term) /\ Listens(d)
    BY <1>1, <1>3, TakesDecoded DEF IsPayload
  <2>2. ~d.recieving_payload BY <1>3, <2>1 DEF Took, IsPayload
  <2>3. ASSUME NEW y, IsSymbol(y), Follows(x, y) PROVE Hears(d, f, y)
    <3>1. CASE x.left > 0
      <4>1. y.role = "payload" BY <2>3, <3>1 DEF Follows, IsPayload
      <4> QED BY <2>1, <2>2, <4>1 DEF Hears
    <3>2. CASE x.left = 0
      <4>1. Opens(y) BY <2>3, <3>2 DEF Follows, Closes, IsPayload
      <4>2. Opens(y) => y.role # "command" /\ ~(y.left < 2) BY DEF Opens
      <4> QED BY <2>1, <2>2, <4>1, <4>2 DEF Hears
    <3>3. x.left > 0 \/ x.left = 0 BY DEF IsPayload
    <3> QED BY <3>1, <3>2, <3>3
  <2> QED BY <2>1, <2>2, <2>3
<1> QED BY <1>2, <1>3

LEMMA ReadsAddress ==
  ASSUME Distinct, NEW c \in Controller, c.state \in Running, NEW f \in FEB, NEW x,
         IsAddress(x), x.byte \in Byte, Hears(c, f, x), NEW term \in BOOLEAN,
         NEW d, d = Clocked(c, Addr[f], x.byte, term)
  PROVE  /\ Took(c, d, x, f, term) /\ ~Closes(x)
         /\ \A y : IsSymbol(y) /\ Follows(x, y) => Hears(d, f, y)
<1>1. PICK g \in FEB : x.to = {g} /\ x.byte = AddressByte(g, x.left)
  BY DEF IsAddress
<1>2. x.role = "address" /\ x.left \in 0..2 /\ ~c.recieving_payload
  BY DEF IsAddress, Hears
<1>3. x.left = 2 \/ x.left = 1 \/ x.left = 0 BY <1>2
<1>4. ~Closes(x) BY <1>2 DEF Closes
<1>5. ASSUME x.left = 2
      PROVE  /\ Took(c, d, x, f, term)
             /\ \A y : IsSymbol(y) /\ Follows(x, y) => Hears(d, f, y)
  <2>1. Listens(c) /\ x.byte = Address BY <1>1, <1>2, <1>5 DEF Hears, Opens, AddressByte
  <2>2. /\ d.o_state = c.state /\ d.payload = c.payload /\ ~d.recieving_payload
        /\ d.state = c.state \/ (c.state = "TERMINATING" /\ term /\ d.state = "IDLE")
        /\ Deaf(d) /\ d.recieving_address /\ d.address_counter = 2 /\ ~d.address_part1_match
    BY <1>2, <2>1, TakesAddressByte
  <2>3. Took(c, d, x, f, term) BY <1>2, <2>2 DEF Took
  <2>4. ASSUME NEW y, IsSymbol(y), Follows(x, y) PROVE Hears(d, f, y)
    <3>1. y.role = "address" /\ y.left = 1 BY <1>2, <1>5, <2>4 DEF Follows
    <3> QED BY <2>2, <3>1 DEF Hears, Opens
  <2> QED BY <2>3, <2>4
<1>6. ASSUME x.left = 1
      PROVE  /\ Took(c, d, x, f, term)
             /\ \A y : IsSymbol(y) /\ Follows(x, y) => Hears(d, f, y)
  <2>1. /\ Deaf(c) /\ c.recieving_address /\ c.address_counter = 2 /\ ~c.address_part1_match
        /\ x.byte = Addr[g][1]
    BY <1>1, <1>2, <1>6 DEF Hears, AddressByte
  <2>2. /\ d.o_state = c.state /\ d.payload = c.payload /\ ~d.recieving_payload
        /\ d.state = c.state
        /\ Deaf(d) /\ d.recieving_address /\ d.address_counter = 1
        /\ d.address_part1_match <=> Addr[g][1] = Addr[f][1]
    <3>1. /\ d.o_state = c.state /\ d.payload = c.payload /\ ~d.recieving_payload
          /\ d.state = c.state
      <4>1. PICK t : t = TransitionProcess(c, x.byte, term) OBVIOUS
      <4>2. PICK a : a = AddressProcess(c, Addr[f], x.byte) OBVIOUS
      <4>3. ~c.addressed /\ ~c.recieving_payload BY <2>1 DEF Deaf
      <4> QED BY <4>1, <4>2, <4>3, ClockedIs
    <3>3. Deaf(d) BY <2>1, TakesHighByte
    <3>4. d.recieving_address /\ d.address_counter = 1 BY <2>1, TakesHighByte
    <3>5. d.address_part1_match <=> c.address_part1_match \/ x.byte = Addr[f][1] BY <2>1, TakesHighByte
    <3> QED BY <2>1, <3>1, <3>3, <3>4, <3>5
  <2>3. Took(c, d, x, f, term) BY <1>2, <2>2 DEF Took
  <2>4. ASSUME NEW y, IsSymbol(y), Follows(x, y) PROVE Hears(d, f, y)
    <3>1. y.role = "address" /\ y.left = 0 /\ y.to = {g} BY <1>1, <1>2, <1>6, <2>4 DEF Follows
    <3> QED BY <2>2, <3>1 DEF Hears, Opens
  <2> QED BY <2>3, <2>4
<1>7. ASSUME x.left = 0
      PROVE  /\ Took(c, d, x, f, term)
             /\ \A y : IsSymbol(y) /\ Follows(x, y) => Hears(d, f, y)
  <2>1. /\ Deaf(c) /\ c.recieving_address /\ c.address_counter = 1
        /\ c.address_part1_match <=> Addr[f][1] = Addr[g][1]
        /\ x.byte = Addr[g][2]
    BY <1>1, <1>2, <1>7 DEF Hears, AddressByte
  <2>2. /\ d.o_state = c.state /\ d.payload = c.payload /\ ~d.recieving_payload
        /\ d.state = c.state
        /\ ~d.recieving_address /\ d.address_counter = 0 /\ ~d.ignoring_signals
        /\ d.addressed <=> Addr[g][2] = Addr[f][2] /\ c.address_part1_match
    BY <1>2, <2>1, TakesLowByte
  <2>3. d.addressed <=> f = g BY <2>1, <2>2, SameAddress
  <2>4. Took(c, d, x, f, term) BY <1>2, <2>2 DEF Took
  <2>5. ASSUME NEW y, IsSymbol(y), Follows(x, y) PROVE Hears(d, f, y)
    <3>1. y.role = "command" /\ y.to = {g} BY <1>1, <1>2, <1>7, <2>5 DEF Follows
    <3>2. f = g => Listens(d) BY <2>2, <2>3 DEF Listens
    <3>3. f # g => Deaf(d) BY <2>2, <2>3 DEF Deaf
    <3> QED BY <2>2, <3>1, <3>2, <3>3 DEF Hears, Opens
  <2> QED BY <2>4, <2>5
<1> QED BY <1>3, <1>4, <1>5, <1>6, <1>7

LEMMA ReadsSymbol ==
  ASSUME Distinct, NEW c \in Controller, PayloadFits(c), c.state \in Running, NEW f \in FEB,
         NEW x, IsSymbol(x), x.byte \in Byte, Hears(c, f, x), NEW term \in BOOLEAN,
         x.role = "payload" /\ ~c.recieving_payload => x.byte = 0,
         NEW d, d = Clocked(c, Addr[f], x.byte, term)
  PROVE  /\ Took(c, d, x, f, term)
         /\ Closes(x) => Listens(d) /\ ~d.recieving_payload
         /\ \A y : IsSymbol(y) /\ Follows(x, y) => Hears(d, f, y)
<1>1. CASE IsComma(x)
  <2>1. Listens(c) /\ ~c.recieving_payload BY <1>1 DEF Hears, IsComma
  <2> QED BY <1>1, <2>1, ReadsComma
<1>2. CASE IsCommand(x)
  <2>1. CASE f \in x.to
    <3>1. Listens(c) /\ ~c.recieving_payload BY <1>2, <2>1 DEF Hears, IsCommand
    <3> QED BY <1>2, <2>1, <3>1, ReadsOwnCommand
  <2>2. CASE f \notin x.to
    BY <1>2, <2>2, ReadsOtherCommand
  <2> QED BY <2>1, <2>2
<1>3. CASE IsPayload(x)
  <2>1. ~c.recieving_payload => x.byte = 0 BY <1>3 DEF IsPayload
  <2> QED BY <1>3, <2>1, ReadsPayload
<1>4. CASE IsAddress(x)
  BY <1>4, ReadsAddress
<1> QED BY <1>1, <1>2, <1>3, <1>4 DEF IsSymbol
-----------------------------------------------------------------------------
(***************************************************************************)
(* The invariant of the undisturbed links.  What may be on the line, and   *)
(* where the boards may be, depends on how far MIDAS is with the run:      *)
(*   - before "Run Prepare" is sent on request, the boards are idle or at  *)
(*     the end of the last run, and nothing on the line starts anything;   *)
(*   - then its frame comes, behind what is left of the last run, and      *)
(*     finds all boards idle; they take the number in step;                *)
(*   - "Run Prepare", "Sync" and "Start Run" follow once all boards have   *)
(*     acknowledged, so the number is no longer on the line; and nothing   *)
(*     that starts a run comes behind an "End Run".                        *)
(***************************************************************************)
In(q) == {q[i] : i \in 1..Len(q)}
Hearing(f) ==
  IF line = <<>> THEN Listens(board[f]) /\ ~board[f].recieving_payload
  ELSE Hears(board[f], f, line[1])

\* A symbol that prepares and starts nothing, and one that ends nothing.
Late(x) == x.role # "payload" /\ (x.role = "command" => x.byte \in {EndRun, AbortRun})
Aborts(x) == x.role = "command" => x.byte = AbortRun
Ending == \A x \in In(line) : Late(x)
Quiet(c, term) ==
  /\ ~c.recieving_payload
  /\ \/ c.state = "IDLE" /\ c.o_state \in {"IDLE", "TERMINATING"}
     \/ c.state = "TERMINATING" /\ c.o_state = "TERMINATING"
  /\ c.o_state = "TERMINATING" => term
AllQuiet == \A f \in FEB : Quiet(board[f], f \in terminated)

Prepared ==
  /\ midas = "starting" /\ ActiveSWB # {}
  /\ \A s \in ActiveSWB : s \in asked /\ ~request[s]
Begun == midas \in {"running", "stopping", "waiting"}

\* "Run Prepare" is on the line, or it has been read.
Coming(p) ==
  /\ line[p].role = "command" /\ line[p].byte = RunPrepare
  /\ \A i \in 1..Len(line) : i < p => Late(line[i])
  /\ \A i \in 1..Len(line) : i > p =>
       /\ Aborts(line[i])
       /\ line[i].role = "payload" => i + line[i].left = p + 4
  /\ AllQuiet
  /\ p <= 3 => \A f \in FEB : board[f].state = "IDLE"
Come ==
  /\ \A i \in 1..Len(line) :
       /\ Aborts(line[i])
       /\ line[i].role = "payload" => \A f \in FEB :
            board[f].recieving_payload /\ board[f].payload_byte_counter = i + line[i].left
  /\ \A f \in FEB :
       /\ board[f].state \in {"IDLE", "PREP"} /\ board[f].o_state \in {"IDLE", "PREP"}
       /\ board[f].recieving_payload => board[f].state = "PREP" /\ board[f].o_state = "IDLE"
Read == Come /\ \A x \in In(line) : x.role # "payload"

StoppedInv == midas = "stopped" \/ (midas = "starting" /\ ~Prepared) => Ending /\ AllQuiet
PreparedInv ==
  Prepared =>
    /\ Come \/ \E p \in 1..Len(line) : Coming(p)
    /\ \A x \in In(line) : x.role = "payload" => x.byte = RunBytes[run][4 - x.left]
BegunInv ==
  Begun =>
    /\ \A x \in In(line) : x.role = "payload" => x.byte = 0
    /\ \A i, j \in 1..Len(line) :
         i < j /\ line[i].role = "command" /\ line[i].byte = EndRun => Late(line[j])
    /\ \A f \in FEB : board[f].state = "TERMINATING" \/ board[f].o_state = "TERMINATING" => Ending
    /\ \A f \in FEB : board[f].o_state = "TERMINATING" => board[f].state \in {"IDLE", "TERMINATING"}
    /\ \A f \in FEB : listener[f].end_of_run_received => Ending /\ Quiet(board[f], f \in terminated)

\* Requests and acknowledges.
Acknowledged(f) ==
  /\ \A s \in asked : f \in Boards[s] /\ listener[f].run_prep_acknowledge_received
       => Prepared /\ Read
  /\ \A s \in ready : f \in Boards[s]
       => Prepared /\ Read /\ ~listener[f].end_of_run_received
HandshakeInv ==
  /\ \A s \in ActiveSWB : request[s] => midas = "starting" /\ s \in asked
  /\ \A f \in FEB :
       listener[f].run_prep_acknowledge_received => ~listener[f].end_of_run_received
  /\ midas = "starting" => \A f \in FEB : Acknowledged(f)

\* The number, while nobody has aborted: n bytes of it are still to come.
Filled(c, number, n) ==
  \A i \in 1..4 : i > n => c.payload["PREP"][i] = number[5 - i]
Filling(c, number) ==
  /\ c.state = "PREP"
  /\ c.recieving_payload => Filled(c, number, c.payload_byte_counter)
  /\ ~c.recieving_payload => Filled(c, number, 0)
Numbered(c, number) == ~c.recieving_payload /\ Filled(c, number, 0)
NumberInv ==
  presses = 0 =>
    /\ \A x \in In(line) : x.role = "command" => x.byte # AbortRun
    /\ Prepared /\ Come => \A f \in FEB : Filling(board[f], RunBytes[run])
    /\ Begun => \A f \in FEB :
         Numbered(board[f], RunBytes[run]) /\ (board[f].state = "IDLE" => Ending)

LineInv ==
  /\ Shaped(line)
  /\ \A f \in FEB : Hearing(f) /\ board[f].state \in Running
SystemInv == /\ LineInv /\ StoppedInv /\ PreparedInv
             /\ BegunInv /\ HandshakeInv /\ NumberInv
(***************************************************************************)
(* What the theorems below take for granted: no two boards have the same   *)
(* address, an operator does no more than abort the run, all boards are    *)
(* active and each of them is read out by some switching board, and the    *)
(* switching boards wait for the acknowledges.  (With a timeout a run      *)
(* starts while boards still wait for "Run Prepare": the run of            *)
(* MCClockBoardTimeout.)                                                   *)
(***************************************************************************)
AsDeployed ==
  /\ Distinct /\ Buttons \subseteq {AbortRun} /\ ~AckTimeout
  /\ FEB # {} /\ ActiveFEB = FEB
  /\ \A f \in FEB : \E s \in SWB : f \in Boards[s]

LEMMA TailIs ==
  ASSUME NEW q \in Seq(Symbol), q # <<>>, NEW r, r = Tail(q)
  PROVE  /\ r \in Seq(Symbol) /\ Len(q) \in Nat /\ Len(q) > 0 /\ Len(r) = Len(q) - 1
         /\ \A i \in 1..Len(r) : i + 1 \in 1..Len(q) /\ r[i] = q[i + 1]
         /\ Head(q) = q[1] /\ 1 \in 1..Len(q)
<1>1. /\ Tail(q) \in Seq(Symbol) /\ Len(Tail(q)) = Len(q) - 1
      /\ \A i \in 1..Len(Tail(q)) : Tail(q)[i] = q[i + 1]
      /\ Head(q) = q[1]
  BY HeadTailProperties
<1>2. Len(q) \in Nat /\ Len(q) > 0
  BY EmptySeq, LenProperties
<1>3. \A i \in 1..(Len(q) - 1) : i + 1 \in 1..Len(q)
  BY <1>2
<1> QED BY <1>1, <1>2, <1>3

LEMMA InJoined ==
  ASSUME NEW p \in Seq(Symbol), NEW q \in Seq(Symbol), NEW r, r = p \o q
  PROVE  /\ \A x \in In(r) : x \in In(p) \/ x \in In(q)
         /\ Len(r) = Len(p) + Len(q) /\ Len(p) \in Nat /\ Len(q) \in Nat
         /\ \A i \in 1..Len(r) : (i <= Len(p) /\ i \in 1..Len(p) /\ r[i] = p[i])
              \/ \E j \in 1..Len(q) : i = Len(p) + j /\ r[i] = q[j]
<1>0. p \in Seq(Symbol) /\ q \in Seq(Symbol) OBVIOUS
<1>1. Len(r) = Len(p) + Len(q) BY <1>0, Joined
<1>2. \A i \in 1..Len(p) : r[i] = p[i] BY <1>0, Joined
<1>3. \A i \in 1..Len(q) : r[Len(p) + i] = q[i] BY <1>0, Joined
<1> DEFINE m == Len(p)  n == Len(q)
<1>4. m \in Nat /\ n \in Nat BY LenProperties
<1>5. ASSUME NEW i \in 1..(m + n), ~(i <= m)
      PROVE  \E j \in 1..n : i = m + j
  <2> HIDE DEF m, n
  <2>1. i - m \in 1..n /\ i = m + (i - m) BY <1>4, <1>5
  <2> QED BY <2>1
<1>6. ASSUME NEW i \in 1..(m + n)
      PROVE  (i <= m /\ i \in 1..m /\ r[i] = p[i]) \/ \E j \in 1..n : i = m + j /\ r[i] = q[j]
  <2>1. CASE i <= m
    <3>1. i \in 1..m BY <1>4, <2>1
    <3> QED BY <1>2, <2>1, <3>1
  <2>2. CASE ~(i <= m) BY <1>3, <1>5, <2>2
  <2> QED BY <2>1, <2>2
<1>7. ASSUME NEW x \in In(r) PROVE x \in In(p) \/ x \in In(q)
  <2>1. PICK i \in 1..(m + n) : x = r[i] BY <1>1 DEF In
  <2>2. CASE i \in 1..m /\ r[i] = p[i] BY <2>1, <2>2 DEF In
  <2>3. CASE \E j \in 1..n : r[i] = q[j] BY <2>1, <2>3 DEF In
  <2> QED BY <1>6, <2>2, <2>3
<1> QED BY <1>1, <1>4, <1>6, <1>7

\* A board at rest stays at rest, and is shown the end of its run on the way.
LEMMA QuietStep ==
  ASSUME NEW c, NEW d, NEW x, NEW f, NEW term \in BOOLEAN, NEW term1 \in BOOLEAN,
         Quiet(c, term), Took(c, d, x, f, term), Late(x),
         term1 <=> term /\ c.o_state \notin {"IDLE", "PREP", "OUT_OF_DAQ"}
  PROVE  /\ Quiet(d, term1)
         /\ c.state = "IDLE" => d.state = "IDLE"
         /\ x.role = "comma" => d.state = "IDLE"
<1>1. /\ ~c.recieving_payload /\ d.o_state = c.state
      /\ IF x.role = "command" /\ f \in x.to
         THEN d.state = RunNext(c.state, x.byte, term)
         ELSE d.state = c.state \/ (c.state = "TERMINATING" /\ term /\ d.state = "IDLE")
      /\ x.role = "comma" /\ c.state = "TERMINATING" /\ term => d.state = "IDLE"
  BY DEF Quiet, Took
<1>2. x.role = "command" => x.byte # RunPrepare /\ x.byte # Sync /\ x.byte # StartRun
  BY DEF Late, RunPrepare, Sync, StartRun, EndRun, AbortRun
<1>3. ~d.recieving_payload
  BY <1>1, <1>2 DEF Took
<1>4. CASE c.state = "IDLE"
  <2>1. RunNext(c.state, x.byte, term) = "IDLE" \/ x.byte = RunPrepare
    BY <1>4 DEF RunNext
  <2>2. d.state = "IDLE" BY <1>1, <1>2, <1>4, <2>1
  <2> QED BY <1>1, <1>3, <1>4, <2>2 DEF Quiet
<1>5. CASE c.state = "TERMINATING" /\ c.o_state = "TERMINATING"
  <2>1. term /\ term1 BY <1>5 DEF Quiet
  <2>2. RunNext(c.state, x.byte, term) = "IDLE" BY <1>5, <2>1 DEF RunNext
  <2>3. d.state \in {"IDLE", "TERMINATING"} /\ (x.role = "comma" => d.state = "IDLE")
    BY <1>1, <1>5, <2>1, <2>2
  <2> QED BY <1>1, <1>3, <1>5, <2>1, <2>3 DEF Quiet
<1> QED BY <1>4, <1>5 DEF Quiet
LEMMA TookRunning ==
  ASSUME NEW c, NEW d, NEW x, NEW f, NEW term, c.state \in Running, Took(c, d, x, f, term)
  PROVE  d.state \in Running
<1>1. RunNext(c.state, x.byte, term) \in Running BY DEF Running, InRun, RunNext
<1>2. "IDLE" \in Running BY DEF Running
<1> QED BY <1>1, <1>2 DEF Took
-----------------------------------------------------------------------------
(***************************************************************************)
(* One clock: the line moves on by the symbol that all boards read.        *)
(***************************************************************************)
LEMMA TickLine ==
  ASSUME TypeInv, Shaped(line), Tick
  PROVE  /\ IsSymbol(Now) /\ Now.byte \in Byte
         /\ \/ Len(line) = 0 /\ line = <<>> /\ line' = line /\ Now = Idle
            \/ /\ Now = line[1] /\ Now \in In(line) /\ Len(line) \in Nat /\ Len(line) > 0
               /\ line # <<>> /\ Len(line') = Len(line) - 1
         /\ \A i \in 1..Len(line') : i + 1 \in 1..Len(line) /\ line'[i] = line[i + 1]
         /\ In(line') \subseteq In(line)
         /\ Shaped(line')
<1>1. line \in Seq(Symbol) BY DEF TypeInv, CBTypeOK
<1>2. Now.byte \in Byte BY <1>1, NowType DEF Symbol
<1>3. CASE line = <<>>
  <2>1. line' = line /\ Now = Idle /\ Len(line) = 0 BY <1>3 DEF Tick, Now
  <2>2. IsSymbol(Idle) BY DEF Idle, Sym, IsSymbol, IsComma
  <2>3. \A i \in 1..Len(line') : FALSE BY <2>1
  <2>4. Shaped(line') /\ In(line') \subseteq In(line) BY <2>1
  <2> QED BY <1>2, <1>3, <2>1, <2>2, <2>3, <2>4
<1>4. CASE line # <<>>
  <2>1. line' = Tail(line) /\ Now = Head(line) BY <1>4 DEF Tick, Now
  <2>2. /\ line' \in Seq(Symbol) /\ Len(line) \in Nat /\ Len(line) > 0
        /\ Len(line') = Len(line) - 1
        /\ \A i \in 1..Len(line') : i + 1 \in 1..Len(line) /\ line'[i] = line[i + 1]
        /\ Head(line) = line[1] /\ 1 \in 1..Len(line)
    BY <1>1, <1>4, <2>1, TailIs
  <2>3. Now = line[1] /\ Now \in In(line) BY <2>1, <2>2 DEF In
  <2>4. /\ \A i \in 1..Len(line) : IsSymbol(line[i])
        /\ \A i \in 1..(Len(line) - 1) : Follows(line[i], line[i + 1])
        /\ Len(line) > 0 => Closes(line[Len(line)])
    BY DEF Shaped
  <2>5. IsSymbol(Now) BY <2>2, <2>3, <2>4
  <2>6. In(line') \subseteq In(line) BY <2>2 DEF In
  <2>7. \A i \in 1..Len(line') : IsSymbol(line'[i]) BY <2>2, <2>4
  <2>8. ASSUME NEW i \in 1..(Len(line') - 1) PROVE Follows(line'[i], line'[i + 1])
    <3> DEFINE n == Len(line)
    <3>1. n \in Nat /\ Len(line') = n - 1 BY <2>2
    <3> HIDE DEF n
    <3>2. i \in 1..Len(line') /\ i + 1 \in 1..Len(line') /\ i + 1 \in 1..(n - 1) BY <3>1
    <3> QED BY <2>2, <2>4, <3>2 DEF n
  <2>9. Len(line') > 0 => Closes(line'[Len(line')])
    <3> DEFINE n == Len(line)
    <3>1. n \in Nat /\ Len(line') = n - 1 BY <2>2
    <3> HIDE DEF n
    <3>2. Len(line') > 0 => Len(line') \in 1..Len(line') /\ Len(line') + 1 = n BY <3>1
    <3>3. Len(line') > 0 => line'[Len(line')] = line[n] BY <2>2, <3>2
    <3> QED BY <2>2, <2>4, <3>3 DEF n
  <2> QED BY <1>2, <1>4, <2>2, <2>3, <2>5, <2>6, <2>7, <2>8, <2>9 DEF Shaped
<1> QED BY <1>3, <1>4

\* A payload byte that is not taken as payload is 0, which no board obeys.
LEMMA Harmless ==
  ASSUME TypeInv, SystemInv, NEW f \in FEB, line # <<>>, line[1].role = "payload",
         ~board[f].recieving_payload
  PROVE  line[1].byte = 0
<1>1. /\ line \in Seq(Symbol) /\ midas \in {"stopped", "starting", "running", "stopping", "waiting"}
  BY DEF TypeInv, CBTypeOK
<1>2. 1 \in 1..Len(line) BY <1>1, EmptySeq, LenProperties
<1>3. line[1] \in In(line) BY <1>2 DEF In
<1>4. ~Late(line[1]) BY DEF Late
<1>5. CASE midas = "stopped" \/ (midas = "starting" /\ ~Prepared)
  BY <1>3, <1>4, <1>5 DEF SystemInv, StoppedInv, Ending
<1>6. CASE Prepared
  <2>1. ~Come BY <1>2 DEF Come
  <2>2. PICK p \in 1..Len(line) : Coming(p)
    BY <1>6, <2>1 DEF SystemInv, PreparedInv
  <2>3. p = 1 \/ 1 < p BY <2>2
  <2>4. p # 1 BY <2>2 DEF Coming
  <2>5. 1 < p => Late(line[1]) BY <1>2, <2>2 DEF Coming
  <2> QED BY <1>4, <2>3, <2>4, <2>5
<1>7. CASE Begun
  BY <1>3, <1>7 DEF SystemInv, BegunInv
<1> QED BY <1>1, <1>5, <1>6, <1>7 DEF Begun

LEMMA TickBoards ==
  ASSUME Distinct, TypeInv, SystemInv, Tick
  PROVE  /\ \A f \in FEB : Took(board[f], board'[f], Now, f, f \in terminated)
         /\ LineInv'
<1>1. Shaped(line) /\ \A f \in FEB : Hearing(f) /\ board[f].state \in Running
  BY DEF SystemInv, LineInv
<1>2. /\ IsSymbol(Now) /\ Now.byte \in Byte
      /\ \/ Len(line) = 0 /\ line = <<>> /\ line' = line /\ Now = Idle
         \/ /\ Now = line[1] /\ Now \in In(line) /\ Len(line) \in Nat /\ Len(line) > 0
            /\ line # <<>> /\ Len(line') = Len(line) - 1
      /\ \A i \in 1..Len(line') : i + 1 \in 1..Len(line) /\ line'[i] = line[i + 1]
      /\ Shaped(line')
  BY <1>1, TickLine
<1>3. ASSUME NEW f \in FEB
      PROVE  /\ Took(board[f], board'[f], Now, f, f \in terminated)
             /\ Hearing(f)' /\ board'[f].state \in Running
  <2>1. PICK c : c = board[f] OBVIOUS
  <2>2. PICK d : d = board'[f] OBVIOUS
  <2>3. PICK term \in BOOLEAN : term <=> f \in terminated OBVIOUS
  <2>4. c \in Controller /\ PayloadFits(c)
    BY <2>1 DEF TypeInv, BoardsInv, BoardInv
  <2>5. d = Clocked(c, Addr[f], Now.byte, term)
    <3>1. term = (f \in terminated) BY <2>3
    <3> QED BY <2>1, <2>2, <3>1, TickIs
  <2>6. c.state \in Running BY <1>1, <2>1
  <2>7. CASE line = <<>>
    <3>1. Now = Idle /\ line' = <<>> BY <1>2, <2>7
    <3>2. Listens(c) /\ ~c.recieving_payload BY <1>1, <2>1, <2>7 DEF Hearing
    <3>3. IsComma(Now) BY <3>1 DEF IsComma, Idle, Sym
    <3>4. Took(c, d, Now, f, term) /\ Listens(d) /\ ~d.recieving_payload
      BY <1>2, <2>4, <2>5, <2>6, <3>2, <3>3, ReadsComma
    <3>5. Hearing(f)' BY <2>2, <3>1, <3>4 DEF Hearing
    <3> QED BY <2>6, <3>4, <3>5, <2>1, <2>2, <2>3, TookRunning
  <2>8. CASE line # <<>>
    <3>1. Now = line[1] /\ Len(line) \in Nat /\ Len(line) > 0 /\ Len(line') = Len(line) - 1
      BY <1>2, <2>8
    <3>2. Hears(c, f, Now) BY <1>1, <2>1, <2>8, <3>1 DEF Hearing
    <3>3. Now.role = "payload" /\ ~c.recieving_payload => Now.byte = 0
      BY <2>1, <2>8, <3>1, Harmless
    <3>4. /\ Took(c, d, Now, f, term)
          /\ Closes(Now) => Listens(d) /\ ~d.recieving_payload
          /\ \A y : IsSymbol(y) /\ Follows(Now, y) => Hears(d, f, y)
      <4>1. Took(c, d, Now, f, term) BY <1>2, <2>4, <2>5, <2>6, <3>2, <3>3, ReadsSymbol
      <4>2. Closes(Now) => Listens(d) /\ ~d.recieving_payload
        BY <1>2, <2>4, <2>5, <2>6, <3>2, <3>3, ReadsSymbol
      <4>3. \A y : IsSymbol(y) /\ Follows(Now, y) => Hears(d, f, y)
        BY <1>2, <2>4, <2>5, <2>6, <3>2, <3>3, ReadsSymbol
      <4> QED BY <4>1, <4>2, <4>3
    <3>5. Hearing(f)'
      <4>1. CASE line' = <<>>
        <5>1. Len(line) = 1 BY <3>1, <4>1
        <5>2. Closes(line[1]) BY <1>1, <5>1 DEF Shaped
        <5> QED BY <2>2, <3>1, <3>4, <4>1, <5>2 DEF Hearing
      <4>2. CASE line' # <<>>
        <5>1. Len(line') > 0
          <6>1. line' \in Seq(Symbol) BY TypeStep, TickTypes DEF TypeInv, CBTypeOK
          <6> QED BY <4>2, <6>1, EmptySeq, LenProperties
        <5>2. 1 \in 1..Len(line') /\ 1 \in 1..(Len(line) - 1) BY <3>1, <5>1
        <5>3. line'[1] = line[2] /\ Follows(line[1], line[2]) /\ IsSymbol(line'[1])
          <6>1. 1 + 1 = 2 OBVIOUS
          <6> QED BY <1>1, <1>2, <5>2, <6>1 DEF Shaped
        <5>4. Hears(d, f, line'[1]) BY <3>1, <3>4, <5>3
        <5> QED BY <2>2, <4>2, <5>4 DEF Hearing
      <4> QED BY <4>1, <4>2
    <3> QED BY <2>6, <3>4, <3>5, <2>1, <2>2, <2>3, TookRunning
  <2> QED BY <2>7, <2>8
<1> QED BY <1>2, <1>3 DEF LineInv
LEMMA TickSame ==
  ASSUME Tick
  PROVE  /\ UNCHANGED <<midas, run, request, asked, ready, presses, listener, losses>>
         /\ Prepared' <=> Prepared
         /\ Begun' <=> Begun
         /\ \A f \in FEB : f \in terminated' <=>
              f \in terminated /\ board[f].o_state \notin {"IDLE", "PREP", "OUT_OF_DAQ"}
<1>1. UNCHANGED <<midas, run, request, asked, ready, presses, listener, losses>>
  BY DEF Tick, sw_vars
<1>2. Prepared' <=> Prepared BY <1>1 DEF Prepared
<1>3. Begun' <=> Begun BY <1>1 DEF Begun
<1>4. terminated' = {f \in terminated : board[f].o_state \notin {"IDLE", "PREP", "OUT_OF_DAQ"}}
  BY DEF Tick
<1> QED BY <1>1, <1>2, <1>3, <1>4

LEMMA TickQuiet ==
  ASSUME Tick, Late(Now), NEW f \in FEB, Quiet(board[f], f \in terminated),
         Took(board[f], board'[f], Now, f, f \in terminated)
  PROVE  /\ Quiet(board'[f], f \in terminated')
         /\ board[f].state = "IDLE" => board'[f].state = "IDLE"
         /\ Now.role = "comma" => board'[f].state = "IDLE"
<1>1. f \in terminated' <=> f \in terminated /\ board[f].o_state \notin {"IDLE", "PREP", "OUT_OF_DAQ"}
  BY TickSame
<1>2. PICK c : c = board[f] OBVIOUS
<1>3. PICK d : d = board'[f] OBVIOUS
<1>4a. PICK term \in BOOLEAN : term <=> f \in terminated OBVIOUS
<1>5a. PICK term1 \in BOOLEAN : term1 <=> f \in terminated' OBVIOUS
<1>4. term = (f \in terminated) BY <1>4a
<1>5. term1 = (f \in terminated') BY <1>5a
<1>6. Quiet(c, term) /\ Took(c, d, Now, f, term) BY <1>2, <1>3, <1>4
<1>7. term1 <=> term /\ c.o_state \notin {"IDLE", "PREP", "OUT_OF_DAQ"} BY <1>1, <1>2, <1>4, <1>5
<1>8. Quiet(d, term1) BY <1>6, <1>7, QuietStep
<1>9. c.state = "IDLE" => d.state = "IDLE" BY <1>6, <1>7, QuietStep
<1>10. Now.role = "comma" => d.state = "IDLE" BY <1>6, <1>7, QuietStep
<1> QED BY <1>2, <1>3, <1>5, <1>8, <1>9, <1>10

LEMMA LateIdle == Late(Idle) /\ Idle.role = "comma" /\ Aborts(Idle)
BY DEF Late, Aborts, Idle, Sym

\* What nothing of the last run disturbs.
LEMMA TickEnding ==
  ASSUME TypeInv, Shaped(line), Tick
  PROVE  /\ Ending => Late(Now) /\ Ending'
         /\ (\A i \in 1..Len(line) : Aborts(line[i])) => Aborts(Now)
<1>1. /\ Now = Idle \/ (Now = line[1] /\ Len(line) \in Nat /\ Len(line) > 0 /\ Now \in In(line))
      /\ In(line') \subseteq In(line)
  BY TickLine
<1>2. Ending => Ending' BY <1>1 DEF Ending
<1>3. Ending => Late(Now) BY <1>1, LateIdle DEF Ending
<1>4. (\A i \in 1..Len(line) : Aborts(line[i])) => Aborts(Now)
  BY <1>1, LateIdle
<1> QED BY <1>2, <1>3, <1>4

LEMMA TickStopped ==
  ASSUME TypeInv, SystemInv, Tick,
         \A f \in FEB : Took(board[f], board'[f], Now, f, f \in terminated)
  PROVE  StoppedInv'
<1>1. Shaped(line) BY DEF SystemInv, LineInv
<1>2. SUFFICES ASSUME midas' = "stopped" \/ (midas' = "starting" /\ ~Prepared')
               PROVE  Ending' /\ AllQuiet'
  BY DEF StoppedInv
<1>3. Ending /\ AllQuiet BY <1>2, TickSame DEF SystemInv, StoppedInv
<1>4. Ending' /\ Late(Now) BY <1>1, <1>3, TickEnding
<1>5. AllQuiet' BY <1>3, <1>4, TickQuiet DEF AllQuiet
<1> QED BY <1>4, <1>5

\* The commas in front of a command.
LEMMA CommaBefore ==
  ASSUME NEW x, NEW y, IsSymbol(x), Follows(x, y), y.role \in {"command", "comma"},
         y.role = "command" => y.byte = RunPrepare,
         y.role = "comma" => y.left < 2
  PROVE  x.role = "comma" /\ (y.role = "comma" => x.left = y.left + 1)
                          /\ (y.role = "command" => x.left = 0)
<1>1. RunPrepare # AbortRun BY DEF RunPrepare, AbortRun
<1>2. CASE IsComma(x)
  <2>1. x.left \in Nat /\ x.role = "comma" BY <1>2 DEF IsComma
  <2> QED BY <1>1, <1>2, <2>1 DEF Follows, IsComma
<1>3. ~IsCommand(x) BY DEF Follows, IsCommand, Closes, Opens
<1>4. ~IsPayload(x) BY DEF Follows, IsPayload, Closes, Opens
<1>5. ~IsAddress(x) BY <1>1 DEF Follows, IsAddress, Closes, Opens
<1> QED BY <1>2, <1>3, <1>4, <1>5 DEF IsSymbol

LEMMA FourthPrepares ==
  ASSUME Shaped(line), Len(line) \in Nat, 4 \in 1..Len(line), line[4].role = "command",
         line[4].byte = RunPrepare
  PROVE  line[1].role = "comma"
<1>1. /\ 1 \in 1..(Len(line) - 1) /\ 2 \in 1..(Len(line) - 1) /\ 3 \in 1..(Len(line) - 1)
      /\ 1 \in 1..Len(line) /\ 2 \in 1..Len(line) /\ 3 \in 1..Len(line)
      /\ 1 + 1 = 2 /\ 2 + 1 = 3 /\ 3 + 1 = 4
  OBVIOUS
<1>2. /\ Follows(line[1], line[2]) /\ Follows(line[2], line[3]) /\ Follows(line[3], line[4])
      /\ IsSymbol(line[1]) /\ IsSymbol(line[2]) /\ IsSymbol(line[3])
  BY <1>1 DEF Shaped
<1>3. line[3].role = "comma" /\ line[3].left = 0 BY <1>2, CommaBefore
<1>4. line[2].role = "comma" /\ line[2].left = 1
  <2>1. line[3].left < 2 /\ line[3].role # "command" /\ line[3].left + 1 = 1 BY <1>3
  <2> QED BY <1>2, <1>3, <2>1, CommaBefore
<1>5. line[2].left < 2 /\ line[2].role # "command" BY <1>4
<1> QED BY <1>2, <1>4, <1>5, CommaBefore

\* "Run Prepare" comes nearer.
LEMMA TickComing ==
  ASSUME TypeInv, Shaped(line), Tick, NEW p \in 1..Len(line), Coming(p), p > 1,
         \A f \in FEB : Took(board[f], board'[f], Now, f, f \in terminated)
  PROVE  /\ p - 1 \in 1..Len(line') /\ Coming(p - 1)'
<1>1. /\ Now = line[1] /\ Len(line) \in Nat /\ Len(line) > 0 /\ Len(line') = Len(line) - 1
      /\ \A i \in 1..Len(line') : i + 1 \in 1..Len(line) /\ line'[i] = line[i + 1]
  <2>1. /\ \/ Len(line) = 0
           \/ /\ Now = line[1] /\ Len(line) \in Nat /\ Len(line) > 0
              /\ Len(line') = Len(line) - 1
        /\ \A i \in 1..Len(line') : i + 1 \in 1..Len(line) /\ line'[i] = line[i + 1]
    BY TickLine
  <2>2. Len(line) # 0 OBVIOUS
  <2> QED BY <2>1, <2>2
<1> DEFINE n == Len(line)
<1>2. n \in Nat /\ p \in 1..n /\ Len(line') = n - 1 BY <1>1
<1> HIDE DEF n
<1>3. /\ p - 1 \in 1..(n - 1) /\ (p - 1) + 1 = p /\ 1 \in 1..n
      /\ \A i \in 1..(n - 1) : i + 1 \in 1..n /\ (i < p - 1 <=> i + 1 < p) /\ (i > p - 1 <=> i + 1 > p)
  BY <1>2
<1>4. /\ line[p].role = "command" /\ line[p].byte = RunPrepare
      /\ \A i \in 1..n : i < p => Late(line[i])
      /\ \A i \in 1..n : i > p => /\ Aborts(line[i])
                                  /\ line[i].role = "payload" => i + line[i].left = p + 4
      /\ AllQuiet
      /\ p <= 3 => \A f \in FEB : board[f].state = "IDLE"
  BY DEF Coming, n
<1>5. Late(Now) BY <1>1, <1>3, <1>4
<1>6. AllQuiet' BY <1>4, <1>5, TickQuiet DEF AllQuiet
<1>7. p - 1 <= 3 => \A f \in FEB : board'[f].state = "IDLE"
  <2>1. CASE p <= 3
    BY <1>4, <1>5, <2>1, TickQuiet DEF AllQuiet
  <2>2. CASE p = 4
    <3>1. Len(line) \in Nat /\ 4 \in 1..Len(line) BY <1>2, <2>2 DEF n
    <3>2. Now.role = "comma" BY <1>1, <1>4, <2>2, <3>1, FourthPrepares
    <3> QED BY <1>4, <1>5, <3>2, TickQuiet DEF AllQuiet
  <2>3. p - 1 <= 3 => p <= 3 \/ p = 4 BY <1>2
  <2> QED BY <2>1, <2>2, <2>3
<1>8. line'[p - 1] = line[p]
  BY <1>1, <1>2, <1>3
<1>9. ASSUME NEW i \in 1..Len(line'), i < p - 1 PROVE Late(line'[i])
  <2>1. i \in 1..(n - 1) BY <1>2
  <2> QED BY <1>1, <1>3, <1>4, <1>9, <2>1
<1>10. ASSUME NEW i \in 1..Len(line'), i > p - 1
       PROVE  /\ Aborts(line'[i])
              /\ line'[i].role = "payload" => i + line'[i].left = (p - 1) + 4
  <2>1. i \in 1..(n - 1) BY <1>2
  <2>2. i + 1 \in 1..n /\ i + 1 > p BY <1>3, <1>10, <2>1
  <2>3. line'[i] = line[i + 1] BY <1>1
  <2>4. Aborts(line[i + 1]) /\ (line[i + 1].role = "payload" => (i + 1) + line[i + 1].left = p + 4)
    BY <1>4, <2>2
  <2>5. line[i + 1].left \in Nat
    <3>1. line[i + 1] \in Symbol BY <2>2 DEF TypeInv, CBTypeOK, n
    <3> QED BY <3>1 DEF Symbol
  <2>6. \A l \in Nat : (i + 1) + l = p + 4 => i + l = (p - 1) + 4 BY <1>2, <2>1
  <2> QED BY <2>3, <2>4, <2>5, <2>6
<1> QED BY <1>2, <1>3, <1>4, <1>6, <1>7, <1>8, <1>9, <1>10 DEF Coming

\* "Run Prepare" is read: all boards take it at the same clock.
LEMMA TickPrepare ==
  ASSUME TypeInv, Shaped(line), Tick, 1 \in 1..Len(line), Coming(1),
         \A f \in FEB : Took(board[f], board'[f], Now, f, f \in terminated)
  PROVE  /\ Come'
         /\ \A f \in FEB : /\ board'[f].state = "PREP" /\ board'[f].recieving_payload
                           /\ board'[f].payload_byte_counter = 4
<1>1. /\ Now = line[1] /\ Len(line) \in Nat /\ Len(line) > 0
      /\ \A i \in 1..Len(line') : i + 1 \in 1..Len(line) /\ line'[i] = line[i + 1]
      /\ IsSymbol(Now)
  <2>1. /\ \/ Len(line) = 0
           \/ Now = line[1] /\ Len(line) \in Nat /\ Len(line) > 0
        /\ \A i \in 1..Len(line') : i + 1 \in 1..Len(line) /\ line'[i] = line[i + 1]
        /\ IsSymbol(Now)
    BY TickLine
  <2>2. Len(line) # 0 OBVIOUS
  <2> QED BY <2>1, <2>2
<1>2. /\ Now.role = "command" /\ Now.byte = RunPrepare
      /\ \A i \in 1..Len(line) : i > 1 => /\ Aborts(line[i])
                                          /\ line[i].role = "payload" => i + line[i].left = 1 + 4
      /\ AllQuiet
      /\ \A f \in FEB : board[f].state = "IDLE"
  BY <1>1 DEF Coming
<1>3. Now.to = FEB
  <2>1. RunPrepare # AbortRun BY DEF RunPrepare, AbortRun
  <2> QED BY <1>1, <1>2, <2>1 DEF IsSymbol, IsComma, IsCommand, IsPayload, IsAddress
<1>4. ASSUME NEW f \in FEB
      PROVE  /\ board'[f].state = "PREP" /\ board'[f].o_state = "IDLE"
             /\ board'[f].recieving_payload /\ board'[f].payload_byte_counter = 4
  <2>1. ~board[f].recieving_payload /\ board[f].state = "IDLE" BY <1>2 DEF AllQuiet, Quiet
  <2>2. Took(board[f], board'[f], Now, f, f \in terminated) OBVIOUS
  <2>3. RunNext("IDLE", RunPrepare, f \in terminated) = "PREP"
    BY DEF RunNext, RunPrepare, AbortRun
  <2> QED BY <1>2, <1>3, <2>1, <2>2, <2>3 DEF Took
<1>5. ASSUME NEW i \in 1..Len(line')
      PROVE  Aborts(line'[i]) /\ (line'[i].role = "payload" => i + line'[i].left = 4)
  <2>1. i + 1 \in 1..Len(line) /\ line'[i] = line[i + 1] BY <1>1
  <2>2. i \in Nat /\ i + 1 > 1 OBVIOUS
  <2>3. Aborts(line[i + 1]) /\ (line[i + 1].role = "payload" => (i + 1) + line[i + 1].left = 1 + 4)
    BY <1>2, <2>1, <2>2
  <2>4. line[i + 1].left \in Nat
    <3>1. line[i + 1] \in Symbol BY <2>1 DEF TypeInv, CBTypeOK
    <3> QED BY <3>1 DEF Symbol
  <2>5. \A l \in Nat : (i + 1) + l = 1 + 4 => i + l = 4 BY <2>2
  <2> QED BY <2>1, <2>3, <2>4, <2>5
<1> QED BY <1>4, <1>5 DEF Come

\* The boards take the number in step.
LEMMA TickCome ==
  ASSUME TypeInv, LineInv, Tick, Come,
         \A f \in FEB : Took(board[f], board'[f], Now, f, f \in terminated)
  PROVE  Come'
<1>1. /\ \/ Now = Idle
         \/ Now = line[1] /\ Len(line) \in Nat /\ Len(line) > 0
      /\ \A i \in 1..Len(line') : i + 1 \in 1..Len(line) /\ line'[i] = line[i + 1]
  BY TickLine DEF LineInv
<1>2. Aborts(Now) BY TickEnding DEF Come, LineInv
<1>3. ASSUME NEW f \in FEB
      PROVE  /\ board'[f].state \in {"IDLE", "PREP"} /\ board'[f].o_state \in {"IDLE", "PREP"}
             /\ board'[f].recieving_payload => board'[f].state = "PREP" /\ board'[f].o_state = "IDLE"
  <2>1. /\ board[f].state \in {"IDLE", "PREP"} /\ board[f].o_state \in {"IDLE", "PREP"}
        /\ board[f].recieving_payload => board[f].state = "PREP" /\ board[f].o_state = "IDLE"
    BY DEF Come
  <2>2. Took(board[f], board'[f], Now, f, f \in terminated) OBVIOUS
  <2>3. Now.role = "command" => Now.byte = AbortRun BY <1>2 DEF Aborts
  <2>4. RunNext(board[f].state, AbortRun, f \in terminated) = "IDLE" BY DEF RunNext
  <2>5. AbortRun # RunPrepare BY DEF RunPrepare, AbortRun
  <2>6. CASE board[f].recieving_payload BY <2>1, <2>2, <2>6 DEF Took
  <2>7. CASE ~board[f].recieving_payload
    <3>1. ~board'[f].recieving_payload BY <2>2, <2>3, <2>5, <2>7 DEF Took
    <3>2. board'[f].o_state = board[f].state BY <2>2, <2>7 DEF Took
    <3>3. board'[f].state \in {"IDLE", "PREP"} BY <2>1, <2>2, <2>3, <2>4, <2>7 DEF Took
    <3> QED BY <2>1, <3>1, <3>2, <3>3
  <2> QED BY <2>6, <2>7
<1>4. ASSUME NEW i \in 1..Len(line')
      PROVE  /\ Aborts(line'[i])
             /\ line'[i].role = "payload" => \A f \in FEB :
                  /\ board'[f].recieving_payload
                  /\ board'[f].payload_byte_counter = i + line'[i].left
  <2>1. i + 1 \in 1..Len(line) /\ line'[i] = line[i + 1] BY <1>1
  <2>2. Aborts(line[i + 1]) /\ (line[i + 1].role = "payload" => \A f \in FEB :
          /\ board[f].recieving_payload
          /\ board[f].payload_byte_counter = (i + 1) + line[i + 1].left)
    BY <2>1 DEF Come
  <2>3. ASSUME line'[i].role = "payload", NEW f \in FEB
        PROVE  board'[f].recieving_payload /\ board'[f].payload_byte_counter = i + line'[i].left
    <3>1. board[f].recieving_payload /\ board[f].payload_byte_counter = (i + 1) + line'[i].left
      BY <2>1, <2>2, <2>3
    <3>2. /\ board'[f].recieving_payload <=> board[f].payload_byte_counter # 1
          /\ board'[f].payload_byte_counter = board[f].payload_byte_counter - 1
      BY <3>1 DEF Took
    <3>3. line'[i].left \in Nat
      <4>1. line[i + 1] \in Symbol BY <2>1 DEF TypeInv, CBTypeOK
      <4> QED BY <2>1, <4>1 DEF Symbol
    <3>4. i \in Nat /\ i >= 1 OBVIOUS
    <3>5. \A l \in Nat : (i + 1) + l # 1 /\ ((i + 1) + l) - 1 = i + l BY <3>4
    <3> QED BY <3>1, <3>2, <3>3, <3>5
  <2> QED BY <2>1, <2>2, <2>3
<1> QED BY <1>3, <1>4 DEF Come

LEMMA TickPrepared ==
  ASSUME TypeInv, SystemInv, Tick,
         \A f \in FEB : Took(board[f], board'[f], Now, f, f \in terminated)
  PROVE  PreparedInv'
<1>1. LineInv /\ Shaped(line) BY DEF SystemInv, LineInv
<1>2. SUFFICES ASSUME Prepared
               PROVE  /\ Come' \/ \E p \in 1..Len(line') : Coming(p)'
                      /\ \A x \in In(line') : x.role = "payload" => x.byte = RunBytes[run'][4 - x.left]
  BY TickSame DEF PreparedInv
<1>3. /\ Come \/ \E p \in 1..Len(line) : Coming(p)
      /\ \A x \in In(line) : x.role = "payload" => x.byte = RunBytes[run][4 - x.left]
  BY <1>2 DEF SystemInv, PreparedInv
<1>4. In(line') \subseteq In(line) /\ run' = run BY <1>1, TickLine, TickSame
<1>5. CASE Come BY <1>1, <1>5, TickCome, <1>3, <1>4
<1>6. ASSUME NEW p \in 1..Len(line), Coming(p)
      PROVE  Come' \/ \E q \in 1..Len(line') : Coming(q)'
  <2>1. CASE p = 1 BY <1>1, <1>6, <2>1, TickPrepare
  <2>2. CASE p > 1 BY <1>1, <1>6, <2>2, TickComing
  <2>3. p = 1 \/ p > 1 OBVIOUS
  <2> QED BY <2>1, <2>2, <2>3
<1> QED BY <1>3, <1>4, <1>5, <1>6

LEMMA TickBegun ==
  ASSUME TypeInv, SystemInv, Tick,
         \A f \in FEB : Took(board[f], board'[f], Now, f, f \in terminated)
  PROVE  BegunInv'
<1>1. LineInv /\ Shaped(line) BY DEF SystemInv, LineInv
<1>2. SUFFICES ASSUME Begun
      PROVE  /\ \A x \in In(line') : x.role = "payload" => x.byte = 0
             /\ \A i, j \in 1..Len(line') :
                  i < j /\ line'[i].role = "command" /\ line'[i].byte = EndRun => Late(line'[j])
             /\ \A f \in FEB : board'[f].state = "TERMINATING" \/ board'[f].o_state = "TERMINATING"
                  => Ending'
             /\ \A f \in FEB : board'[f].o_state = "TERMINATING"
                  => board'[f].state \in {"IDLE", "TERMINATING"}
             /\ \A f \in FEB : listener'[f].end_of_run_received
                  => Ending' /\ Quiet(board'[f], f \in terminated')
  BY TickSame DEF BegunInv
<1>3. /\ \A x \in In(line) : x.role = "payload" => x.byte = 0
      /\ \A i, j \in 1..Len(line) :
           i < j /\ line[i].role = "command" /\ line[i].byte = EndRun => Late(line[j])
      /\ \A f \in FEB : board[f].state = "TERMINATING" \/ board[f].o_state = "TERMINATING" => Ending
      /\ \A f \in FEB : board[f].o_state = "TERMINATING" => board[f].state \in {"IDLE", "TERMINATING"}
      /\ \A f \in FEB : listener[f].end_of_run_received => Ending /\ Quiet(board[f], f \in terminated)
  BY <1>2 DEF SystemInv, BegunInv
<1>4. /\ \/ Now = Idle
         \/ Now = line[1] /\ Len(line) \in Nat /\ Len(line) > 0 /\ Len(line') = Len(line) - 1
      /\ \A i \in 1..Len(line') : i + 1 \in 1..Len(line) /\ line'[i] = line[i + 1]
      /\ In(line') \subseteq In(line)
  BY <1>1, TickLine
<1>5. Ending => Late(Now) /\ Ending' BY <1>1, TickEnding
<1>6. ASSUME NEW i \in 1..Len(line'), NEW j \in 1..Len(line'),
             i < j, line'[i].role = "command", line'[i].byte = EndRun
      PROVE  Late(line'[j])
  <2>1. i + 1 < j + 1 BY <1>6
  <2> QED BY <1>3, <1>4, <1>6, <2>1
<1>7. ASSUME NEW f \in FEB, board'[f].state = "TERMINATING" \/ board'[f].o_state = "TERMINATING"
      PROVE  Ending'
  <2>1. CASE board[f].state = "TERMINATING" \/ board[f].o_state = "TERMINATING"
    BY <1>3, <1>5, <2>1
  <2>2. CASE board[f].state # "TERMINATING" /\ board[f].o_state # "TERMINATING"
    <3>1. Took(board[f], board'[f], Now, f, f \in terminated) OBVIOUS
    <3>2. ~board[f].recieving_payload BY <1>7, <2>2, <3>1 DEF Took
    <3>3. /\ Now.role = "command"
          /\ RunNext(board[f].state, Now.byte, f \in terminated) = "TERMINATING"
      BY <1>7, <2>2, <3>1, <3>2 DEF Took
    <3>4. Now.byte = EndRun BY <2>2, <3>3 DEF RunNext
    <3>5. Now = line[1] /\ Len(line) \in Nat /\ Len(line) > 0
      BY <1>4, <3>3, LateIdle
    <3>6. ASSUME NEW i \in 1..Len(line') PROVE Late(line'[i])
      <4>1. i + 1 \in 1..Len(line) /\ 1 \in 1..Len(line) /\ 1 < i + 1 BY <1>4, <3>5
      <4> QED BY <1>3, <1>4, <3>3, <3>4, <3>5, <4>1
    <3> QED BY <3>6 DEF Ending, In
  <2> QED BY <2>1, <2>2
<1>8. ASSUME NEW f \in FEB, board'[f].o_state = "TERMINATING"
      PROVE  board'[f].state \in {"IDLE", "TERMINATING"}
  <2>1. Took(board[f], board'[f], Now, f, f \in terminated) OBVIOUS
  <2>2. CASE board[f].recieving_payload BY <1>3, <1>8, <2>1, <2>2 DEF Took
  <2>3. CASE ~board[f].recieving_payload
    <3>1. board[f].state = "TERMINATING" BY <1>8, <2>1, <2>3 DEF Took
    <3>2. RunNext("TERMINATING", Now.byte, f \in terminated) \in {"IDLE", "TERMINATING"}
      BY DEF RunNext
    <3> QED BY <2>1, <2>3, <3>1, <3>2 DEF Took
  <2> QED BY <2>2, <2>3
<1>9. ASSUME NEW f \in FEB, listener'[f].end_of_run_received
      PROVE  Ending' /\ Quiet(board'[f], f \in terminated')
  <2>1. Ending /\ Quiet(board[f], f \in terminated) BY <1>3, <1>9, TickSame
  <2> QED BY <1>5, <2>1, TickQuiet
<1>10. \A x \in In(line') : x.role = "payload" => x.byte = 0
  BY <1>3, <1>4
<1>11. \A i, j \in 1..Len(line') :
         i < j /\ line'[i].role = "command" /\ line'[i].byte = EndRun => Late(line'[j])
  BY <1>6
<1> QED BY <1>7, <1>8, <1>9, <1>10, <1>11

LEMMA TickHandshake ==
  ASSUME TypeInv, SystemInv, Tick,
         \A f \in FEB : Took(board[f], board'[f], Now, f, f \in terminated)
  PROVE  HandshakeInv'
<1>1. LineInv /\ HandshakeInv BY DEF SystemInv
<1>2. UNCHANGED <<midas, request, asked, ready, listener>> /\ (Prepared' <=> Prepared)
  BY TickSame
<1>3. Read => Read'
  <2>1. In(line') \subseteq In(line) BY <1>1, TickLine DEF LineInv
  <2> QED BY <1>1, <2>1, TickCome DEF Read
<1>4. ASSUME NEW f \in FEB, Acknowledged(f) PROVE Acknowledged(f)'
  BY <1>2, <1>3, <1>4 DEF Acknowledged
<1>5. \A s \in ActiveSWB : request[s] => midas = "starting" /\ s \in asked
  BY <1>1 DEF HandshakeInv
<1>6. \A f \in FEB :
        listener[f].run_prep_acknowledge_received => ~listener[f].end_of_run_received
  BY <1>1 DEF HandshakeInv
<1>7. midas = "starting" => \A f \in FEB : Acknowledged(f)
  BY <1>1 DEF HandshakeInv
<1>8. midas' = "starting" => \A f \in FEB : Acknowledged(f)'
  BY <1>2, <1>4, <1>7
<1>9. \A s \in ActiveSWB : request'[s] => midas' = "starting" /\ s \in asked'
  BY <1>2, <1>5
<1>10. \A f \in FEB :
        listener'[f].run_prep_acknowledge_received => ~listener'[f].end_of_run_received
  BY <1>2, <1>6
<1> QED BY <1>8, <1>9, <1>10 DEF HandshakeInv

\* One byte of the number is filled in.
LEMMA FilledStep ==
  ASSUME NEW c \in Controller, PayloadFits(c), NEW d, NEW x, NEW f, NEW term, NEW number,
         c.recieving_payload, Took(c, d, x, f, term), Filling(c, number),
         c.payload_byte_counter = x.left + 1, x.left \in Nat, x.byte = number[4 - x.left]
  PROVE  Filling(d, number)
<1> DEFINE n == c.payload_byte_counter
<1>0. c.state = "PREP" BY DEF Filling
<1>1. n \in 1..4 /\ n = x.left + 1
  BY <1>0 DEF PayloadFits, Width
<1>2. /\ d.recieving_payload <=> n # 1
      /\ d.payload_byte_counter = n - 1 /\ d.state = "PREP"
      /\ d.payload = [c.payload EXCEPT !["PREP"][n] = x.byte]
  BY <1>0 DEF Took
<1>3. c.payload \in [PayloadState -> [1..4 -> Byte]] /\ "PREP" \in PayloadState
  BY DEF Controller, PayloadRegisters, PayloadState
<1>4. \A i \in 1..4 : i > n => c.payload["PREP"][i] = number[5 - i]
  BY DEF Filled, Filling
<1>5. 4 - x.left = 5 - n BY <1>1
<1>6. x.byte = number[5 - n] BY <1>5
<1> HIDE DEF n
<1>7. ASSUME NEW i \in 1..4, i > n - 1 PROVE d.payload["PREP"][i] = number[5 - i]
  <2>1. i = n \/ i > n BY <1>1, <1>7
  <2>2. d.payload["PREP"] = [c.payload["PREP"] EXCEPT ![n] = x.byte] BY <1>2, <1>3
  <2>3. c.payload["PREP"] \in [1..4 -> Byte] BY <1>3
  <2>4. d.payload["PREP"][i] = IF i = n THEN x.byte ELSE c.payload["PREP"][i] BY <2>2, <2>3
  <2> QED BY <1>4, <1>6, <2>1, <2>4
<1>8. n = 1 => n - 1 = 0 OBVIOUS
<1> QED BY <1>2, <1>7, <1>8 DEF Filled, Filling

LEMMA TickNumber ==
  ASSUME TypeInv, SystemInv, Tick,
         \A f \in FEB : Took(board[f], board'[f], Now, f, f \in terminated)
  PROVE  NumberInv'
<1>1. LineInv /\ Shaped(line) BY DEF SystemInv, LineInv
<1>2. /\ UNCHANGED <<midas, run, presses>> /\ (Prepared' <=> Prepared) /\ (Begun' <=> Begun)
  BY TickSame
<1>3. SUFFICES ASSUME presses = 0
      PROVE  /\ \A x \in In(line') : x.role = "command" => x.byte # AbortRun
             /\ Prepared /\ Come' => \A f \in FEB : Filling(board'[f], RunBytes[run])
             /\ Begun => \A f \in FEB : /\ Numbered(board'[f], RunBytes[run])
                                        /\ board'[f].state = "IDLE" => Ending'
  BY <1>2 DEF NumberInv
<1>4. /\ \A x \in In(line) : x.role = "command" => x.byte # AbortRun
      /\ Prepared /\ Come => \A f \in FEB : Filling(board[f], RunBytes[run])
      /\ Begun => \A f \in FEB : /\ Numbered(board[f], RunBytes[run])
                                 /\ board[f].state = "IDLE" => Ending
  BY <1>3 DEF SystemInv, NumberInv
<1>5. /\ \/ Now = Idle /\ line = <<>> /\ line' = line
         \/ Now = line[1] /\ Now \in In(line) /\ line # <<>>
      /\ \A i \in 1..Len(line') : i + 1 \in 1..Len(line) /\ line'[i] = line[i + 1]
      /\ In(line') \subseteq In(line) /\ IsSymbol(Now)
  BY <1>1, TickLine
<1>6. Ending => Late(Now) /\ Ending' BY <1>1, TickEnding
<1>7. \A x \in In(line') : x.role = "command" => x.byte # AbortRun
  BY <1>4, <1>5
<1>8. Now.role = "command" => Now.byte # AbortRun
  BY <1>4, <1>5, LateIdle
<1>9. ASSUME Prepared, Come, NEW f \in FEB PROVE Filling(board'[f], RunBytes[run])
  <2>1. PICK c : c = board[f] OBVIOUS
  <2>2. PICK d : d = board'[f] OBVIOUS
  <2>3. Took(c, d, Now, f, f \in terminated) /\ Filling(c, RunBytes[run])
    BY <1>4, <1>9, <2>1, <2>2
  <2>4. Now.role # "command"
    <3>1. Aborts(Now) BY <1>1, <1>9, TickEnding DEF Come
    <3> QED BY <1>8, <3>1 DEF Aborts
  <2>5. CASE c.recieving_payload
    <3>1. line # <<>> /\ Hears(c, f, line[1])
      BY <1>1, <2>1, <2>5 DEF LineInv, Hearing
    <3>2. Now = line[1] /\ Now \in In(line) BY <1>5, <3>1
    <3>3. Now.role = "payload" /\ c.payload_byte_counter = Now.left + 1
      BY <2>5, <3>1, <3>2 DEF Hears
    <3>4. Now.byte = RunBytes[run][4 - Now.left]
      BY <1>9, <3>2, <3>3 DEF SystemInv, PreparedInv
    <3>5. Now.left \in Nat BY <1>5, <3>3 DEF IsSymbol, IsComma, IsCommand, IsPayload, IsAddress
    <3>6. c \in Controller /\ PayloadFits(c)
      BY <2>1 DEF TypeInv, BoardsInv, BoardInv
    <3> QED BY <2>2, <2>3, <2>5, <3>3, <3>4, <3>5, <3>6, FilledStep
  <2>6. CASE ~c.recieving_payload
    <3>1. c.state = "PREP" /\ Filled(c, RunBytes[run], 0) BY <2>3, <2>6 DEF Filling
    <3>2. ~d.recieving_payload /\ d.payload = c.payload /\ d.state = "PREP"
      BY <2>3, <2>4, <2>6, <3>1 DEF Took
    <3> QED BY <2>2, <3>1, <3>2 DEF Filling, Filled
  <2> QED BY <2>5, <2>6
<1>10. ASSUME Prepared, Come', NEW f \in FEB PROVE Filling(board'[f], RunBytes[run])
  <2>1. CASE Come BY <1>9, <1>10, <2>1
  <2>2. CASE ~Come
    <3>1. PICK p \in 1..Len(line) : Coming(p)
      BY <1>10, <2>2 DEF SystemInv, PreparedInv
    <3>2. CASE p = 1
      <4>1. /\ board'[f].state = "PREP" /\ board'[f].recieving_payload
            /\ board'[f].payload_byte_counter = 4
        BY <1>1, <3>1, <3>2, TickPrepare
      <4> QED BY <4>1 DEF Filling, Filled
    <3>3. CASE p > 1
      <4>1. p - 1 \in 1..Len(line') /\ Coming(p - 1)'
        BY <1>1, <3>1, <3>3, TickComing
      <4>2. line'[p - 1].role = "command" /\ line'[p - 1].byte = RunPrepare
        BY <4>1 DEF Coming
      <4>3. Aborts(line'[p - 1]) BY <1>10, <4>1 DEF Come
      <4> QED BY <4>2, <4>3 DEF Aborts, RunPrepare, AbortRun
    <3>4. p = 1 \/ p > 1 OBVIOUS
    <3> QED BY <3>2, <3>3, <3>4
  <2> QED BY <2>1, <2>2
<1>11. ASSUME Begun, NEW f \in FEB
       PROVE  Numbered(board'[f], RunBytes[run]) /\ (board'[f].state = "IDLE" => Ending')
  <2>1. PICK c : c = board[f] OBVIOUS
  <2>2. PICK d : d = board'[f] OBVIOUS
  <2>3. /\ Took(c, d, Now, f, f \in terminated)
        /\ ~c.recieving_payload /\ Filled(c, RunBytes[run], 0)
        /\ c.state = "IDLE" => Ending
    BY <1>4, <1>11, <2>1, <2>2 DEF Numbered
  <2>4. d.payload = c.payload BY <2>3 DEF Took
  <2>5. ~d.recieving_payload
    <3>1. d.recieving_payload => Now.role = "command" /\ Now.byte = RunPrepare /\ c.state = "IDLE"
      BY <2>3 DEF Took
    <3>2. Ending => ~(Now.role = "command" /\ Now.byte = RunPrepare)
      BY <1>6 DEF Late, RunPrepare, EndRun, AbortRun
    <3> QED BY <2>3, <3>1, <3>2
  <2>6. d.state = "IDLE" => Ending'
    <3>1. c.state = "TERMINATING" => Ending
      BY <1>11, <2>1 DEF SystemInv, BegunInv
    <3>2. c.state \notin {"IDLE", "TERMINATING"} /\ Now.role = "command"
            => RunNext(c.state, Now.byte, f \in terminated) # "IDLE"
      BY <1>8 DEF RunNext
    <3>3. c.state \notin {"IDLE", "TERMINATING"} => d.state # "IDLE"
      BY <2>3, <3>2 DEF Took
    <3> QED BY <1>6, <2>3, <3>1, <3>3
  <2>7. Numbered(d, RunBytes[run]) BY <2>3, <2>4, <2>5 DEF Numbered, Filled
  <2> QED BY <2>2, <2>6, <2>7
<1> QED BY <1>7, <1>10, <1>11

LEMMA TickInv ==
  ASSUME Distinct, TypeInv, SystemInv, Tick
  PROVE  SystemInv'
BY TickBoards, TickStopped, TickPrepared, TickBegun, TickHandshake, TickNumber DEF SystemInv
-----------------------------------------------------------------------------
(***************************************************************************)
(* MIDAS, the switching boards and the mergers.                            *)
(***************************************************************************)
LEMMA SameLine ==
  ASSUME UNCHANGED <<board, line>>
  PROVE  /\ LineInv' <=> LineInv
         /\ Come' <=> Come
         /\ Read' <=> Read
         /\ Ending' <=> Ending
<1>1. Come' <=> Come BY DEF Come
<1>2. Read' <=> Read BY <1>1 DEF Read
<1>3. Ending' <=> Ending BY DEF Ending
<1>4. LineInv' <=> LineInv BY DEF LineInv, Hearing
<1> QED BY <1>1, <1>2, <1>3, <1>4

LEMMA SameRest ==
  ASSUME UNCHANGED <<board, line, terminated>>
  PROVE  /\ AllQuiet' <=> AllQuiet
         /\ \A p : Coming(p)' <=> Coming(p)
<1>1. AllQuiet' <=> AllQuiet BY DEF AllQuiet
<1>2. ASSUME NEW p PROVE Coming(p)' <=> Coming(p)
  BY <1>1 DEF Coming
<1> QED BY <1>1, <1>2

\* What depends on the state of MIDAS, where that does not change.
LEMMA SamePhase ==
  ASSUME SystemInv, UNCHANGED <<board, line, terminated, midas, run, presses>>, Prepared' <=> Prepared
  PROVE  LineInv' /\ StoppedInv' /\ PreparedInv' /\ NumberInv'
<1>1. LineInv' BY SameLine DEF SystemInv
<1>2. StoppedInv' BY SameLine, SameRest DEF SystemInv, StoppedInv
<1>3. PreparedInv'
  <2>1. SUFFICES ASSUME Prepared
        PROVE  /\ Come \/ \E p \in 1..Len(line) : Coming(p)
               /\ \A x \in In(line) : x.role = "payload" => x.byte = RunBytes[run][4 - x.left]
    BY SameLine, SameRest DEF PreparedInv
  <2> QED BY <2>1 DEF SystemInv, PreparedInv
<1>4. NumberInv'
  <2>1. Begun' <=> Begun BY DEF Begun
  <2> QED BY <2>1, SameLine DEF SystemInv, NumberInv
<1> QED BY <1>1, <1>2, <1>3, <1>4

LEMMA Phases ==
  ASSUME TypeInv
  PROVE  /\ midas \in {"stopped", "starting", "running", "stopping", "waiting"}
         /\ Prepared => midas = "starting"
         /\ Begun <=> midas \in {"running", "stopping", "waiting"}
BY DEF TypeInv, CBTypeOK, Prepared, Begun

LEMMA StartInv ==
  ASSUME TypeInv, SystemInv, StartTransition
  PROVE  SystemInv'
<1>1. /\ midas = "stopped" /\ midas' = "starting" /\ asked' = {} /\ ready' = {}
      /\ UNCHANGED <<board, terminated, line, listener, request, presses>>
  BY DEF StartTransition, ack_vars
<1>2. ~Prepared' BY <1>1 DEF Prepared
<1>3. ~Begun' BY <1>1 DEF Begun
<1>4. Ending /\ AllQuiet BY <1>1 DEF SystemInv, StoppedInv
<1>5. StoppedInv' BY <1>1, <1>4, SameLine, SameRest DEF StoppedInv
<1>6. \A s \in ActiveSWB : ~request[s] BY <1>1 DEF SystemInv, HandshakeInv
<1>7. HandshakeInv'
  <2>1. \A f \in FEB :
          listener[f].run_prep_acknowledge_received => ~listener[f].end_of_run_received
    BY DEF SystemInv, HandshakeInv
  <2>2. \A f \in FEB : Acknowledged(f)' BY <1>1 DEF Acknowledged
  <2> QED BY <1>1, <1>6, <2>1, <2>2 DEF HandshakeInv
<1>8. NumberInv'
  <2>1. presses = 0 => \A x \in In(line) : x.role = "command" => x.byte # AbortRun
    BY DEF SystemInv, NumberInv
  <2> QED BY <1>1, <1>2, <1>3, <2>1 DEF NumberInv
<1>9. LineInv' BY <1>1, SameLine DEF SystemInv
<1> QED BY <1>2, <1>3, <1>5, <1>7, <1>8, <1>9 DEF SystemInv, PreparedInv, BegunInv

LEMMA ResetForgets ==
  ASSUME TypeInv, NEW s \in SWB, ResetListeners(s)
  PROVE  \A f \in FEB :
           /\ listener'[f].end_of_run_received <=> listener[f].end_of_run_received
           /\ f \in Boards[s] => ~listener'[f].run_prep_acknowledge_received
           /\ f \notin Boards[s] => listener'[f] = listener[f]
<1>1. listener' = [f \in FEB |->
        IF f \in Boards[s]
        THEN [listener[f] EXCEPT !.run_prep_acknowledge_received = FALSE,
                                 !.run_number = [i \in 1..3 |-> 0]]
        ELSE listener[f]]
  BY DEF ResetListeners
<1>2. \A f \in FEB : listener[f] \in Listener BY DEF TypeInv, CBTypeOK
<1> QED BY <1>1, <1>2 DEF Listener

\* A start that is cancelled before anything was requested: still at rest.
LEMMA StartCancelledInv ==
  ASSUME TypeInv, SystemInv, StartCancelled
  PROVE  SystemInv'
<1>1. /\ midas = "starting" /\ midas' = "stopped" /\ asked = {}
      /\ UNCHANGED <<board, terminated, line, request, asked, presses>>
  BY DEF StartCancelled
<1>2. ~Prepared /\ ~Prepared' /\ ~Begun' BY <1>1 DEF Prepared, Begun
<1>3. \A f \in FEB :
        /\ listener'[f].end_of_run_received <=> listener[f].end_of_run_received
        /\ listener'[f].run_prep_acknowledge_received => listener[f].run_prep_acknowledge_received
  <2>1. PICK s \in SWB : ResetListeners(s) BY DEF StartCancelled
  <2> QED BY <2>1, ResetForgets
<1>4. Ending /\ AllQuiet BY <1>1, <1>2 DEF SystemInv, StoppedInv
<1>5. StoppedInv' BY <1>1, <1>4, SameLine, SameRest DEF StoppedInv
<1>6. LineInv' BY <1>1, SameLine DEF SystemInv
<1>7. HandshakeInv'
  <2>1. \A s \in ActiveSWB : ~request[s] BY <1>1 DEF SystemInv, HandshakeInv
  <2>2. \A f \in FEB :
          listener'[f].run_prep_acknowledge_received => ~listener'[f].end_of_run_received
    BY <1>3 DEF SystemInv, HandshakeInv
  <2> QED BY <1>1, <2>1, <2>2 DEF HandshakeInv
<1>8. NumberInv'
  <2>1. presses = 0 => \A x \in In(line) : x.role = "command" => x.byte # AbortRun
    BY DEF SystemInv, NumberInv
  <2> QED BY <1>1, <1>2, <2>1 DEF NumberInv
<1> QED BY <1>2, <1>5, <1>6, <1>7, <1>8 DEF SystemInv, PreparedInv, BegunInv

LEMMA RequestForgets ==
  ASSUME TypeInv, NEW s \in SWB, RequestRunPrepare(s)
  PROVE  /\ \A f \in FEB :
              /\ listener'[f].end_of_run_received <=> listener[f].end_of_run_received
              /\ f \in Boards[s] => ~listener'[f].run_prep_acknowledge_received
              /\ f \notin Boards[s] => listener'[f] = listener[f]
         /\ Prepared' <=> Prepared
<1>1. /\ midas = "starting" /\ s \notin asked /\ asked' = asked \cup {s}
      /\ request' = [request EXCEPT ![s] = TRUE] /\ midas' = midas
  BY DEF RequestRunPrepare
<1>2. \A f \in FEB :
        /\ listener'[f].end_of_run_received <=> listener[f].end_of_run_received
        /\ f \in Boards[s] => ~listener'[f].run_prep_acknowledge_received
        /\ f \notin Boards[s] => listener'[f] = listener[f]
  BY ResetForgets DEF RequestRunPrepare
<1>3. Prepared' <=> Prepared
  <2>1. request \in [SWB -> BOOLEAN] BY DEF TypeInv, CBTypeOK
  <2>2. \A t \in SWB : t # s => (t \in asked' <=> t \in asked) /\ (request'[t] <=> request[t])
    BY <1>1, <2>1
  <2>3. request'[s] BY <1>1, <2>1
  <2>4. s \in ActiveSWB => ~Prepared /\ ~Prepared' BY <1>1, <2>3 DEF Prepared
  <2>5. s \notin ActiveSWB => (Prepared' <=> Prepared)
    BY <1>1, <2>2, MaskAssumption DEF Prepared
  <2> QED BY <2>4, <2>5
<1> QED BY <1>2, <1>3

LEMMA RequestInv ==
  ASSUME TypeInv, SystemInv, NEW s \in SWB, RequestRunPrepare(s)
  PROVE  SystemInv'
<1>1. /\ midas = "starting" /\ s \notin asked /\ asked' = asked \cup {s}
      /\ request' = [request EXCEPT ![s] = TRUE]
      /\ UNCHANGED <<board, terminated, line, midas, run, ready, presses>>
  BY DEF RequestRunPrepare
<1>2. \A f \in FEB :
        /\ listener'[f].end_of_run_received <=> listener[f].end_of_run_received
        /\ f \in Boards[s] => ~listener'[f].run_prep_acknowledge_received
        /\ f \notin Boards[s] => listener'[f] = listener[f]
  BY RequestForgets
<1>3. Prepared' <=> Prepared BY RequestForgets
<1>4. LineInv' /\ StoppedInv' /\ PreparedInv' /\ NumberInv'
  BY <1>1, <1>3, SamePhase
<1>5. BegunInv' BY <1>1 DEF BegunInv, Begun
<1>6. HandshakeInv'
  <2>1. /\ \A t \in ActiveSWB : request[t] => midas = "starting" /\ t \in asked
        /\ \A f \in FEB :
             listener[f].run_prep_acknowledge_received => ~listener[f].end_of_run_received
        /\ \A f \in FEB : Acknowledged(f)
    BY <1>1 DEF SystemInv, HandshakeInv
  <2>2. \A t \in ActiveSWB : request'[t] => midas' = "starting" /\ t \in asked'
    <3>1. request \in [SWB -> BOOLEAN] BY DEF TypeInv, CBTypeOK
    <3> QED BY <1>1, <2>1, <3>1, MaskAssumption
  <2>3. \A f \in FEB :
          listener'[f].run_prep_acknowledge_received => ~listener'[f].end_of_run_received
    BY <1>2, <2>1
  <2>4. ASSUME NEW f \in FEB PROVE Acknowledged(f)'
    <3>1. Read' <=> Read BY <1>1, SameLine
    <3>2. Acknowledged(f) BY <2>1
    <3>3. ASSUME NEW t \in asked', f \in Boards[t], listener'[f].run_prep_acknowledge_received
          PROVE  Prepared' /\ Read'
      <4>1. f \notin Boards[s] BY <1>2, <3>3
      <4>2. t \in asked /\ listener[f].run_prep_acknowledge_received BY <1>1, <1>2, <3>3, <4>1
      <4> QED BY <1>3, <3>1, <3>2, <3>3, <4>2 DEF Acknowledged
    <3>4. ASSUME NEW t \in ready', f \in Boards[t]
          PROVE  Prepared' /\ Read' /\ ~listener'[f].end_of_run_received
      BY <1>1, <1>2, <1>3, <3>1, <3>2, <3>4 DEF Acknowledged
    <3> QED BY <3>3, <3>4 DEF Acknowledged
  <2> QED BY <2>2, <2>3, <2>4 DEF HandshakeInv
<1> QED BY <1>4, <1>5, <1>6 DEF SystemInv

LEMMA ReturnInv ==
  ASSUME AsDeployed, TypeInv, SystemInv, NEW s \in SWB, RequestReturns(s)
  PROVE  SystemInv'
<1>1. /\ midas = "starting" /\ s \in asked /\ ready' = ready \cup {s}
      /\ Boards[s] \cap FEB \subseteq runNr_ack
      /\ UNCHANGED <<board, terminated, line, listener, midas, run, request, asked, presses>>
  BY DEF RequestReturns, AsDeployed, ack_vars
<1>2. Prepared' <=> Prepared BY <1>1 DEF Prepared
<1>3. LineInv' /\ StoppedInv' /\ PreparedInv' /\ NumberInv'
  BY <1>1, <1>2, SamePhase
<1>4. BegunInv' BY <1>1 DEF BegunInv, Begun
<1>5. HandshakeInv'
  <2>1. /\ \A t \in ActiveSWB : request[t] => midas = "starting" /\ t \in asked
        /\ \A f \in FEB :
             listener[f].run_prep_acknowledge_received => ~listener[f].end_of_run_received
        /\ \A f \in FEB : Acknowledged(f)
    BY <1>1 DEF SystemInv, HandshakeInv
  <2>2. ASSUME NEW f \in FEB PROVE Acknowledged(f)'
    <3>1. Read' <=> Read BY <1>1, SameLine
    <3>2. Acknowledged(f) BY <2>1
    <3>3. ASSUME f \in Boards[s]
          PROVE  Prepared /\ Read /\ ~listener[f].end_of_run_received
      <4>1. listener[f].run_prep_acknowledge_received BY <1>1, <3>3 DEF runNr_ack
      <4> QED BY <1>1, <2>1, <3>2, <3>3, <4>1 DEF Acknowledged
    <3>4. ASSUME NEW t \in ready', f \in Boards[t]
          PROVE  Prepared' /\ Read' /\ ~listener'[f].end_of_run_received
      BY <1>1, <1>2, <3>1, <3>2, <3>3, <3>4 DEF Acknowledged
    <3>5. ASSUME NEW t \in asked', f \in Boards[t], listener'[f].run_prep_acknowledge_received
          PROVE  Prepared' /\ Read'
      BY <1>1, <1>2, <3>1, <3>2, <3>5 DEF Acknowledged
    <3> QED BY <3>4, <3>5 DEF Acknowledged
  <2> QED BY <1>1, <2>1, <2>2 DEF HandshakeInv
<1> QED BY <1>3, <1>4, <1>5 DEF SystemInv

\* A board that shows a run, or its end before the merger has sent it, is
\* not at rest.
LEMMA NotQuiet ==
  ASSUME SystemInv, TypeInv, NEW f \in FEB, ~Quiet(board[f], f \in terminated)
  PROVE  Begun \/ (Prepared /\ Come)
<1>1. ~AllQuiet BY DEF AllQuiet
<1>2. ~(midas = "stopped" \/ (midas = "starting" /\ ~Prepared))
  BY <1>1 DEF SystemInv, StoppedInv
<1>3. Prepared => Come
  BY <1>1 DEF SystemInv, PreparedInv, Coming
<1> QED BY <1>2, <1>3, Phases

LEMMA AcknowledgeListened ==
  ASSUME TypeInv, NEW f \in FEB, Acknowledge(f)
  PROVE  /\ listener'[f].run_prep_acknowledge_received /\ ~listener'[f].end_of_run_received
         /\ \A g \in FEB : g # f => listener'[g] = listener[g]
<1>1. listener \in [FEB -> Listener] BY DEF TypeInv, CBTypeOK
<1>2. listener' = [listener EXCEPT ![f] =
         [run_prep_acknowledge_received |-> TRUE, end_of_run_received |-> FALSE,
          run_number |-> [i \in 1..3 |-> board[f].payload["PREP"][i]]]]
  BY DEF Acknowledge
<1> QED BY <1>1, <1>2

LEMMA AcknowledgeInv ==
  ASSUME TypeInv, SystemInv, NEW f \in FEB, Acknowledge(f)
  PROVE  SystemInv'
<1>1. /\ board[f].o_state = "PREP"
      /\ UNCHANGED <<board, terminated, line, midas, run, request, asked, ready, presses>>
  BY DEF Acknowledge, sw_vars
<1>2. /\ listener'[f].run_prep_acknowledge_received /\ ~listener'[f].end_of_run_received
      /\ \A g \in FEB : g # f => listener'[g] = listener[g]
  BY AcknowledgeListened
<1>3. Prepared' <=> Prepared BY <1>1 DEF Prepared
<1>4. LineInv' /\ StoppedInv' /\ PreparedInv' /\ NumberInv'
  BY <1>1, <1>3, SamePhase
<1>5. ~Quiet(board[f], f \in terminated) BY <1>1 DEF Quiet
<1>6. Begun \/ (Prepared /\ Come) BY <1>5, NotQuiet
<1>7. BegunInv'
  <2>1. \A g \in FEB : listener'[g].end_of_run_received => listener[g].end_of_run_received
    BY <1>2
  <2>2. Ending' <=> Ending BY <1>1, SameLine
  <2> QED BY <1>1, <2>1, <2>2 DEF SystemInv, BegunInv, Begun
<1>8. HandshakeInv'
  <2>1. /\ \A t \in ActiveSWB : request[t] => midas = "starting" /\ t \in asked
        /\ \A g \in FEB :
             listener[g].run_prep_acknowledge_received => ~listener[g].end_of_run_received
        /\ midas = "starting" => \A g \in FEB : Acknowledged(g)
    BY DEF SystemInv, HandshakeInv
  <2>2. \A g \in FEB :
          listener'[g].run_prep_acknowledge_received => ~listener'[g].end_of_run_received
    BY <1>2, <2>1
  <2>3. ASSUME midas = "starting", NEW g \in FEB PROVE Acknowledged(g)'
    <3>1. Prepared /\ Come BY <1>6, <2>3 DEF Begun
    <3>2. Read
      <4>1. ~board[f].recieving_payload BY <1>1, <3>1 DEF Come
      <4>2. \A i \in 1..Len(line) : line[i].role # "payload" BY <3>1, <4>1 DEF Come
      <4> QED BY <3>1, <4>2 DEF Read, In
    <3>3. Prepared' /\ Read' BY <1>1, <1>3, <3>1, <3>2, SameLine
    <3>4. Acknowledged(g) BY <2>1, <2>3
    <3>5. listener'[g].end_of_run_received => listener[g].end_of_run_received BY <1>2
    <3> QED BY <1>1, <3>3, <3>4, <3>5 DEF Acknowledged
  <2> QED BY <1>1, <2>1, <2>2, <2>3 DEF HandshakeInv
<1> QED BY <1>4, <1>7, <1>8 DEF SystemInv

LEMMA TerminateListened ==
  ASSUME TypeInv, NEW f \in FEB, Terminate(f)
  PROVE  /\ ~listener'[f].run_prep_acknowledge_received
         /\ \A g \in FEB : g # f => listener'[g] = listener[g]
<1>1. listener \in [FEB -> Listener] BY DEF TypeInv, CBTypeOK
<1>2. listener' = [listener EXCEPT ![f].run_prep_acknowledge_received = FALSE,
                                   ![f].end_of_run_received = TRUE]
  BY DEF Terminate
<1>3. listener'[f] = [listener[f] EXCEPT !.run_prep_acknowledge_received = FALSE,
                                         !.end_of_run_received = TRUE]
  BY <1>1, <1>2
<1>4. listener[f] \in Listener BY <1>1
<1>5. ~listener'[f].run_prep_acknowledge_received BY <1>3, <1>4 DEF Listener
<1> QED BY <1>1, <1>2, <1>5

LEMMA TerminateInv ==
  ASSUME TypeInv, SystemInv, NEW f \in FEB, Terminate(f)
  PROVE  SystemInv'
<1>1. /\ board[f].o_state = "TERMINATING" /\ f \notin terminated
      /\ terminated' = terminated \cup {f}
      /\ UNCHANGED <<board, line, midas, run, request, asked, ready, presses>>
  BY DEF Terminate, sw_vars
<1>2. /\ ~listener'[f].run_prep_acknowledge_received
      /\ \A g \in FEB : g # f => listener'[g] = listener[g]
  BY TerminateListened
<1>3. ~Quiet(board[f], f \in terminated) BY <1>1 DEF Quiet
<1>4. Begun
  <2>1. Come => board[f].o_state # "TERMINATING" BY DEF Come
  <2> QED BY <1>1, <1>3, <2>1, NotQuiet
<1>5. midas \in {"running", "stopping", "waiting"} /\ ~Prepared
  BY <1>4, Phases
<1>6. midas' # "starting" /\ midas' # "stopped" /\ ~Prepared' /\ Begun'
  BY <1>1, <1>4, <1>5 DEF Prepared, Begun
<1>7. LineInv' BY <1>1, SameLine DEF SystemInv
<1>8. StoppedInv' /\ PreparedInv' BY <1>6 DEF StoppedInv, PreparedInv
<1>9. NumberInv'
  <2>1. Ending' <=> Ending BY <1>1, SameLine
  <2> QED BY <1>1, <1>4, <1>6, <2>1 DEF SystemInv, NumberInv
<1>10. HandshakeInv'
  <2>1. \A g \in FEB :
          listener'[g].run_prep_acknowledge_received => ~listener'[g].end_of_run_received
    BY <1>2 DEF SystemInv, HandshakeInv
  <2> QED BY <1>1, <1>6, <2>1 DEF SystemInv, HandshakeInv
<1>11. BegunInv'
  <2>1. /\ \A x \in In(line) : x.role = "payload" => x.byte = 0
        /\ \A i, j \in 1..Len(line) :
             i < j /\ line[i].role = "command" /\ line[i].byte = EndRun => Late(line[j])
        /\ \A g \in FEB : board[g].state = "TERMINATING" \/ board[g].o_state = "TERMINATING" => Ending
        /\ \A g \in FEB : board[g].o_state = "TERMINATING" => board[g].state \in {"IDLE", "TERMINATING"}
        /\ \A g \in FEB : listener[g].end_of_run_received => Ending /\ Quiet(board[g], g \in terminated)
    BY <1>4 DEF SystemInv, BegunInv
  <2>2. Ending' <=> Ending BY <1>1, SameLine
  <2>3. Quiet(board[f], TRUE)
    <3>1. board[f].state \in {"IDLE", "TERMINATING"} BY <1>1, <2>1
    <3>2. PayloadFits(board[f]) BY DEF TypeInv, BoardsInv, BoardInv
    <3>3. ~board[f].recieving_payload BY <3>1, <3>2 DEF PayloadFits, PayloadState
    <3> QED BY <1>1, <3>1, <3>3 DEF Quiet
  <2>4. ASSUME NEW g \in FEB, listener'[g].end_of_run_received
        PROVE  Ending /\ Quiet(board[g], g \in terminated')
    <3>1. CASE g = f
      <4>1. f \in terminated' BY <1>1
      <4>2. Quiet(board[f], f \in terminated') BY <2>3, <4>1 DEF Quiet
      <4> QED BY <1>1, <2>1, <3>1, <4>2
    <3>2. CASE g # f
      <4>1. Ending /\ Quiet(board[g], g \in terminated) BY <1>2, <2>1, <2>4, <3>2
      <4>2. g \in terminated => g \in terminated' BY <1>1
      <4> QED BY <4>1, <4>2 DEF Quiet
    <3> QED BY <3>1, <3>2
  <2>5. \A g \in FEB : listener'[g].end_of_run_received
          => Ending' /\ Quiet(board'[g], g \in terminated')
    BY <1>1, <2>2, <2>4
  <2> QED BY <1>1, <2>1, <2>2, <2>5 DEF BegunInv
<1> QED BY <1>7, <1>8, <1>9, <1>10, <1>11 DEF SystemInv

\* The stop is confirmed: all boards have sent their end of run.
LEMMA ConfirmedInv ==
  ASSUME AsDeployed, TypeInv, SystemInv, StopConfirmed
  PROVE  SystemInv'
<1>1. /\ midas \in {"stopping", "waiting"} /\ midas' = "stopped" /\ FEB \subseteq run_stop_ack
      /\ UNCHANGED <<board, terminated, line, listener, run, request, asked, ready, presses>>
  BY DEF StopConfirmed, AsDeployed, ack_vars
<1>2. Begun /\ ~Begun' /\ ~Prepared' BY <1>1 DEF Begun, Prepared
<1>3. \A f \in FEB : Ending /\ Quiet(board[f], f \in terminated)
  BY <1>1, <1>2 DEF SystemInv, BegunInv, run_stop_ack
<1>4. Ending /\ AllQuiet BY <1>3 DEF AsDeployed, AllQuiet
<1>5. StoppedInv' BY <1>1, <1>4, SameLine, SameRest DEF StoppedInv
<1>6. LineInv' BY <1>1, SameLine DEF SystemInv
<1>7. HandshakeInv' BY <1>1 DEF SystemInv, HandshakeInv
<1>8. NumberInv'
  <2>1. presses = 0 => \A x \in In(line) : x.role = "command" => x.byte # AbortRun
    BY DEF SystemInv, NumberInv
  <2> QED BY <1>1, <1>2, <2>1 DEF NumberInv
<1> QED BY <1>2, <1>5, <1>6, <1>7, <1>8 DEF SystemInv, PreparedInv, BegunInv

LEMMA CancelledInv ==
  ASSUME TypeInv, SystemInv, WaitForRunEnd \/ StopCancelled
  PROVE  SystemInv'
<1>1. /\ midas \in {"stopping", "waiting"} /\ midas' \in {"waiting", "running"}
      /\ UNCHANGED <<board, terminated, line, listener, run, request, asked, ready, presses>>
  BY DEF WaitForRunEnd, StopCancelled, ack_vars
<1>2. Begun /\ Begun' /\ ~Prepared' /\ ~Prepared BY <1>1 DEF Begun, Prepared
<1>3. LineInv' /\ (Ending' <=> Ending) BY <1>1, SameLine DEF SystemInv
<1>4. StoppedInv' /\ PreparedInv' BY <1>1, <1>2 DEF StoppedInv, PreparedInv
<1>5. BegunInv' BY <1>1, <1>2, <1>3 DEF SystemInv, BegunInv
<1>6. HandshakeInv' BY <1>1 DEF SystemInv, HandshakeInv
<1>7. NumberInv' BY <1>1, <1>2, <1>3 DEF SystemInv, NumberInv
<1> QED BY <1>3, <1>4, <1>5, <1>6, <1>7 DEF SystemInv

LEMMA TalksInv ==
  ASSUME AsDeployed, TypeInv, SystemInv, Talks
  PROVE  SystemInv'
BY StartInv, StartCancelledInv, RequestInv, ReturnInv, AcknowledgeInv, TerminateInv, ConfirmedInv, CancelledInv
   DEF Talks
-----------------------------------------------------------------------------
(***************************************************************************)
(* What is written joins the line behind what is still on it.              *)
(***************************************************************************)
LEMMA Wrote ==
  ASSUME TypeInv, NEW q \in Seq(Symbol), Write(q)
  PROVE  /\ \A x \in In(line') : x \in In(line) \/ x \in In(q)
         /\ Len(line') = Len(line) + Len(q) /\ Len(line) \in Nat /\ Len(q) \in Nat
         /\ \A i \in 1..Len(line') : (i <= Len(line) /\ i \in 1..Len(line) /\ line'[i] = line[i])
              \/ \E j \in 1..Len(q) : i = Len(line) + j /\ line'[i] = q[j]
<1>1. line \in Seq(Symbol) /\ line' = line \o q BY DEF TypeInv, CBTypeOK, Write
<1>2. PICK p : p = line OBVIOUS
<1>3. PICK r : r = line' OBVIOUS
<1>4. p \in Seq(Symbol) /\ r = p \o q BY <1>1, <1>2, <1>3
<1>5. \A x \in In(r) : x \in In(p) \/ x \in In(q) BY <1>4, InJoined
<1>6. Len(r) = Len(p) + Len(q) /\ Len(p) \in Nat /\ Len(q) \in Nat BY <1>4, InJoined
<1>7. \A i \in 1..Len(r) : (i <= Len(p) /\ i \in 1..Len(p) /\ r[i] = p[i])
        \/ \E j \in 1..Len(q) : i = Len(p) + j /\ r[i] = q[j]
  BY <1>4, InJoined
<1> QED BY <1>2, <1>3, <1>5, <1>6, <1>7

LEMMA WriteLine ==
  ASSUME TypeInv, LineInv, NEW q \in Seq(Symbol), Shaped(q), Len(q) > 0, Opens(q[1]),
         Write(q), board' = board
  PROVE  /\ LineInv'
         /\ \A x \in In(line') : x \in In(line) \/ x \in In(q)
         /\ Len(line') = Len(line) + Len(q) /\ Len(line) \in Nat /\ Len(q) \in Nat
         /\ \A i \in 1..Len(line') : (i <= Len(line) /\ i \in 1..Len(line) /\ line'[i] = line[i])
              \/ \E j \in 1..Len(q) : i = Len(line) + j /\ line'[i] = q[j]
         /\ \A i \in 1..Len(line) : i \in 1..Len(line') /\ line'[i] = line[i]
         /\ \A j \in 1..Len(q) : Len(line) + j \in 1..Len(line') /\ line'[Len(line) + j] = q[j]
<1>1. line \in Seq(Symbol) /\ line' = line \o q BY DEF TypeInv, CBTypeOK, Write
<1>2. /\ \A x \in In(line') : x \in In(line) \/ x \in In(q)
      /\ Len(line') = Len(line) + Len(q) /\ Len(line) \in Nat /\ Len(q) \in Nat
      /\ \A i \in 1..Len(line') : (i <= Len(line) /\ i \in 1..Len(line) /\ line'[i] = line[i])
           \/ \E j \in 1..Len(q) : i = Len(line) + j /\ line'[i] = q[j]
  BY Wrote
<1>3. Shaped(line') BY <1>1, ShapedJoin DEF LineInv
<1>4. /\ \A i \in 1..Len(line) : line'[i] = line[i]
      /\ \A j \in 1..Len(q) : line'[Len(line) + j] = q[j]
  <2>0. line \in Seq(Symbol) /\ q \in Seq(Symbol) BY <1>1
  <2>1. \A i \in 1..Len(line) : line'[i] = line[i] BY <1>1, <2>0, Joined
  <2>2. \A i \in 1..Len(q) : line'[Len(line) + i] = q[i] BY <1>1, <2>0, Joined
  <2> QED BY <2>1, <2>2
<1>5. /\ \A i \in 1..Len(line) : i \in 1..Len(line')
      /\ \A j \in 1..Len(q) : Len(line) + j \in 1..Len(line')
  <2> DEFINE m == Len(line)  n == Len(q)  k == Len(line')
  <2>1. m \in Nat /\ n \in Nat /\ k = m + n BY <1>2
  <2> HIDE DEF m, n, k
  <2>2. \A i \in 1..m : i \in 1..k BY <2>1
  <2>3. \A j \in 1..n : m + j \in 1..k BY <2>1
  <2> QED BY <2>2, <2>3 DEF m, n, k
<1>6. line' # <<>>
  <2>1. Len(line') > 0 BY <1>2
  <2> QED BY <2>1
<1>7. ASSUME NEW f \in FEB PROVE Hearing(f)' /\ board'[f].state \in Running
  <2>1. Hearing(f) /\ board'[f].state \in Running BY DEF LineInv
  <2>2. CASE line = <<>>
    <3>1. 1 \in 1..Len(q) /\ Len(line) + 1 = 1 BY <1>2, <2>2
    <3>2. line'[1] = q[1] BY <1>4, <3>1
    <3>3. Listens(board[f]) /\ ~board[f].recieving_payload BY <2>1, <2>2 DEF Hearing
    <3>4. q[1].role # "payload" /\ q[1].role # "command" /\ ~(q[1].left < 2) BY DEF Opens
    <3>5. Hears(board[f], f, q[1]) BY <3>3, <3>4 DEF Hears
    <3> QED BY <1>6, <2>1, <3>2, <3>5 DEF Hearing
  <2>3. CASE line # <<>>
    <3>1. 1 \in 1..Len(line) BY <1>1, <2>3, EmptySeq, LenProperties
    <3>2. line'[1] = line[1] BY <1>4, <3>1
    <3>3. Hears(board[f], f, line[1]) BY <2>1, <2>3 DEF Hearing
    <3> QED BY <1>6, <2>1, <3>2, <3>3 DEF Hearing
  <2> QED BY <2>2, <2>3
<1>8. LineInv' BY <1>3, <1>7 DEF LineInv
<1> QED BY <1>2, <1>4, <1>5, <1>8

LEMMA FrameSymbols ==
  ASSUME NEW cmd \in Commands, cmd \in Byte, NEW p \in [1..4 -> Byte],
         NEW q, q = Frame(cmd, p)
  PROVE  \A x \in In(q) :
           /\ x.role # "address"
           /\ x.role = "command" => x.byte = cmd
           /\ x.role = "payload" => cmd = RunPrepare /\ x.byte = p[4 - x.left]
<1>1. /\ Len(q) = IF cmd = RunPrepare THEN 8 ELSE 4
      /\ \A i \in 1..3 : q[i] = Sym(Comma, FEB, "comma", 3 - i)
      /\ q[4] = Sym(cmd, FEB, "command", 0)
      /\ \A i \in 5..Len(q) : q[i] = Sym(p[i - 4], FEB, "payload", 8 - i)
  <2>1. Len(q) = IF cmd = RunPrepare THEN 8 ELSE 4 BY ShapedFrame
  <2>2. \A i \in 1..3 : q[i] = Sym(Comma, FEB, "comma", 3 - i) BY ShapedFrame
  <2>3. q[4] = Sym(cmd, FEB, "command", 0) BY ShapedFrame
  <2>4. \A i \in 5..Len(q) : q[i] = Sym(p[i - 4], FEB, "payload", 8 - i) BY ShapedFrame
  <2> QED BY <2>1, <2>2, <2>3, <2>4
<1>2. SUFFICES ASSUME NEW i \in 1..Len(q)
               PROVE  /\ q[i].role # "address"
                      /\ q[i].role = "command" => q[i].byte = cmd
                      /\ q[i].role = "payload" => cmd = RunPrepare /\ q[i].byte = p[4 - q[i].left]
  BY DEF In
<1>3. i \in 1..3 \/ i = 4 \/ i \in 5..Len(q) BY <1>1
<1>4. CASE i \in 1..3
  <2>1. q[i] = Sym(Comma, FEB, "comma", 3 - i) BY <1>1, <1>4
  <2>2. q[i].role = "comma" BY <2>1 DEF Sym
  <2> QED BY <2>2
<1>5. CASE i = 4
  <2>0. q[i] = Sym(cmd, FEB, "command", 0) BY <1>1, <1>5
  <2>1. q[i].role = "command" /\ q[i].byte = cmd BY <2>0 DEF Sym
  <2> QED BY <2>1
<1>6. CASE i \in 5..Len(q)
  <2>1. cmd = RunPrepare /\ i \in 5..8 BY <1>1, <1>6
  <2>2. q[i].role = "payload" /\ q[i].byte = p[i - 4] /\ q[i].left = 8 - i
    <3>1. q[i] = Sym(p[i - 4], FEB, "payload", 8 - i) BY <1>1, <1>6
    <3> QED BY <3>1 DEF Sym
  <2>3. 4 - (8 - i) = i - 4 BY <2>1
  <2> QED BY <2>1, <2>2, <2>3
<1> QED BY <1>3, <1>4, <1>5, <1>6

LEMMA ZeroIs == \A i \in 1..4 : Zero[i] = 0
BY DEF Zero

\* What crfe sends to start the run.
LEMMA BeginIs ==
  /\ BeginFrames \in Seq(Symbol) /\ Shaped(BeginFrames) /\ Opens(BeginFrames[1])
  /\ Len(BeginFrames) > 0
  /\ \A x \in In(BeginFrames) :
       /\ x.role # "address"
       /\ x.role = "command" => x.byte \in {RunPrepare, Sync, StartRun}
       /\ x.role = "payload" => x.byte = 0
<1>1. /\ RunPrepare \in Commands /\ Sync \in Commands /\ StartRun \in Commands
      /\ RunPrepare \in Byte /\ Sync \in Byte /\ StartRun \in Byte
      /\ Zero \in [1..4 -> Byte]
  BY CommandBytes DEF Commands
<1>2. PICK a : a = Frame(RunPrepare, Zero) OBVIOUS
<1>3. PICK b : b = Frame(Sync, Zero) OBVIOUS
<1>4. PICK c : c = Frame(StartRun, Zero) OBVIOUS
<1>5. a \in Seq(Symbol) /\ Shaped(a) /\ Opens(a[1]) /\ Len(a) > 0
  <2>1. Len(a) = IF RunPrepare = RunPrepare THEN 8 ELSE 4 BY <1>1, <1>2, ShapedFrame
  <2> QED BY <1>1, <1>2, <2>1, ShapedFrame
<1>6. b \in Seq(Symbol) /\ Shaped(b) /\ Opens(b[1]) /\ Len(b) > 0
  <2>1. Len(b) = IF Sync = RunPrepare THEN 8 ELSE 4 BY <1>1, <1>3, ShapedFrame
  <2> QED BY <1>1, <1>3, <2>1, ShapedFrame
<1>7. c \in Seq(Symbol) /\ Shaped(c) /\ Opens(c[1]) /\ Len(c) > 0
  <2>1. Len(c) = IF StartRun = RunPrepare THEN 8 ELSE 4 BY <1>1, <1>4, ShapedFrame
  <2> QED BY <1>1, <1>4, <2>1, ShapedFrame
<1>8. PICK d : d = a \o b OBVIOUS
<1>9. PICK e : e = d \o c OBVIOUS
<1>10. e = BeginFrames BY <1>2, <1>3, <1>4, <1>8, <1>9 DEF BeginFrames
<1>11. /\ d \in Seq(Symbol) /\ Len(d) = Len(a) + Len(b)
       /\ \A i \in 1..Len(a) : d[i] = a[i]
  <2>0. a \in Seq(Symbol) /\ b \in Seq(Symbol) BY <1>5, <1>6
  <2>1. d \in Seq(Symbol) BY <1>8, <2>0, Joined
  <2>2. Len(d) = Len(a) + Len(b) BY <1>8, <2>0, Joined
  <2>3. \A i \in 1..Len(a) : d[i] = a[i] BY <1>8, <2>0, Joined
  <2> QED BY <2>1, <2>2, <2>3
<1>12. /\ e \in Seq(Symbol) /\ Len(e) = Len(d) + Len(c)
       /\ \A i \in 1..Len(d) : e[i] = d[i]
  <2>0. d \in Seq(Symbol) /\ c \in Seq(Symbol) BY <1>7, <1>11
  <2>1. e \in Seq(Symbol) BY <1>9, <2>0, Joined
  <2>2. Len(e) = Len(d) + Len(c) BY <1>9, <2>0, Joined
  <2>3. \A i \in 1..Len(d) : e[i] = d[i] BY <1>9, <2>0, Joined
  <2> QED BY <2>1, <2>2, <2>3
<1>13. Len(a) \in Nat /\ Len(b) \in Nat /\ Len(c) \in Nat BY <1>5, <1>6, <1>7, LenProperties
<1>14. 1 \in 1..Len(a) /\ 1 \in 1..Len(d) /\ Len(e) > 0
  BY <1>5, <1>6, <1>7, <1>11, <1>12, <1>13
<1>15. e[1] = a[1] BY <1>11, <1>12, <1>14
<1>16. Shaped(d) BY <1>5, <1>6, <1>8, ShapedJoin
<1>17. Shaped(e) BY <1>7, <1>9, <1>11, <1>16, ShapedJoin
<1>18. ASSUME NEW x \in In(e)
       PROVE  /\ x.role # "address"
              /\ x.role = "command" => x.byte \in {RunPrepare, Sync, StartRun}
              /\ x.role = "payload" => x.byte = 0
  <2>1. \A y \in In(d) : y \in In(a) \/ y \in In(b) BY <1>5, <1>6, <1>8, InJoined
  <2>2. \A y \in In(e) : y \in In(d) \/ y \in In(c) BY <1>7, <1>9, <1>11, InJoined
  <2>3. x \in In(a) \/ x \in In(b) \/ x \in In(c) BY <2>1, <2>2
  <2>4. CASE x \in In(a)
    <3>0. x.role # "address" BY <1>1, <1>2, <2>4, FrameSymbols
    <3>1. x.role = "command" => x.byte = RunPrepare BY <1>1, <1>2, <2>4, FrameSymbols
    <3>2. x.role = "payload" => x.byte = Zero[4 - x.left] BY <1>1, <1>2, <2>4, FrameSymbols
    <3>3. IsSymbol(x) BY <1>5, <2>4 DEF In, Shaped
    <3>4. x.role = "payload" => 4 - x.left \in 1..4
      BY <3>3 DEF IsSymbol, IsComma, IsCommand, IsPayload, IsAddress
    <3> QED BY <3>0, <3>1, <3>2, <3>4, ZeroIs
  <2>5. CASE x \in In(b)
    <3>0. x.role # "address" BY <1>1, <1>3, <2>5, FrameSymbols
    <3>1. x.role = "command" => x.byte = Sync BY <1>1, <1>3, <2>5, FrameSymbols
    <3>2. x.role = "payload" => Sync = RunPrepare BY <1>1, <1>3, <2>5, FrameSymbols
    <3> QED BY <3>0, <3>1, <3>2 DEF Sync, RunPrepare
  <2>6. CASE x \in In(c)
    <3>0. x.role # "address" BY <1>1, <1>4, <2>6, FrameSymbols
    <3>1. x.role = "command" => x.byte = StartRun BY <1>1, <1>4, <2>6, FrameSymbols
    <3>2. x.role = "payload" => StartRun = RunPrepare BY <1>1, <1>4, <2>6, FrameSymbols
    <3> QED BY <3>0, <3>1, <3>2 DEF StartRun, RunPrepare
  <2> QED BY <2>3, <2>4, <2>5, <2>6
<1> QED BY <1>5, <1>10, <1>12, <1>14, <1>15, <1>17, <1>18

LEMMA PrepareInv ==
  ASSUME TypeInv, SystemInv, PrepareRunOnRequest
  PROVE  SystemInv'
<1>1. /\ ActiveSWB # {} /\ \A s \in ActiveSWB : request[s]
      /\ Write(Frame(RunPrepare, RunBytes[run]))
      /\ request' = [s \in SWB |-> FALSE]
      /\ UNCHANGED <<board, terminated, listener, midas, run, asked, ready, presses>>
  BY DEF PrepareRunOnRequest, ack_vars
<1>2. /\ \A s \in ActiveSWB : request[s] => midas = "starting" /\ s \in asked
      /\ \A f \in FEB :
           listener[f].run_prep_acknowledge_received => ~listener[f].end_of_run_received
      /\ midas = "starting" => \A f \in FEB : Acknowledged(f)
  BY DEF SystemInv, HandshakeInv
<1>3. /\ midas = "starting" /\ \A s \in ActiveSWB : s \in asked
      /\ ~Prepared /\ Prepared' /\ ~Begun'
  BY <1>1, <1>2, MaskAssumption DEF Prepared, Begun
<1>4. Ending /\ AllQuiet BY <1>3 DEF SystemInv, StoppedInv
<1>5. RunBytes[run] \in [1..4 -> Byte]
  <2>1. run \in 1..MaxRuns BY <1>3 DEF TypeInv, CBTypeOK
  <2> QED BY <2>1, CommandBytes
<1>6. PICK p \in [1..4 -> Byte] : p = RunBytes[run] BY <1>5
<1>7. PICK q : q = Frame(RunPrepare, p) OBVIOUS
<1>8. RunPrepare \in Commands /\ RunPrepare \in Byte BY CommandBytes DEF Commands
<1>9. /\ q \in Seq(Symbol) /\ Shaped(q) /\ Opens(q[1]) /\ Len(q) = 8
      /\ \A i \in 1..3 : q[i] = Sym(Comma, FEB, "comma", 3 - i)
      /\ q[4] = Sym(RunPrepare, FEB, "command", 0)
      /\ \A i \in 5..8 : q[i] = Sym(p[i - 4], FEB, "payload", 8 - i)
  <2>1. Len(q) = IF RunPrepare = RunPrepare THEN 8 ELSE 4 BY <1>7, <1>8, ShapedFrame
  <2>2. q \in Seq(Symbol) /\ Shaped(q) /\ Opens(q[1]) BY <1>7, <1>8, ShapedFrame
  <2>3. \A i \in 1..3 : q[i] = Sym(Comma, FEB, "comma", 3 - i) BY <1>7, <1>8, ShapedFrame
  <2>4. q[4] = Sym(RunPrepare, FEB, "command", 0) BY <1>7, <1>8, ShapedFrame
  <2>5. \A i \in 5..Len(q) : q[i] = Sym(p[i - 4], FEB, "payload", 8 - i) BY <1>7, <1>8, ShapedFrame
  <2>6. Len(q) = 8 BY <2>1
  <2> QED BY <2>2, <2>3, <2>4, <2>5, <2>6
<1>10. Write(q) /\ LineInv /\ board' = board /\ Len(q) > 0
  BY <1>1, <1>6, <1>7, <1>9 DEF SystemInv
<1>11. LineInv' BY <1>9, <1>10, WriteLine
<1>12. \A x \in In(line') : x \in In(line) \/ x \in In(q) BY <1>9, <1>10, WriteLine
<1>13. /\ Len(line) \in Nat
       /\ \A i \in 1..Len(line') : (i <= Len(line) /\ i \in 1..Len(line) /\ line'[i] = line[i])
            \/ \E j \in 1..Len(q) : i = Len(line) + j /\ line'[i] = q[j]
       /\ \A j \in 1..Len(q) : Len(line) + j \in 1..Len(line') /\ line'[Len(line) + j] = q[j]
  <2>1. Len(line) \in Nat BY <1>9, <1>10, WriteLine
  <2>2. \A i \in 1..Len(line') : (i <= Len(line) /\ i \in 1..Len(line) /\ line'[i] = line[i])
            \/ \E j \in 1..Len(q) : i = Len(line) + j /\ line'[i] = q[j]
    BY <1>9, <1>10, WriteLine
  <2>3. \A j \in 1..Len(q) : Len(line) + j \in 1..Len(line') /\ line'[Len(line) + j] = q[j]
    BY <1>9, <1>10, WriteLine
  <2> QED BY <2>1, <2>2, <2>3
<1>0. PICK n : n = Len(line) OBVIOUS
<1>14. n + 4 \in 1..Len(line') /\ line'[n + 4] = q[4] /\ n \in Nat
  BY <1>0, <1>9, <1>13
<1>15. q[4].role = "command" /\ q[4].byte = RunPrepare BY <1>9 DEF Sym
<1>16. Coming(n + 4)'
  <2>1. line'[n + 4].role = "command" /\ line'[n + 4].byte = RunPrepare BY <1>14, <1>15
  <2>2. ASSUME NEW i \in 1..Len(line'), i < n + 4 PROVE Late(line'[i])
    <3>1. CASE i \in 1..n /\ line'[i] = line[i] BY <1>0, <1>4, <3>1 DEF Ending, In
    <3>2. CASE \E j \in 1..Len(q) : i = n + j /\ line'[i] = q[j]
      <4>1. PICK j \in 1..8 : i = n + j /\ line'[i] = q[j] BY <1>9, <3>2
      <4>2. j \in 1..3 BY <1>14, <2>2, <4>1
      <4>3. q[j] = Sym(Comma, FEB, "comma", 3 - j) BY <1>9, <4>2
      <4> QED BY <4>1, <4>3 DEF Late, Sym
    <3> QED BY <1>0, <1>13, <3>1, <3>2
  <2>3. ASSUME NEW i \in 1..Len(line'), i > n + 4
        PROVE  /\ Aborts(line'[i])
               /\ line'[i].role = "payload" => i + line'[i].left = (n + 4) + 4
    <3>1. PICK j \in 1..8 : i = n + j /\ line'[i] = q[j]
      <4>1. ~(i <= n) BY <1>14, <2>3
      <4> QED BY <1>0, <1>9, <1>13, <4>1
    <3>2. j \in 5..8 BY <1>14, <2>3, <3>1
    <3>3. q[j] = Sym(p[j - 4], FEB, "payload", 8 - j) BY <1>9, <3>2
    <3>4. q[j].role = "payload" /\ q[j].left = 8 - j BY <3>3 DEF Sym
    <3>5. i + (8 - j) = (n + 4) + 4 BY <1>14, <3>1, <3>2
    <3> QED BY <3>1, <3>4, <3>5 DEF Aborts
  <2>4. AllQuiet' BY <1>1, <1>4 DEF AllQuiet
  <2>5. ~(n + 4 <= 3) BY <1>14
  <2> QED BY <2>1, <2>2, <2>3, <2>4, <2>5 DEF Coming
<1>17. \A x \in In(line') : x.role = "payload" => x.byte = RunBytes[run'][4 - x.left]
  <2>1. \A x \in In(line) : x.role # "payload" BY <1>4 DEF Ending, Late
  <2>2. \A x \in In(q) : x.role = "payload" => x.byte = p[4 - x.left]
    BY <1>7, <1>8, FrameSymbols
  <2> QED BY <1>1, <1>6, <1>12, <2>1, <2>2
<1>18. PreparedInv' BY <1>14, <1>16, <1>17 DEF PreparedInv
<1>19. StoppedInv' BY <1>1, <1>3 DEF StoppedInv
<1>20. BegunInv' BY <1>3 DEF BegunInv
<1>21. HandshakeInv'
  <2>1. ASSUME NEW f \in FEB PROVE Acknowledged(f)'
    <3>1. Acknowledged(f) BY <1>2, <1>3
    <3> QED BY <1>1, <1>3, <3>1 DEF Acknowledged
  <2> QED BY <1>1, <1>2, <2>1 DEF HandshakeInv
<1>22. NumberInv'
  <2>1. ~Come'
    <3>1. ~Aborts(line'[n + 4]) BY <1>14, <1>15 DEF Aborts, AbortRun, RunPrepare
    <3> QED BY <1>14, <3>1 DEF Come
  <2>2. presses = 0 => \A x \in In(line) : x.role = "command" => x.byte # AbortRun
    BY DEF SystemInv, NumberInv
  <2>3. \A x \in In(q) : x.role = "command" => x.byte = RunPrepare
    BY <1>7, <1>8, FrameSymbols
  <2>4. RunPrepare # AbortRun BY DEF RunPrepare, AbortRun
  <2> QED BY <1>1, <1>3, <1>12, <2>1, <2>2, <2>3, <2>4 DEF NumberInv
<1> QED BY <1>11, <1>18, <1>19, <1>20, <1>21, <1>22 DEF SystemInv

LEMMA BeginInv ==
  ASSUME AsDeployed, TypeInv, SystemInv, BeginOfRun
  PROVE  SystemInv'
<1>1. /\ midas = "starting" /\ ready = SWB /\ midas' = "running"
      /\ Write(BeginFrames)
      /\ UNCHANGED <<board, terminated, listener, run, request, asked, ready, presses>>
  BY DEF BeginOfRun, BeginFrames, ack_vars
<1>2. ASSUME NEW f \in FEB PROVE Prepared /\ Read /\ ~listener[f].end_of_run_received
  <2>1. PICK s \in SWB : f \in Boards[s] BY DEF AsDeployed
  <2>2. Acknowledged(f) BY <1>1 DEF SystemInv, HandshakeInv
  <2> QED BY <1>1, <2>1, <2>2 DEF Acknowledged
<1>3. Prepared /\ Read /\ Come BY <1>2 DEF AsDeployed, Read
<1>4. PICK q : q = BeginFrames OBVIOUS
<1>5. /\ q \in Seq(Symbol) /\ Shaped(q) /\ Opens(q[1]) /\ Len(q) > 0 /\ Write(q)
      /\ \A x \in In(q) : /\ x.role = "command" => x.byte \in {RunPrepare, Sync, StartRun}
                          /\ x.role = "payload" => x.byte = 0
  BY <1>1, <1>4, BeginIs
<1>6. LineInv /\ board' = board BY <1>1 DEF SystemInv
<1>7. LineInv' BY <1>5, <1>6, WriteLine
<1>8. \A x \in In(line') : x \in In(line) \/ x \in In(q) BY <1>5, <1>6, WriteLine
<1>9. midas' # "starting" /\ midas' # "stopped" /\ ~Prepared' /\ Begun'
  BY <1>1 DEF Prepared, Begun
<1>10. \A x \in In(line) : Aborts(x) /\ x.role # "payload"
  BY <1>3 DEF Read, Come, In
<1>11. /\ AbortRun # RunPrepare /\ AbortRun # Sync /\ AbortRun # StartRun
       /\ EndRun # RunPrepare /\ EndRun # Sync /\ EndRun # StartRun /\ EndRun # AbortRun
  BY DEF AbortRun, EndRun, RunPrepare, Sync, StartRun
<1>12. /\ \A x \in In(line') : x.role = "payload" => x.byte = 0
       /\ \A x \in In(line') : x.role = "command" => x.byte # EndRun
  BY <1>5, <1>8, <1>10, <1>11 DEF Aborts
<1>13. BegunInv'
  <2>1. \A i \in 1..Len(line') : line'[i] \in In(line') BY DEF In
  <2>2. \A f \in FEB : board'[f].state # "TERMINATING" /\ board'[f].o_state # "TERMINATING"
    BY <1>3, <1>6 DEF Come
  <2>3. \A f \in FEB : ~listener'[f].end_of_run_received BY <1>1, <1>2
  <2> QED BY <1>12, <2>1, <2>2, <2>3 DEF BegunInv
<1>14. HandshakeInv'
  <2>1. \A f \in FEB :
          listener'[f].run_prep_acknowledge_received => ~listener'[f].end_of_run_received
    BY <1>1, <1>2
  <2>2. \A s \in ActiveSWB : ~request'[s] BY <1>1, <1>3 DEF Prepared
  <2> QED BY <1>1, <1>9, <2>1, <2>2 DEF HandshakeInv
<1>15. NumberInv'
  <2>1. SUFFICES ASSUME presses = 0
        PROVE  /\ \A x \in In(line') : x.role = "command" => x.byte # AbortRun
               /\ \A f \in FEB : Numbered(board[f], RunBytes[run]) /\ board[f].state # "IDLE"
    BY <1>1, <1>6, <1>9 DEF NumberInv
  <2>2. /\ \A x \in In(line) : x.role = "command" => x.byte # AbortRun
        /\ \A f \in FEB : Filling(board[f], RunBytes[run])
    BY <1>3, <2>1 DEF SystemInv, NumberInv
  <2>3. ASSUME NEW f \in FEB PROVE ~board[f].recieving_payload
    <3>1. Hearing(f) /\ line \in Seq(Symbol) BY <1>6 DEF LineInv, TypeInv, CBTypeOK
    <3>2. CASE line = <<>> BY <3>1, <3>2 DEF Hearing
    <3>3. CASE line # <<>>
      <4>1. 1 \in 1..Len(line) BY <3>1, <3>3, EmptySeq, LenProperties
      <4>2. line[1].role # "payload" BY <1>10, <4>1 DEF In
      <4> QED BY <3>1, <3>3, <4>2 DEF Hearing, Hears
    <3> QED BY <3>2, <3>3
  <2>4. \A f \in FEB : Numbered(board[f], RunBytes[run]) /\ board[f].state # "IDLE"
    BY <2>2, <2>3 DEF Filling, Numbered
  <2> QED BY <1>5, <1>8, <1>11, <2>2, <2>4
<1> QED BY <1>7, <1>9, <1>13, <1>14, <1>15 DEF SystemInv, StoppedInv, PreparedInv

\* What ends or aborts a run may be written behind everything.
LEMMA LateBehind ==
  ASSUME TypeInv, BegunInv, Begun, Begun', LineInv,
         NEW q \in Seq(Symbol), Shaped(q), Len(q) > 0, Opens(q[1]), Write(q),
         \A x \in In(q) : Late(x) /\ x.role # "payload",
         Ending => Ending', UNCHANGED <<board, listener, terminated>>
  PROVE  BegunInv'
<1>1. board' = board OBVIOUS
<1>2. \A x \in In(line') : x \in In(line) \/ x \in In(q) BY <1>1, WriteLine
<1>3. Len(line) \in Nat BY <1>1, WriteLine
<1>4. \A i \in 1..Len(line') : (i <= Len(line) /\ i \in 1..Len(line) /\ line'[i] = line[i])
           \/ \E j \in 1..Len(q) : i = Len(line) + j /\ line'[i] = q[j]
  BY <1>1, WriteLine
<1>5. /\ \A x \in In(line) : x.role = "payload" => x.byte = 0
      /\ \A i, j \in 1..Len(line) :
           i < j /\ line[i].role = "command" /\ line[i].byte = EndRun => Late(line[j])
      /\ \A f \in FEB : board[f].state = "TERMINATING" \/ board[f].o_state = "TERMINATING" => Ending
      /\ \A f \in FEB : board[f].o_state = "TERMINATING" => board[f].state \in {"IDLE", "TERMINATING"}
      /\ \A f \in FEB : listener[f].end_of_run_received => Ending /\ Quiet(board[f], f \in terminated)
  BY DEF BegunInv
<1>6. \A j \in 1..Len(q) : Late(q[j]) BY DEF In
<1>7. ASSUME NEW i \in 1..Len(line'), NEW j \in 1..Len(line'),
             i < j, line'[i].role = "command", line'[i].byte = EndRun
      PROVE  Late(line'[j])
  <2>1. CASE j <= Len(line) /\ j \in 1..Len(line) /\ line'[j] = line[j]
    <3>1. i <= Len(line) BY <1>3, <1>7, <2>1
    <3>2. i \in 1..Len(line) /\ line'[i] = line[i]
      <4>1. \A k \in 1..Len(q) : ~(Len(line) + k <= Len(line)) BY <1>3
      <4> QED BY <1>4, <3>1, <4>1
    <3> QED BY <1>5, <1>7, <2>1, <3>2
  <2>2. CASE \E k \in 1..Len(q) : line'[j] = q[k] BY <1>6, <2>2
  <2> QED BY <1>4, <2>1, <2>2
<1>8. \A x \in In(line') : x.role = "payload" => x.byte = 0 BY <1>2, <1>5
<1>9. \A i, j \in 1..Len(line') :
        i < j /\ line'[i].role = "command" /\ line'[i].byte = EndRun => Late(line'[j])
  BY <1>7
<1> QED BY <1>1, <1>5, <1>8, <1>9 DEF BegunInv

LEMMA EndInv ==
  ASSUME TypeInv, SystemInv, EndOfRun
  PROVE  SystemInv'
<1>1. /\ midas = "running" /\ midas' = "stopping"
      /\ Write(Frame(EndRun, Zero))
      /\ UNCHANGED <<board, terminated, listener, run, request, asked, ready, presses>>
  BY DEF EndOfRun, ack_vars
<1>2. EndRun \in Commands /\ EndRun \in Byte /\ Zero \in [1..4 -> Byte] /\ EndRun # RunPrepare
  BY CommandBytes DEF Commands, EndRun, RunPrepare
<1>3. PICK q : q = Frame(EndRun, Zero) OBVIOUS
<1>4. q \in Seq(Symbol) /\ Shaped(q) /\ Opens(q[1]) /\ Len(q) > 0 /\ Write(q)
  <2>1. Len(q) = IF EndRun = RunPrepare THEN 8 ELSE 4 BY <1>2, <1>3, ShapedFrame
  <2> QED BY <1>1, <1>2, <1>3, <2>1, ShapedFrame
<1>5. \A x \in In(q) : (x.role = "command" => x.byte = EndRun) /\ x.role # "payload"
  BY <1>2, <1>3, FrameSymbols
<1>6. LineInv /\ board' = board BY <1>1 DEF SystemInv
<1>7. LineInv' BY <1>4, <1>6, WriteLine
<1>8. \A x \in In(line') : x \in In(line) \/ x \in In(q) BY <1>4, <1>6, WriteLine
<1>9. Begun /\ Begun' /\ ~Prepared' BY <1>1 DEF Prepared, Begun
<1>10. \A x \in In(q) : Late(x) BY <1>5 DEF Late
<1>11. Ending => Ending' BY <1>8, <1>10 DEF Ending
<1>12. BegunInv'
  <2>1. BegunInv BY DEF SystemInv
  <2> QED BY <1>1, <1>4, <1>5, <1>6, <1>9, <1>10, <1>11, <2>1, LateBehind
<1>13. HandshakeInv' BY <1>1 DEF SystemInv, HandshakeInv
<1>14. NumberInv'
  <2>1. EndRun # AbortRun BY DEF EndRun, AbortRun
  <2> QED BY <1>1, <1>5, <1>8, <1>9, <1>11, <2>1 DEF SystemInv, NumberInv
<1> QED BY <1>1, <1>7, <1>9, <1>12, <1>13, <1>14 DEF SystemInv, StoppedInv, PreparedInv

\* A frame that aborts the run, for all boards or for one.
LEMMA AbortIs ==
  ASSUME AbortRun \in Byte, NEW p \in [1..4 -> Byte], NEW q,
         q = Frame(AbortRun, p) \/ \E g \in FEB : q = AddressedFrame(AbortRun, p, g)
  PROVE  /\ q \in Seq(Symbol) /\ Shaped(q) /\ Opens(q[1]) /\ Len(q) > 0
         /\ \A x \in In(q) : Late(x) /\ Aborts(x)
<1>1. CASE q = Frame(AbortRun, p)
  <2>1. AbortRun \in Commands /\ AbortRun # RunPrepare BY DEF Commands, AbortRun, RunPrepare
  <2>2. Len(q) = IF AbortRun = RunPrepare THEN 8 ELSE 4 BY <1>1, <2>1, ShapedFrame
  <2>3. q \in Seq(Symbol) /\ Shaped(q) /\ Opens(q[1]) BY <1>1, <2>1, ShapedFrame
  <2>4. \A x \in In(q) : (x.role = "command" => x.byte = AbortRun) /\ x.role # "payload"
    BY <1>1, <2>1, FrameSymbols
  <2> QED BY <2>1, <2>2, <2>3, <2>4 DEF Late, Aborts
<1>2. ASSUME NEW g \in FEB, q = AddressedFrame(AbortRun, p, g)
      PROVE  /\ q \in Seq(Symbol) /\ Shaped(q) /\ Opens(q[1]) /\ Len(q) > 0
             /\ \A x \in In(q) : Late(x) /\ Aborts(x)
  <2>1. q \in Seq(Symbol) /\ Shaped(q) /\ Opens(q[1]) BY <1>2, ShapedAddressed
  <2>2. Len(q) = 4 BY <1>2, ShapedAddressed
  <2>3. \A i \in 1..3 : q[i] = Sym(AddressByte(g, 3 - i), {g}, "address", 3 - i)
    BY <1>2, ShapedAddressed
  <2>4. q[4] = Sym(AbortRun, {g}, "command", 0) BY <1>2, ShapedAddressed
  <2>5. ASSUME NEW i \in 1..4 PROVE Late(q[i]) /\ Aborts(q[i])
    <3>1. CASE i = 4
      <4>1. q[i].role = "command" /\ q[i].byte = AbortRun BY <2>4, <3>1 DEF Sym
      <4> QED BY <4>1 DEF Late, Aborts
    <3>2. CASE i \in 1..3
      <4>1. q[i] = Sym(AddressByte(g, 3 - i), {g}, "address", 3 - i) BY <2>3, <3>2
      <4>2. q[i].role = "address" BY <4>1 DEF Sym
      <4> QED BY <4>2 DEF Late, Aborts
    <3> QED BY <3>1, <3>2
  <2> QED BY <2>1, <2>2, <2>5 DEF In
<1> QED BY <1>1, <1>2

LEMMA PressInv ==
  ASSUME AsDeployed, TypeInv, SystemInv, NEW cmd \in Buttons, Press(cmd)
  PROVE  SystemInv'
<1>1. /\ presses' = presses + 1
      /\ UNCHANGED <<board, terminated, listener, midas, run, request, asked, ready>>
  BY DEF Press, ack_vars
<1>2. cmd = AbortRun /\ AbortRun \in Byte BY LineAssumption DEF AsDeployed
<1>3. PICK p \in [1..4 -> Byte] :
           \/ Write(Frame(cmd, p))
           \/ \E f \in FEB : Write(AddressedFrame(cmd, p, f))
  BY PressWrites
<1>4. PICK q : /\ Write(q)
               /\ q = Frame(AbortRun, p) \/ \E g \in FEB : q = AddressedFrame(AbortRun, p, g)
  BY <1>2, <1>3
<1>5. /\ q \in Seq(Symbol) /\ Shaped(q) /\ Opens(q[1]) /\ Len(q) > 0
      /\ \A x \in In(q) : Late(x) /\ Aborts(x)
  BY <1>2, <1>4, AbortIs
<1>6. LineInv /\ board' = board BY <1>1 DEF SystemInv
<1>7. LineInv' BY <1>4, <1>5, <1>6, WriteLine
<1>8. \A x \in In(line') : x \in In(line) \/ x \in In(q) BY <1>4, <1>5, <1>6, WriteLine
<1>9. /\ \A i \in 1..Len(line') : (i <= Len(line) /\ i \in 1..Len(line) /\ line'[i] = line[i])
           \/ \E j \in 1..Len(q) : i = Len(line) + j /\ line'[i] = q[j]
      /\ \A i \in 1..Len(line) : i \in 1..Len(line') /\ line'[i] = line[i]
      /\ Len(line) \in Nat
  <2>1. \A i \in 1..Len(line') : (i <= Len(line) /\ i \in 1..Len(line) /\ line'[i] = line[i])
           \/ \E j \in 1..Len(q) : i = Len(line) + j /\ line'[i] = q[j]
    BY <1>4, <1>5, <1>6, WriteLine
  <2>2. \A i \in 1..Len(line) : i \in 1..Len(line') /\ line'[i] = line[i]
    BY <1>4, <1>5, <1>6, WriteLine
  <2>3. Len(line) \in Nat BY <1>4, <1>5, <1>6, WriteLine
  <2> QED BY <2>1, <2>2, <2>3
<1>10. \A j \in 1..Len(q) : Late(q[j]) /\ Aborts(q[j]) /\ q[j].role # "payload"
  <2>1. \A j \in 1..Len(q) : q[j] \in In(q) BY DEF In
  <2> QED BY <1>5, <2>1 DEF Late
<1>11. Ending => Ending' BY <1>5, <1>8 DEF Ending
<1>12. (Prepared' <=> Prepared) /\ (Begun' <=> Begun) BY <1>1 DEF Prepared, Begun
<1>13. AllQuiet' <=> AllQuiet BY <1>1 DEF AllQuiet
<1>14. Come => Come'
  <2>1. ASSUME Come, NEW i \in 1..Len(line')
        PROVE  /\ Aborts(line'[i])
               /\ line'[i].role = "payload" => \A f \in FEB :
                     /\ board[f].recieving_payload
                     /\ board[f].payload_byte_counter = i + line'[i].left
    <3>1. CASE i \in 1..Len(line) /\ line'[i] = line[i] BY <2>1, <3>1 DEF Come
    <3>2. CASE \E j \in 1..Len(q) : line'[i] = q[j] BY <1>10, <3>2
    <3> QED BY <1>9, <3>1, <3>2
  <2> QED BY <1>1, <2>1 DEF Come
<1>15. \A x \in In(q) : x.role # "payload" BY <1>5 DEF Late
<1>16. Read => Read' BY <1>8, <1>14, <1>15 DEF Read
<1>17. ASSUME NEW k \in 1..Len(line), Coming(k) PROVE k \in 1..Len(line') /\ Coming(k)'
  <2>1. k \in 1..Len(line') /\ line'[k] = line[k] BY <1>9
  <2>2. /\ line[k].role = "command" /\ line[k].byte = RunPrepare
        /\ \A i \in 1..Len(line) : i < k => Late(line[i])
        /\ \A i \in 1..Len(line) : i > k =>
             /\ Aborts(line[i])
             /\ line[i].role = "payload" => i + line[i].left = k + 4
        /\ AllQuiet
        /\ k <= 3 => \A f \in FEB : board[f].state = "IDLE"
    BY <1>17 DEF Coming
  <2>3. ASSUME NEW i \in 1..Len(line')
        PROVE  /\ i < k => Late(line'[i])
               /\ i > k => /\ Aborts(line'[i])
                           /\ line'[i].role = "payload" => i + line'[i].left = k + 4
    <3>1. CASE i \in 1..Len(line) /\ line'[i] = line[i] BY <2>2, <3>1
    <3>2. CASE \E j \in 1..Len(q) : line'[i] = q[j] BY <1>10, <3>2
    <3> QED BY <1>9, <3>1, <3>2
  <2> QED BY <1>1, <1>13, <2>1, <2>2, <2>3 DEF Coming
<1>18. StoppedInv' BY <1>1, <1>11, <1>12, <1>13 DEF SystemInv, StoppedInv
<1>19. PreparedInv'
  <2>1. SUFFICES ASSUME Prepared
        PROVE  /\ Come' \/ \E k \in 1..Len(line') : Coming(k)'
               /\ \A x \in In(line') : x.role = "payload" => x.byte = RunBytes[run][4 - x.left]
    BY <1>1, <1>12 DEF PreparedInv
  <2>2. /\ Come \/ \E k \in 1..Len(line) : Coming(k)
        /\ \A x \in In(line) : x.role = "payload" => x.byte = RunBytes[run][4 - x.left]
    BY <2>1 DEF SystemInv, PreparedInv
  <2>3. \A x \in In(line') : x.role = "payload" => x.byte = RunBytes[run][4 - x.left]
    BY <1>8, <1>15, <2>2
  <2>4. Come' \/ \E k \in 1..Len(line') : Coming(k)' BY <1>14, <1>17, <2>2
  <2> QED BY <2>3, <2>4
<1>20. BegunInv'
  <2>1. CASE Begun
    <3>1. \A x \in In(q) : Late(x) /\ x.role # "payload" BY <1>5, <1>15
    <3>2. BegunInv BY DEF SystemInv
    <3>3. UNCHANGED <<board, listener, terminated>> BY <1>1
    <3> QED BY <1>4, <1>5, <1>6, <1>11, <1>12, <2>1, <3>1, <3>2, <3>3, LateBehind
  <2>2. CASE ~Begun BY <1>12, <2>2 DEF BegunInv
  <2> QED BY <2>1, <2>2
<1>21. HandshakeInv'
  <2>1. /\ \A t \in ActiveSWB : request[t] => midas = "starting" /\ t \in asked
        /\ \A g \in FEB :
             listener[g].run_prep_acknowledge_received => ~listener[g].end_of_run_received
        /\ midas = "starting" => \A g \in FEB : Acknowledged(g)
    BY DEF SystemInv, HandshakeInv
  <2>2. ASSUME NEW g \in FEB, Acknowledged(g) PROVE Acknowledged(g)'
    BY <1>1, <1>12, <1>16, <2>2 DEF Acknowledged
  <2> QED BY <1>1, <2>1, <2>2 DEF HandshakeInv
<1>22. NumberInv'
  <2>1. presses \in Nat BY BoundAssumption DEF TypeInv, CBTypeOK
  <2>2. presses' # 0 BY <1>1, <2>1
  <2> QED BY <2>2 DEF NumberInv
<1> QED BY <1>7, <1>18, <1>19, <1>20, <1>21, <1>22 DEF SystemInv

LEMMA WritesInv ==
  ASSUME AsDeployed, TypeInv, SystemInv, Writes
  PROVE  SystemInv'
BY PrepareInv, BeginInv, EndInv, PressInv DEF Writes
-----------------------------------------------------------------------------
(***************************************************************************)
(* The invariant of the whole, and what follows from it.                   *)
(***************************************************************************)
Undisturbed == TypeInv /\ (losses = 0 => SystemInv)

LEMMA Counts == ASSUME TypeInv PROVE presses \in Nat /\ losses \in Nat
BY BoundAssumption DEF TypeInv, CBTypeOK

LEMMA SystemInit == ASSUME CBInit PROVE SystemInv
<1>1. /\ \A f \in FEB : board[f] = PowerUp
      /\ line = <<>> /\ midas = "stopped" /\ \A s \in SWB : ~request[s]
      /\ \A f \in FEB : ~listener[f].run_prep_acknowledge_received
  BY DEF CBInit, Init
<1>2. Len(line) = 0 /\ In(line) = {} BY <1>1 DEF In
<1>3. /\ Listens(PowerUp) /\ ~PowerUp.recieving_payload
      /\ PowerUp.state = "IDLE" /\ PowerUp.o_state = "IDLE"
  BY DEF PowerUp, Listens
<1>4. LineInv
  <2>1. Shaped(line) BY <1>1 DEF Shaped
  <2>2. \A f \in FEB : Hearing(f) BY <1>1, <1>3 DEF Hearing
  <2> QED BY <1>1, <1>3, <2>1, <2>2 DEF LineInv, Running
<1>5. Ending /\ AllQuiet BY <1>1, <1>2, <1>3 DEF Ending, AllQuiet, Quiet
<1>6. ~Prepared /\ ~Begun BY <1>1 DEF Prepared, Begun
<1>7. HandshakeInv BY <1>1, MaskAssumption DEF HandshakeInv
<1>8. NumberInv BY <1>2, <1>6 DEF NumberInv
<1> QED BY <1>4, <1>5, <1>6, <1>7, <1>8 DEF SystemInv, StoppedInv, PreparedInv, BegunInv

LEMMA StutterInv == ASSUME SystemInv, UNCHANGED vars PROVE SystemInv'
<1>1. UNCHANGED <<board, terminated, line, listener, midas, run, request, asked, ready, presses>>
  BY DEF vars, ack_vars, sw_vars
<1>2. Prepared' <=> Prepared BY <1>1 DEF Prepared
<1>3. LineInv' /\ StoppedInv' /\ PreparedInv' /\ NumberInv' BY <1>1, <1>2, SamePhase
<1>4. Begun' <=> Begun BY <1>1 DEF Begun
<1>5. BegunInv' BY <1>1, <1>4, SameLine DEF SystemInv, BegunInv
<1>6. HandshakeInv'
  <2>1. HandshakeInv BY DEF SystemInv
  <2>2. ASSUME NEW f \in FEB, Acknowledged(f) PROVE Acknowledged(f)'
    BY <1>1, <1>2, <2>2, SameLine DEF Acknowledged
  <2> QED BY <1>1, <2>1, <2>2 DEF HandshakeInv
<1> QED BY <1>3, <1>5, <1>6 DEF SystemInv

LEMMA UndisturbedStep ==
  ASSUME AsDeployed, Undisturbed, [CBNext]_vars
  PROVE  Undisturbed'
<1>1. TypeInv' BY TypeStep DEF Undisturbed
<1>2. TypeInv /\ losses \in Nat /\ (losses = 0 => SystemInv) BY Counts DEF Undisturbed
<1>3. CASE UNCHANGED vars
  <2>1. losses' = losses BY <1>3 DEF vars
  <2> QED BY <1>1, <1>2, <1>3, <2>1, StutterInv DEF Undisturbed
<1>4. CASE Talks
  <2>1. losses' = losses
    BY <1>4 DEF Talks, StartTransition, StartCancelled, StopConfirmed, WaitForRunEnd,
                StopCancelled, RequestRunPrepare, RequestReturns, Acknowledge, Terminate
  <2> QED BY <1>1, <1>2, <1>4, <2>1, TalksInv DEF Undisturbed
<1>5. CASE Writes
  <2>1. losses' = losses
    BY <1>5 DEF Writes, PrepareRunOnRequest, BeginOfRun, EndOfRun, Press
  <2> QED BY <1>1, <1>2, <1>5, <2>1, WritesInv DEF Undisturbed
<1>6. CASE Tick
  <2>1. losses' = losses BY <1>6 DEF Tick
  <2>2. Distinct BY DEF AsDeployed
  <2> QED BY <1>1, <1>2, <1>6, <2>1, <2>2, TickInv DEF Undisturbed
<1>7. CASE \E f \in FEB : LoseLink(f)
  <2>1. losses' = losses + 1 BY <1>7 DEF LoseLink
  <2>2. losses' # 0 BY <1>2, <2>1
  <2> QED BY <1>1, <2>2 DEF Undisturbed
<1> QED BY <1>3, <1>4, <1>5, <1>6, <1>7, StepKinds

LEMMA UndisturbedAlways ==
  ASSUME AsDeployed
  PROVE  CBSpec => []Undisturbed
<1>1. CBInit => Undisturbed BY InitTypes, SystemInit DEF Undisturbed
<1>2. Undisturbed /\ [CBNext]_vars => Undisturbed' BY UndisturbedStep
<1> QED BY <1>1, <1>2, PTL DEF CBSpec

LEMMA FramedLine ==
  ASSUME TypeInv, SystemInv, line # <<>>
  PROVE  IF Head(line).role = "command"
         THEN {f \in FEB : Decoding(f)} = Head(line).to
         ELSE \A f \in FEB : Decoding(f) => ~Accepted(board[f].state, Head(line).byte, FALSE)
<1>1. PICK x : x = Head(line) OBVIOUS
<1>2. x = line[1] /\ IsSymbol(x) /\ x \in Symbol
  <2>1. line \in Seq(Symbol) BY DEF TypeInv, CBTypeOK
  <2>2. 1 \in 1..Len(line) /\ Head(line) = line[1] BY <2>1, TailIs
  <2> QED BY <1>1, <2>1, <2>2 DEF SystemInv, LineInv, Shaped
<1>3. \A f \in FEB : Hears(board[f], f, x) /\ board[f].state \in Running
  BY <1>2 DEF SystemInv, LineInv, Hearing
<1>4. CASE x.role = "command"
  <2>1. \A f \in FEB : Decoding(f) <=> f \in x.to
    BY <1>3, <1>4 DEF Hears, Decoding, Listens, Deaf
  <2>2. x.to \subseteq FEB BY <1>2 DEF Symbol
  <2>3. {f \in FEB : Decoding(f)} = x.to BY <2>1, <2>2
  <2> QED BY <1>1, <1>4, <2>3
<1>5. CASE x.role # "command"
  <2>1. ASSUME NEW f \in FEB, Decoding(f) PROVE ~Accepted(board[f].state, x.byte, FALSE)
    <3>0. /\ board[f].state \in Running /\ Hears(board[f], f, x)
          /\ board[f].addressed /\ ~board[f].recieving_payload
      BY <1>3, <2>1 DEF Decoding
    <3>1. CASE IsComma(x)
      <4>1. x.byte = Comma BY <3>1 DEF IsComma
      <4> QED BY <3>0, <4>1, RunNextIs
    <3>2. CASE IsPayload(x)
      <4>1. x.role = "payload" BY <3>2 DEF IsPayload
      <4>2. x.byte = 0 BY <1>2, <3>0, <4>1, Harmless
      <4> QED BY <3>0, <4>2, RunNextIs
    <3>3. CASE IsAddress(x)
      <4>1. x.role = "address" /\ ~(x.left < 2) BY <3>0, <3>3 DEF IsAddress, Hears, Deaf
      <4>2. x.byte = Address BY <3>3, <4>1 DEF IsAddress, AddressByte
      <4>3. \A s \in RunState : <<board[f].state, Address, s>> \notin Goto
        BY DEF Goto, CommonGoto, FullGoto, Address, RunPrepare, Sync, StartRun, EndRun, AbortRun,
               StartLinkTest, StopLinkTest, StartSyncTest, StopSyncTest, Reset, StopReset,
               Enable, Disable
      <4> QED BY <4>2, <4>3 DEF Accepted
    <3>4. ~IsCommand(x) BY <1>5 DEF IsCommand
    <3> QED BY <1>2, <3>1, <3>2, <3>3, <3>4 DEF IsSymbol
  <2> QED BY <1>1, <1>5, <2>1
<1> QED BY <1>4, <1>5

(* Framing: while no link is lost, a command finds exactly the boards it   *)
(* is meant for listening, and no byte of a payload or an address is taken *)
(* for a command, whatever run numbers and addresses are on the line, for  *)
(* whichever number of boards, and whenever an operator aborts.            *)
THEOREM FramingAlwaysKept ==
  ASSUME AsDeployed
  PROVE  CBSpec => []FramingKept
<1>1. Undisturbed => FramingKept BY FramedLine DEF Undisturbed, FramingKept
<1> QED BY <1>1, UndisturbedAlways, PTL

LEMMA NumberKept ==
  ASSUME TypeInv, SystemInv, presses = 0, NEW f \in FEB,
         board[f].o_state \in {"PREP", "SYNC", "RUNNING"}
  PROVE  HoldsRunNumber(f)
<1>1. ~Quiet(board[f], f \in terminated) BY DEF Quiet
<1>2. Begun \/ (Prepared /\ Come) BY <1>1, NotQuiet
<1>3. Filled(board[f], RunBytes[run], 0)
  <2>1. CASE Begun BY <2>1 DEF SystemInv, NumberInv, Numbered
  <2>2. CASE Prepared /\ Come
    <3>1. Filling(board[f], RunBytes[run]) BY <2>2 DEF SystemInv, NumberInv
    <3>2. board[f].recieving_payload => board[f].o_state = "IDLE" BY <2>2 DEF Come
    <3> QED BY <3>1, <3>2 DEF Filling
  <2> QED BY <1>2, <2>1, <2>2
<1>4. \A i \in 1..4 : board[f].payload["PREP"][i] = RunBytes[run][5 - i]
  <2>1. \A i \in 1..4 : i > 0 OBVIOUS
  <2> QED BY <1>3, <2>1 DEF Filled
<1>5. board[f].payload["PREP"] \in [1..4 -> Byte]
  <2>1. board[f] \in Controller BY DEF TypeInv, CBTypeOK
  <2> QED BY <2>1 DEF Controller, PayloadRegisters, PayloadState
<1>6. board[f].payload["PREP"] = [i \in 1..4 |-> RunBytes[run][5 - i]]
  BY <1>4, <1>5
<1> QED BY <1>6 DEF HoldsRunNumber

(* The run number: while nobody aborts and no link is lost, a board that   *)
(* shows a state of the run holds the number of this run, complete; the    *)
(* second "Run Prepare", with number 0, finds no board that obeys it.      *)
THEOREM RunNumberAlwaysHeld ==
  ASSUME AsDeployed
  PROVE  CBSpec => []RunNumberHeld
<1>1. Undisturbed => RunNumberHeld
  <2> SUFFICES ASSUME Undisturbed, presses + losses = 0, NEW f \in ActiveFEB,
                      board[f].o_state \in {"PREP", "SYNC", "RUNNING"}
               PROVE  HoldsRunNumber(f)
    BY DEF RunNumberHeld
  <2>1. presses = 0 /\ losses = 0 BY Counts DEF Undisturbed
  <2> QED BY <2>1, NumberKept DEF Undisturbed, AsDeployed
<1> QED BY <1>1, UndisturbedAlways, PTL

-----------------------------------------------------------------------------
(***************************************************************************)
(* Lost links.  A board that has just lost its link may read a byte of the *)
(* run number as a command, so that the framing is gone; but no byte takes *)
(* it into the run.  While nobody aborts it is enough to know              *)
(*   - where the bytes of the number are on the line, and that a board     *)
(*     that prepares a run still counts them as payload;                   *)
(*   - that no board starts a run, and none begins to end one, as long as  *)
(*     MIDAS has not sent the start, nor behind the end of the run.        *)
(***************************************************************************)
Fresh == {"PREP", "SYNC", "RUNNING"}
Numeral(x) == x.role = "payload" /\ x.byte # 0
Plain(x) ==
  \/ x.role = "comma" /\ x.byte = Comma
  \/ x.role = "command" /\ x.byte \in {RunPrepare, Sync, StartRun, EndRun}
  \/ x.role = "payload" /\ x.left \in 0..3

\* The bytes of one run number at most, which end at the same place, behind
\* its "Run Prepare".
Row(q) ==
  /\ \A i \in 1..Len(q) : Plain(q[i])
  /\ \A i, j \in 1..Len(q) :
       Numeral(q[i]) /\ Numeral(q[j]) => i + q[i].left = j + q[j].left
  /\ \A i, p \in 1..Len(q) : Numeral(q[i]) /\ p < i /\ q[p].role = "command" =>
       /\ q[p].byte \in {RunPrepare, EndRun}
       /\ q[p].byte = RunPrepare => i + q[i].left = p + 4
Awaiting(c, q) ==
  /\ c.state = "PREP" => \A i \in 1..Len(q) : Numeral(q[i]) =>
       c.recieving_payload /\ c.payload_byte_counter >= i + q[i].left
  /\ c.state \in {"SYNC", "RUNNING"} => \A i \in 1..Len(q) : ~Numeral(q[i])
  /\ c.o_state = "TERMINATING" => c.state \notin Fresh

\* An end of run that is shown has been sent already.
Old(c, term) ==
  /\ c.state = "TERMINATING" => c.o_state = "TERMINATING"
  /\ c.o_state = "TERMINATING" => term
Calm(c, term) == c.state \notin Fresh /\ c.o_state \notin Fresh /\ Old(c, term)
AllCalm == \A f \in FEB : Calm(board[f], f \in terminated)
Passed == \A x \in In(line) : x.role # "command"

RowInv == Row(line) /\ \A f \in FEB : Awaiting(board[f], line)
CalmInv == midas = "stopped" \/ (midas = "starting" /\ ~Prepared) => Ending /\ AllCalm
PreparingInv ==
  Prepared =>
    /\ \A i, j \in 1..Len(line) :
         i < j /\ (line[i].role = "payload" \/ (line[i].role = "command" /\ line[i].byte = RunPrepare))
           => line[j].role # "command"
    /\ \A f \in FEB :
         /\ board[f].state \notin {"SYNC", "RUNNING"}
         /\ board[f].o_state \notin {"SYNC", "RUNNING"}
         /\ Old(board[f], f \in terminated)
         /\ board[f].state = "PREP" \/ board[f].o_state = "PREP" => Passed
EndingInv ==
  Begun =>
    /\ \A i, j \in 1..Len(line) :
         i < j /\ line[i].role = "command" /\ line[i].byte = EndRun => Late(line[j])
    /\ \A f \in FEB :
         /\ Ending \/ Old(board[f], f \in terminated)
         /\ listener[f].end_of_run_received => Ending /\ Calm(board[f], f \in terminated)
Answered(f) ==
  /\ \A s \in asked : f \in Boards[s] /\ listener[f].run_prep_acknowledge_received
       => Prepared /\ Passed
  /\ \A s \in ready : f \in Boards[s]
       => Prepared /\ Passed /\ ~listener[f].end_of_run_received
AnswerInv ==
  /\ \A s \in ActiveSWB : request[s] => midas = "starting" /\ s \in asked
  /\ \A f \in FEB :
       listener[f].run_prep_acknowledge_received => ~listener[f].end_of_run_received
  /\ midas = "starting" => \A f \in FEB : Answered(f)
LossInv == RowInv /\ CalmInv /\ PreparingInv /\ EndingInv /\ AnswerInv

(***************************************************************************)
(* What a board does with a byte, whatever its registers hold.             *)
(***************************************************************************)
LEMMA EntersRun ==
  \A s, t \in RunState : \A b : <<s, b, t>> \in Goto =>
    /\ t = "PREP" => s = "IDLE" /\ b = RunPrepare
    /\ t = "SYNC" => s = "PREP" /\ b = Sync
    /\ t = "RUNNING" => s = "SYNC" /\ b = StartRun
    /\ t = "TERMINATING" => s = "RUNNING" /\ b = EndRun
BY DEF Goto, CommonGoto, FullGoto, InRun, RunState, RunPrepare, Sync, StartRun, EndRun

LEMMA NextInRun ==
  ASSUME NEW s \in RunState, NEW b, NEW term \in BOOLEAN, NEW t, t = NextState(s, b, term)
  PROVE  /\ t = "PREP" => s = "PREP" \/ (s = "IDLE" /\ b = RunPrepare /\ Accepted(s, b, term))
         /\ t = "SYNC" => s = "SYNC" \/ (s = "PREP" /\ b = Sync)
         /\ t = "RUNNING" => s = "RUNNING" \/ (s = "SYNC" /\ b = StartRun)
         /\ t = "TERMINATING" => s = "TERMINATING" \/ (s = "RUNNING" /\ b = EndRun)
         /\ s = "TERMINATING" => t \notin Fresh
<1>1. CASE Accepted(s, b, term)
  <2>1. t \in RunState /\ <<s, b, t>> \in Goto BY <1>1, NextStateType
  <2>2. /\ t = "PREP" => s = "IDLE" /\ b = RunPrepare
        /\ t = "SYNC" => s = "PREP" /\ b = Sync
        /\ t = "RUNNING" => s = "SYNC" /\ b = StartRun
        /\ t = "TERMINATING" => s = "RUNNING" /\ b = EndRun
    BY <2>1, EntersRun
  <2> QED BY <1>1, <2>2 DEF Fresh
<1>2. CASE ~Accepted(s, b, term)
  <2>1. t = s \/ t = "IDLE" BY <1>2 DEF NextState, Otherwise
  <2> QED BY <2>1 DEF Fresh
<1> QED BY <1>1, <1>2

Stepped(c, d, b) ==
  /\ d.o_state = IF c.recieving_payload THEN c.o_state ELSE c.state
  /\ c.recieving_payload => d.state = c.state
  /\ d.state = "PREP" =>
       \/ c.state = "PREP" /\ ~c.recieving_payload
       \/ /\ c.state = "PREP" /\ c.recieving_payload /\ d.recieving_payload
          /\ d.payload_byte_counter = c.payload_byte_counter
       \/ /\ c.state = "PREP" /\ c.recieving_payload
          /\ d.recieving_payload <=> c.payload_byte_counter # 1
          /\ d.payload_byte_counter = c.payload_byte_counter - 1
       \/ /\ c.state = "IDLE" /\ b = RunPrepare
          /\ d.recieving_payload /\ d.payload_byte_counter = 4
  /\ d.state = "SYNC" => c.state = "SYNC" \/ (c.state = "PREP" /\ ~c.recieving_payload /\ b = Sync)
  /\ d.state = "RUNNING" => c.state = "RUNNING" \/ (c.state = "SYNC" /\ b = StartRun)
  /\ d.state = "TERMINATING" => c.state = "TERMINATING" \/ (c.state = "RUNNING" /\ b = EndRun)
  /\ c.state = "TERMINATING" => d.state \notin Fresh

LEMMA AnyStep ==
  ASSUME NEW c \in Controller, NEW addr, NEW b, NEW term \in BOOLEAN,
         NEW d, d = Clocked(c, addr, b, term)
  PROVE  Stepped(c, d, b)
<1> DEFINE t == TransitionProcess(c, b, term)
<1>1. /\ d.state = t.state
      /\ d.recieving_payload <=> t.recieving_payload
      /\ d.payload_byte_counter = t.payload_byte_counter
      /\ d.o_state = IF c.recieving_payload THEN c.o_state ELSE c.state
  BY DEF Clocked
<1>2. c.state \in RunState BY DEF Controller
<1>3. CASE ~c.addressed
  <2>1. t = c BY <1>3 DEF TransitionProcess
  <2> HIDE DEF t
  <2> QED BY <1>1, <2>1 DEF Stepped, Fresh
<1>4. CASE c.addressed /\ c.recieving_payload
  <2>1. t = TakePayload(c, b) BY <1>4 DEF TransitionProcess
  <2>2. /\ t.state = c.state
        /\ t.recieving_payload <=> c.payload_byte_counter # 1
        /\ t.payload_byte_counter = c.payload_byte_counter - 1
    BY <2>1 DEF TakePayload, Controller
  <2> HIDE DEF t
  <2> QED BY <1>1, <1>4, <2>2 DEF Stepped, Fresh
<1>5. CASE c.addressed /\ ~c.recieving_payload
  <2> DEFINE n == IF Accepted(c.state, b, term) THEN PayloadBytes(b) ELSE 0
             s == NextState(c.state, b, term)
  <2>1. t = TakeCommand(c, b, term) BY <1>5 DEF TransitionProcess
  <2>2. t = [c EXCEPT !.state = s, !.recieving_payload = n > 0,
                      !.payload_byte_counter = IF n > 0 THEN n ELSE c.payload_byte_counter]
    BY <2>1 DEF TakeCommand
  <2>3. b = RunPrepare /\ Accepted(c.state, b, term) => n = 4
    BY DEF PayloadBytes
  <2> HIDE DEF n, s, t
  <2>4. /\ t.state = s
        /\ t.recieving_payload <=> n > 0
        /\ n > 0 => t.payload_byte_counter = n
    BY <2>2 DEF Controller
  <2>5. b = RunPrepare /\ Accepted(c.state, b, term)
          => t.recieving_payload /\ t.payload_byte_counter = 4
    BY <2>3, <2>4
  <2>6. /\ s = "PREP" => c.state = "PREP" \/ (c.state = "IDLE" /\ b = RunPrepare /\ Accepted(c.state, b, term))
        /\ s = "SYNC" => c.state = "SYNC" \/ (c.state = "PREP" /\ b = Sync)
        /\ s = "RUNNING" => c.state = "RUNNING" \/ (c.state = "SYNC" /\ b = StartRun)
        /\ s = "TERMINATING" => c.state = "TERMINATING" \/ (c.state = "RUNNING" /\ b = EndRun)
        /\ c.state = "TERMINATING" => s \notin Fresh
    BY <1>2, NextInRun DEF s
  <2> QED BY <1>1, <1>5, <2>4, <2>5, <2>6 DEF Stepped
<1> QED BY <1>3, <1>4, <1>5

-----------------------------------------------------------------------------
(***************************************************************************)
(* One clock.                                                              *)
(***************************************************************************)
LEMMA TickMoves ==
  ASSUME TypeInv, Tick
  PROVE  /\ \/ line = <<>> /\ Len(line) = 0 /\ line' = line /\ Now = Idle
            \/ Now = line[1] /\ 1 \in 1..Len(line) /\ Now \in In(line)
         /\ \A i \in 1..Len(line') : i + 1 \in 1..Len(line) /\ line'[i] = line[i + 1]
         /\ In(line') \subseteq In(line)
         /\ \A i \in 1..Len(line) : line[i].left \in Nat
         /\ \A f \in FEB : Stepped(board[f], board'[f], Now.byte)
<1>1. line \in Seq(Symbol) BY DEF TypeInv, CBTypeOK
<1>2. \A i \in 1..Len(line) : line[i].left \in Nat
  <2>1. \A i \in 1..Len(line) : line[i] \in Symbol BY <1>1
  <2> QED BY <2>1 DEF Symbol
<1>3. ASSUME NEW f \in FEB PROVE Stepped(board[f], board'[f], Now.byte)
  <2>1. board[f] \in Controller /\ (f \in terminated) \in BOOLEAN BY DEF TypeInv, CBTypeOK
  <2>2. board'[f] = Clocked(board[f], Addr[f], Now.byte, f \in terminated) BY TickIs
  <2> QED BY <2>1, <2>2, AnyStep
<1>4. CASE line = <<>>
  <2>1. line' = line /\ Now = Idle /\ Len(line) = 0 BY <1>4 DEF Tick, Now
  <2>2. \A i \in 1..Len(line') : FALSE BY <2>1
  <2>3. In(line') \subseteq In(line) BY <2>1
  <2> QED BY <1>2, <1>3, <1>4, <2>1, <2>2, <2>3
<1>5. CASE line # <<>>
  <2>1. line' = Tail(line) /\ Now = Head(line) BY <1>5 DEF Tick, Now
  <2>2. /\ \A i \in 1..Len(line') : i + 1 \in 1..Len(line) /\ line'[i] = line[i + 1]
        /\ Head(line) = line[1] /\ 1 \in 1..Len(line)
    BY <1>1, <1>5, <2>1, TailIs
  <2>3. In(line') \subseteq In(line) /\ Now \in In(line) BY <2>1, <2>2 DEF In
  <2> QED BY <1>2, <1>3, <2>1, <2>2, <2>3
<1> QED BY <1>4, <1>5

LEMMA TickRow ==
  ASSUME TypeInv, Row(line), Tick
  PROVE  Row(line')
<1>1. /\ \A i \in 1..Len(line') : i + 1 \in 1..Len(line) /\ line'[i] = line[i + 1]
      /\ \A i \in 1..Len(line) : line[i].left \in Nat
  BY TickMoves
<1>2. \A i \in 1..Len(line') : Plain(line'[i]) BY <1>1 DEF Row
<1>3. ASSUME NEW i \in 1..Len(line'), NEW j \in 1..Len(line'), Numeral(line'[i]), Numeral(line'[j])
      PROVE  i + line'[i].left = j + line'[j].left
  <2>1. (i + 1) + line[i + 1].left = (j + 1) + line[j + 1].left BY <1>1, <1>3 DEF Row
  <2>2. PICK k \in Nat : k = line'[i].left BY <1>1
  <2>3. PICK l \in Nat : l = line'[j].left BY <1>1
  <2>4. (i + 1) + k = (j + 1) + l BY <1>1, <2>1, <2>2, <2>3
  <2>5. i + k = j + l BY <2>4
  <2> QED BY <2>2, <2>3, <2>5
<1>4. ASSUME NEW i \in 1..Len(line'), NEW p \in 1..Len(line'),
             Numeral(line'[i]), p < i, line'[p].role = "command"
      PROVE  /\ line'[p].byte \in {RunPrepare, EndRun}
             /\ line'[p].byte = RunPrepare => i + line'[i].left = p + 4
  <2>1. p + 1 < i + 1 BY <1>4
  <2>2. /\ line[p + 1].byte \in {RunPrepare, EndRun}
        /\ line[p + 1].byte = RunPrepare => (i + 1) + line[i + 1].left = (p + 1) + 4
    BY <1>1, <1>4, <2>1 DEF Row
  <2>3. PICK k \in Nat : k = line'[i].left BY <1>1
  <2>4. i \in Nat /\ p \in Nat OBVIOUS
  <2>5. (i + 1) + k = (p + 1) + 4 => i + k = p + 4 BY <2>4
  <2> QED BY <1>1, <2>2, <2>3, <2>5
<1> QED BY <1>2, <1>3, <1>4 DEF Row

\* A byte that sends a board to PREP leaves four of payload at most, and
\* one that sends it on is a command.
LEMMA TickAwaiting ==
  ASSUME TypeInv, Row(line), Tick, NEW f \in FEB, Awaiting(board[f], line)
  PROVE  Awaiting(board'[f], line')
<1>1. PICK c : c = board[f] OBVIOUS
<1>2. PICK d : d = board'[f] OBVIOUS
<1>3. /\ \/ Now = Idle \/ (Now = line[1] /\ 1 \in 1..Len(line))
      /\ \A i \in 1..Len(line') : i + 1 \in 1..Len(line) /\ line'[i] = line[i + 1]
      /\ \A i \in 1..Len(line) : line[i].left \in Nat
      /\ Stepped(c, d, Now.byte)
  BY <1>1, <1>2, TickMoves
<1>4. Awaiting(c, line) /\ c.payload_byte_counter \in Nat
  BY <1>1 DEF TypeInv, CBTypeOK, Controller
<1>5. ASSUME d.state = "PREP", NEW i \in 1..Len(line'), Numeral(line'[i])
      PROVE  d.recieving_payload /\ d.payload_byte_counter >= i + line'[i].left
  <2>1. /\ i + 1 \in 1..Len(line) /\ Numeral(line[i + 1]) /\ line'[i].left = line[i + 1].left
        /\ line'[i].left \in Nat /\ i \in Nat /\ i > 0
    BY <1>3, <1>5
  <2>2. PICK k \in Nat : k = line'[i].left BY <2>1
  <2>3. c.state = "PREP" => c.recieving_payload /\ c.payload_byte_counter >= (i + 1) + k
    BY <1>4, <2>1, <2>2 DEF Awaiting
  <2>4. CASE c.state = "PREP"
    <3>1. c.payload_byte_counter # 1 /\ c.payload_byte_counter - 1 >= i + k
          /\ c.payload_byte_counter >= i + k
      BY <1>4, <2>1, <2>3, <2>4
    <3> QED BY <1>3, <1>5, <2>2, <2>3, <2>4, <3>1 DEF Stepped
  <2>5. CASE c.state # "PREP"
    <3>1. Now.byte = RunPrepare /\ d.recieving_payload /\ d.payload_byte_counter = 4
      BY <1>3, <1>5, <2>5 DEF Stepped
    <3>2. Now = line[1] /\ 1 \in 1..Len(line)
      BY <1>3, <3>1 DEF Idle, Sym, RunPrepare, Comma
    <3>3. Plain(line[1]) /\ line[1].byte = RunPrepare BY <3>1, <3>2 DEF Row
    <3>4. CASE line[1].role = "command"
      <4>1. (i + 1) + line[i + 1].left = 1 + 4
        <5>1. 1 < i + 1 BY <2>1
        <5> QED BY <2>1, <3>2, <3>3, <3>4, <5>1 DEF Row
      <4>2. i + k = 4 BY <2>1, <2>2, <4>1
      <4> QED BY <2>2, <3>1, <4>2
    <3>5. CASE line[1].role = "payload" /\ line[1].left \in 0..3
      <4>1. Numeral(line[1]) BY <3>3, <3>5 DEF Numeral, RunPrepare
      <4>2. (i + 1) + line[i + 1].left = 1 + line[1].left BY <2>1, <3>2, <4>1 DEF Row
      <4>3. 4 >= i + k BY <2>1, <2>2, <3>5, <4>2
      <4> QED BY <2>2, <3>1, <4>3
    <3> QED BY <3>3, <3>4, <3>5 DEF Plain, RunPrepare, Comma
  <2> QED BY <2>4, <2>5
<1>6. ASSUME d.state \in {"SYNC", "RUNNING"}, NEW i \in 1..Len(line')
      PROVE  ~Numeral(line'[i])
  <2>1. c.state \in {"SYNC", "RUNNING"} \/ (c.state = "PREP" /\ ~c.recieving_payload)
    BY <1>3, <1>6 DEF Stepped
  <2>2. \A j \in 1..Len(line) : ~Numeral(line[j]) BY <1>4, <2>1 DEF Awaiting
  <2> QED BY <1>3, <2>2
<1>7. d.o_state = "TERMINATING" => d.state \notin Fresh
  BY <1>3, <1>4 DEF Stepped, Awaiting
<1> QED BY <1>2, <1>5, <1>6, <1>7 DEF Awaiting

\* A board at the end of a run stays there, if nothing that is read starts
\* or ends one.
LEMMA OldStep ==
  ASSUME NEW c, NEW d, NEW b, NEW term \in BOOLEAN, NEW term1 \in BOOLEAN,
         Old(c, term), Stepped(c, d, b), ~(c.state = "RUNNING" /\ b = EndRun),
         term1 <=> term /\ c.o_state \notin {"IDLE", "PREP", "OUT_OF_DAQ"}
  PROVE  Old(d, term1)
BY DEF Old, Stepped

LEMMA TickOld ==
  ASSUME TypeInv, Tick, NEW f \in FEB, Old(board[f], f \in terminated),
         ~(board[f].state = "RUNNING" /\ Now.byte = EndRun)
  PROVE  Old(board'[f], f \in terminated')
<1>1. PICK c : c = board[f] OBVIOUS
<1>2. PICK d : d = board'[f] OBVIOUS
<1>3. PICK term \in BOOLEAN : term <=> f \in terminated OBVIOUS
<1>4. PICK term1 \in BOOLEAN : term1 <=> f \in terminated' OBVIOUS
<1>5. term = (f \in terminated) /\ term1 = (f \in terminated') BY <1>3, <1>4
<1>6. term1 <=> term /\ c.o_state \notin {"IDLE", "PREP", "OUT_OF_DAQ"}
  BY <1>1, <1>3, <1>4 DEF Tick
<1>7. Stepped(c, d, Now.byte) BY <1>1, <1>2, TickMoves
<1>8. Old(c, term) BY <1>1, <1>5
<1>9. Old(d, term1) BY <1>1, <1>6, <1>7, <1>8, OldStep
<1> QED BY <1>2, <1>5, <1>9

\* What is read is plain, also on an idle line, which ends nothing.
LEMMA NowPlain ==
  ASSUME TypeInv, Row(line), Tick
  PROVE  Plain(Now) /\ (Ending => Late(Now) /\ Ending') /\ (Passed => Now.role # "command" /\ Passed')
<1>1. Plain(Idle) /\ Late(Idle) /\ Idle.role # "command" BY DEF Plain, Late, Idle, Sym
<1>2. \A x \in In(line) : Plain(x) BY DEF Row, In
<1>3. (Now = Idle \/ Now \in In(line)) /\ In(line') \subseteq In(line) BY TickMoves
<1> QED BY <1>1, <1>2, <1>3 DEF Ending, Passed

LEMMA TickCalm ==
  ASSUME TypeInv, Row(line), Tick, Ending, NEW f \in FEB, Calm(board[f], f \in terminated)
  PROVE  Calm(board'[f], f \in terminated')
<1>1. PICK c : c = board[f] OBVIOUS
<1>2. PICK d : d = board'[f] OBVIOUS
<1>3. Stepped(c, d, Now.byte) BY <1>1, <1>2, TickMoves
<1>4. Now.byte # RunPrepare
  <2>1. Plain(Now) /\ Late(Now) BY NowPlain
  <2> QED BY <2>1 DEF Late, Plain, RunPrepare, EndRun, AbortRun, Comma
<1>5. c.state \notin Fresh /\ c.o_state \notin Fresh BY <1>1 DEF Calm
<1>6. d.state \notin Fresh /\ d.o_state \notin Fresh BY <1>3, <1>4, <1>5 DEF Fresh, Stepped
<1>7. Old(board'[f], f \in terminated')
  <2>1. Old(board[f], f \in terminated) BY DEF Calm
  <2>2. board[f].state # "RUNNING" BY <1>1, <1>5 DEF Fresh
  <2> QED BY <2>1, <2>2, TickOld
<1> QED BY <1>2, <1>6, <1>7 DEF Calm

LEMMA TickPreparing ==
  ASSUME TypeInv, RowInv, PreparingInv, Tick
  PROVE  PreparingInv'
<1>1. Row(line) BY DEF RowInv
<1>2. /\ \/ Now = Idle \/ (Now = line[1] /\ 1 \in 1..Len(line))
      /\ \A i \in 1..Len(line') : i + 1 \in 1..Len(line) /\ line'[i] = line[i + 1]
      /\ \A f \in FEB : Stepped(board[f], board'[f], Now.byte)
  BY TickMoves
<1>3. Prepared' <=> Prepared BY DEF Tick, sw_vars, Prepared
<1>4. SUFFICES ASSUME Prepared PROVE PreparingInv' BY <1>3 DEF PreparingInv
<1>5. /\ \A i, j \in 1..Len(line) :
           i < j /\ (line[i].role = "payload" \/ (line[i].role = "command" /\ line[i].byte = RunPrepare))
             => line[j].role # "command"
      /\ \A f \in FEB :
           /\ board[f].state \notin {"SYNC", "RUNNING"}
           /\ board[f].o_state \notin {"SYNC", "RUNNING"}
           /\ Old(board[f], f \in terminated)
           /\ board[f].state = "PREP" \/ board[f].o_state = "PREP" => Passed
  BY <1>4 DEF PreparingInv
<1>6. ASSUME NEW i \in 1..Len(line'), NEW j \in 1..Len(line'), i < j,
             line'[i].role = "payload" \/ (line'[i].role = "command" /\ line'[i].byte = RunPrepare)
      PROVE  line'[j].role # "command"
  <2>1. i + 1 < j + 1 BY <1>6
  <2> QED BY <1>2, <1>5, <1>6, <2>1
\* "Run Prepare", or a byte of the number that is read as such: no command
\* is left behind it.
<1>7. Now.byte = RunPrepare => Passed'
  <2>1. SUFFICES ASSUME Now.byte = RunPrepare, NEW j \in 1..Len(line')
                 PROVE  line'[j].role # "command"
    BY DEF Passed, In
  <2>2. Now = line[1] /\ 1 \in 1..Len(line) BY <1>2, <2>1 DEF Idle, Sym, RunPrepare, Comma
  <2>3. Plain(line[1]) BY <1>1, <2>2 DEF Row
  <2>4. line[1].role = "payload" \/ (line[1].role = "command" /\ line[1].byte = RunPrepare)
    BY <2>1, <2>2, <2>3 DEF Plain, RunPrepare, Comma
  <2>5. 1 < j + 1 OBVIOUS
  <2> QED BY <1>2, <1>5, <2>2, <2>4, <2>5
<1>8. ASSUME NEW f \in FEB
      PROVE  /\ board'[f].state \notin {"SYNC", "RUNNING"}
             /\ board'[f].o_state \notin {"SYNC", "RUNNING"}
             /\ Old(board'[f], f \in terminated')
             /\ board'[f].state = "PREP" \/ board'[f].o_state = "PREP" => Passed'
  <2>1. PICK c : c = board[f] OBVIOUS
  <2>2. PICK d : d = board'[f] OBVIOUS
  <2>3. /\ c.state \notin {"SYNC", "RUNNING"} /\ c.o_state \notin {"SYNC", "RUNNING"}
        /\ Old(c, f \in terminated)
        /\ c.state = "PREP" \/ c.o_state = "PREP" => Passed
    BY <1>5, <2>1
  <2>4. Stepped(c, d, Now.byte) BY <1>2, <2>1, <2>2
  <2>5. Passed => Passed' /\ Now.role # "command" BY <1>1, NowPlain
  <2>6. ~(c.state = "PREP" /\ ~c.recieving_payload /\ Now.byte = Sync)
    <3>1. SUFFICES ASSUME c.state = "PREP", ~c.recieving_payload, Now.byte = Sync PROVE FALSE
      OBVIOUS
    <3>2. Now = line[1] /\ 1 \in 1..Len(line) BY <1>2, <3>1 DEF Idle, Sym, Sync, Comma
    <3>3. ~Numeral(line[1]) BY <2>1, <3>1, <3>2 DEF RowInv, Awaiting
    <3>4. Plain(line[1]) /\ line[1].role # "command" BY <1>1, <2>3, <2>5, <3>1, <3>2 DEF Row
    <3> QED BY <3>1, <3>2, <3>3, <3>4 DEF Plain, Numeral, Sync, Comma
  <2>7. d.state \notin {"SYNC", "RUNNING"} /\ d.o_state \notin {"SYNC", "RUNNING"}
    BY <2>3, <2>4, <2>6 DEF Stepped
  <2>8. d.state = "PREP" \/ d.o_state = "PREP" => Passed'
    BY <1>7, <2>3, <2>4, <2>5 DEF Stepped
  <2>9. Old(board'[f], f \in terminated')
    <3>1. board[f].state # "RUNNING" BY <1>5
    <3> QED BY <1>5, <3>1, TickOld
  <2> QED BY <2>2, <2>7, <2>8, <2>9
<1> QED BY <1>6, <1>8 DEF PreparingInv

LEMMA TickEndingInv ==
  ASSUME TypeInv, RowInv, EndingInv, Tick
  PROVE  EndingInv'
<1>1. Row(line) BY DEF RowInv
<1>2. /\ \/ Now = Idle \/ (Now = line[1] /\ 1 \in 1..Len(line))
      /\ \A i \in 1..Len(line') : i + 1 \in 1..Len(line) /\ line'[i] = line[i + 1]
      /\ \A f \in FEB : Stepped(board[f], board'[f], Now.byte)
  BY TickMoves
<1>3. (Begun' <=> Begun) /\ listener' = listener BY DEF Tick, sw_vars, Begun
<1>4. SUFFICES ASSUME Begun PROVE EndingInv' BY <1>3 DEF EndingInv
<1>5. /\ \A i, j \in 1..Len(line) :
           i < j /\ line[i].role = "command" /\ line[i].byte = EndRun => Late(line[j])
      /\ \A f \in FEB :
           /\ Ending \/ Old(board[f], f \in terminated)
           /\ listener[f].end_of_run_received => Ending /\ Calm(board[f], f \in terminated)
  BY <1>4 DEF EndingInv
<1>6. ASSUME NEW i \in 1..Len(line'), NEW j \in 1..Len(line'), i < j,
             line'[i].role = "command", line'[i].byte = EndRun
      PROVE  Late(line'[j])
  <2>1. i + 1 < j + 1 BY <1>6
  <2> QED BY <1>2, <1>5, <1>6, <2>1
<1>7. Ending => Ending' BY <1>1, NowPlain
<1>8. ASSUME NEW f \in FEB PROVE Ending' \/ Old(board'[f], f \in terminated')
  <2>1. SUFFICES ASSUME ~Ending, ~Old(board'[f], f \in terminated') PROVE Ending'
    BY <1>7
  <2>2. board[f].state = "RUNNING" /\ Now.byte = EndRun
    <3>1. Old(board[f], f \in terminated) BY <1>5, <2>1
    <3> QED BY <2>1, <3>1, TickOld
  <2>3. Now = line[1] /\ 1 \in 1..Len(line) BY <1>2, <2>2 DEF Idle, Sym, EndRun, Comma
  <2>4. Plain(line[1]) /\ ~Numeral(line[1]) BY <1>1, <2>2, <2>3 DEF Row, RowInv, Awaiting
  <2>5. line[1].role = "command" /\ line[1].byte = EndRun
    BY <2>2, <2>3, <2>4 DEF Plain, Numeral, EndRun, Comma
  <2>6. ASSUME NEW j \in 1..Len(line') PROVE Late(line'[j])
    <3>1. 1 < j + 1 OBVIOUS
    <3> QED BY <1>2, <1>5, <2>3, <2>5, <3>1
  <2> QED BY <2>6 DEF Ending, In
<1>9. ASSUME NEW f \in FEB, listener[f].end_of_run_received
      PROVE  Ending' /\ Calm(board'[f], f \in terminated')
  BY <1>1, <1>5, <1>7, <1>9, TickCalm
<1> QED BY <1>3, <1>6, <1>8, <1>9 DEF EndingInv

LEMMA TickLoss ==
  ASSUME TypeInv, LossInv, Tick
  PROVE  LossInv'
<1>0. RowInv /\ Row(line) BY DEF LossInv, RowInv
<1>1. RowInv' BY <1>0, TickRow, TickAwaiting DEF RowInv
<1>2. PreparingInv' BY <1>0, TickPreparing DEF LossInv
<1>3. EndingInv' BY <1>0, TickEndingInv DEF LossInv
<1>4. /\ UNCHANGED <<listener, midas, asked, ready, request>>
      /\ Prepared' <=> Prepared
  BY DEF Tick, sw_vars, Prepared
<1>5. CalmInv'
  <2>1. SUFFICES ASSUME Ending, AllCalm PROVE Ending' /\ AllCalm'
    BY <1>4 DEF LossInv, CalmInv
  <2>2. Ending' BY <1>0, <2>1, NowPlain
  <2>3. AllCalm' BY <1>0, <2>1, TickCalm DEF AllCalm
  <2> QED BY <2>2, <2>3
<1>6. AnswerInv'
  <2>1. Passed => Passed' BY <1>0, NowPlain
  <2>2. \A f \in FEB : Answered(f) => Answered(f)' BY <1>4, <2>1 DEF Answered
  <2> QED BY <1>4, <2>2 DEF LossInv, AnswerInv
<1> QED BY <1>1, <1>2, <1>3, <1>5, <1>6 DEF LossInv
-----------------------------------------------------------------------------
(***************************************************************************)
(* The loss of a link, MIDAS, the switching boards and the mergers.        *)
(***************************************************************************)
LEMMA DropLoss ==
  ASSUME TypeInv, LossInv, NEW f \in FEB, LoseLink(f)
  PROVE  LossInv'
<1>1. UNCHANGED <<line, terminated, listener, midas, asked, ready, request>>
  BY DEF LoseLink, sw_vars, ack_vars
<1>2. /\ board'[f].state = "IDLE" /\ board'[f].o_state = board[f].o_state
      /\ \A g \in FEB : g # f => board'[g] = board[g]
  <2>1. board' = [board EXCEPT ![f] = Cleared(board[f])] /\ LinkLoss BY DEF LoseLink, HardReset
  <2>2. board'[f] = Cleared(board[f]) /\ \A g \in FEB : g # f => board'[g] = board[g]
    BY <2>1 DEF TypeInv, CBTypeOK
  <2>3. Cleared(board[f]).o_state = board[f].o_state
    BY <2>1, ClearedStep DEF TypeInv, BoardsInv
  <2>4. Cleared(board[f]).state = "IDLE" BY DEF Cleared, PowerUp
  <2> QED BY <2>2, <2>3, <2>4
<1>3. (Prepared' <=> Prepared) /\ (Begun' <=> Begun) /\ (Ending' <=> Ending) /\ (Passed' <=> Passed)
  BY <1>1 DEF Prepared, Begun, Ending, Passed
<1>4. RowInv'
  <2>1. Awaiting(board'[f], line) BY <1>2 DEF Awaiting, Fresh
  <2>2. \A g \in FEB : Awaiting(board'[g], line) BY <1>2, <2>1 DEF LossInv, RowInv
  <2> QED BY <1>1, <2>2 DEF LossInv, RowInv
<1>5. ASSUME NEW g \in FEB, Old(board[g], g \in terminated)
      PROVE  Old(board'[g], g \in terminated')
  BY <1>1, <1>2, <1>5 DEF Old
<1>6. ASSUME NEW g \in FEB, Calm(board[g], g \in terminated)
      PROVE  Calm(board'[g], g \in terminated')
  <2>1. Old(board'[g], g \in terminated') BY <1>5, <1>6 DEF Calm
  <2>2. board'[g].state \notin Fresh /\ board'[g].o_state \notin Fresh
    BY <1>2, <1>6 DEF Calm, Fresh
  <2> QED BY <2>1, <2>2 DEF Calm
<1>7. CalmInv' BY <1>1, <1>3, <1>6 DEF LossInv, CalmInv, AllCalm
<1>8. PreparingInv'
  <2>1. SUFFICES ASSUME Prepared PROVE PreparingInv' BY <1>3 DEF PreparingInv
  <2>2. /\ \A i, j \in 1..Len(line) :
             i < j /\ (line[i].role = "payload" \/ (line[i].role = "command" /\ line[i].byte = RunPrepare))
               => line[j].role # "command"
        /\ \A g \in FEB :
             /\ board[g].state \notin {"SYNC", "RUNNING"}
             /\ board[g].o_state \notin {"SYNC", "RUNNING"}
             /\ Old(board[g], g \in terminated)
             /\ board[g].state = "PREP" \/ board[g].o_state = "PREP" => Passed
    BY <2>1 DEF LossInv, PreparingInv
  <2>3. \A g \in FEB :
             /\ board'[g].state \notin {"SYNC", "RUNNING"}
             /\ board'[g].o_state \notin {"SYNC", "RUNNING"}
             /\ Old(board'[g], g \in terminated')
             /\ board'[g].state = "PREP" \/ board'[g].o_state = "PREP" => Passed'
    BY <1>2, <1>3, <1>5, <2>2
  <2> QED BY <1>1, <2>2, <2>3 DEF PreparingInv
<1>9. EndingInv'
  <2>1. \A g \in FEB : Begun =>
          /\ Ending' \/ Old(board'[g], g \in terminated')
          /\ listener'[g].end_of_run_received => Ending' /\ Calm(board'[g], g \in terminated')
    BY <1>1, <1>3, <1>5, <1>6 DEF LossInv, EndingInv
  <2> QED BY <1>1, <1>3, <2>1 DEF LossInv, EndingInv
<1>10. AnswerInv'
  <2>1. \A g \in FEB : Answered(g) => Answered(g)' BY <1>1, <1>3 DEF Answered
  <2> QED BY <1>1, <2>1 DEF LossInv, AnswerInv
<1> QED BY <1>4, <1>7, <1>8, <1>9, <1>10 DEF LossInv

LEMMA SameCalm ==
  ASSUME LossInv, UNCHANGED <<board, line, terminated, midas>>, Prepared' <=> Prepared
  PROVE  RowInv' /\ CalmInv' /\ PreparingInv' /\ (Passed' <=> Passed) /\ (Ending' <=> Ending)
<1>1. (Passed' <=> Passed) /\ (Ending' <=> Ending) BY DEF Passed, Ending
<1>2. RowInv' BY DEF LossInv, RowInv
<1>3. CalmInv' BY <1>1 DEF LossInv, CalmInv, AllCalm
<1>4. PreparingInv' BY <1>1 DEF LossInv, PreparingInv
<1> QED BY <1>1, <1>2, <1>3, <1>4

LEMMA SameEnding ==
  ASSUME LossInv, UNCHANGED <<board, line, terminated>>, Begun' <=> Begun,
         \A f \in FEB : listener'[f].end_of_run_received => listener[f].end_of_run_received
  PROVE  EndingInv'
<1>1. Ending' <=> Ending BY DEF Ending
<1> QED BY <1>1 DEF LossInv, EndingInv

LEMMA StartLoss ==
  ASSUME TypeInv, LossInv, StartTransition
  PROVE  LossInv'
<1>1. /\ midas = "stopped" /\ midas' = "starting" /\ asked' = {} /\ ready' = {}
      /\ UNCHANGED <<board, terminated, line, listener, request>>
  BY DEF StartTransition, ack_vars
<1>2. ~Prepared' /\ ~Begun' BY <1>1 DEF Prepared, Begun
<1>3. Ending /\ AllCalm BY <1>1 DEF LossInv, CalmInv
<1>4. Ending' /\ AllCalm' BY <1>1, <1>3 DEF Ending, AllCalm
<1>5. RowInv' BY <1>1 DEF LossInv, RowInv
<1>6. AnswerInv'
  <2>1. \A s \in ActiveSWB : ~request[s] BY <1>1 DEF LossInv, AnswerInv
  <2>2. \A f \in FEB : Answered(f)' BY <1>1 DEF Answered
  <2> QED BY <1>1, <2>1, <2>2 DEF LossInv, AnswerInv
<1> QED BY <1>2, <1>4, <1>5, <1>6 DEF LossInv, CalmInv, PreparingInv, EndingInv

LEMMA StartCancelledLoss ==
  ASSUME TypeInv, LossInv, StartCancelled
  PROVE  LossInv'
<1>1. /\ midas = "starting" /\ midas' = "stopped" /\ asked = {}
      /\ UNCHANGED <<board, terminated, line, request, asked>>
  BY DEF StartCancelled
<1>2. ~Prepared /\ ~Prepared' /\ ~Begun' BY <1>1 DEF Prepared, Begun
<1>3. \A f \in FEB :
        /\ listener'[f].end_of_run_received <=> listener[f].end_of_run_received
        /\ listener'[f].run_prep_acknowledge_received => listener[f].run_prep_acknowledge_received
  <2>1. PICK s \in SWB : ResetListeners(s) BY DEF StartCancelled
  <2> QED BY <2>1, ResetForgets
<1>4. Ending /\ AllCalm BY <1>1, <1>2 DEF LossInv, CalmInv
<1>5. CalmInv' BY <1>1, <1>4 DEF CalmInv, Ending, AllCalm
<1>6. RowInv' BY <1>1 DEF LossInv, RowInv
<1>7. AnswerInv'
  <2>1. \A s \in ActiveSWB : ~request[s] BY <1>1 DEF LossInv, AnswerInv
  <2>2. \A f \in FEB :
          listener'[f].run_prep_acknowledge_received => ~listener'[f].end_of_run_received
    BY <1>3 DEF LossInv, AnswerInv
  <2> QED BY <1>1, <2>1, <2>2 DEF AnswerInv
<1> QED BY <1>2, <1>5, <1>6, <1>7 DEF LossInv, PreparingInv, EndingInv

LEMMA RequestLoss ==
  ASSUME TypeInv, LossInv, NEW s \in SWB, RequestRunPrepare(s)
  PROVE  LossInv'
<1>1. /\ midas = "starting" /\ s \notin asked /\ asked' = asked \cup {s}
      /\ request' = [request EXCEPT ![s] = TRUE]
      /\ UNCHANGED <<board, terminated, line, midas, ready>>
  BY DEF RequestRunPrepare
<1>2. \A f \in FEB :
        /\ listener'[f].end_of_run_received <=> listener[f].end_of_run_received
        /\ f \in Boards[s] => ~listener'[f].run_prep_acknowledge_received
        /\ f \notin Boards[s] => listener'[f] = listener[f]
  BY RequestForgets
<1>3. Prepared' <=> Prepared BY RequestForgets
<1>4. RowInv' /\ CalmInv' /\ PreparingInv' /\ (Passed' <=> Passed)
  BY <1>1, <1>3, SameCalm
<1>5. EndingInv' BY <1>1, <1>2, SameEnding DEF Begun
<1>6. AnswerInv'
  <2>1. /\ \A t \in ActiveSWB : request[t] => midas = "starting" /\ t \in asked
        /\ \A f \in FEB :
             listener[f].run_prep_acknowledge_received => ~listener[f].end_of_run_received
        /\ \A f \in FEB : Answered(f)
    BY <1>1 DEF LossInv, AnswerInv
  <2>2. \A t \in ActiveSWB : request'[t] => midas' = "starting" /\ t \in asked'
    <3>1. request \in [SWB -> BOOLEAN] BY DEF TypeInv, CBTypeOK
    <3> QED BY <1>1, <2>1, <3>1, MaskAssumption
  <2>3. \A f \in FEB :
          listener'[f].run_prep_acknowledge_received => ~listener'[f].end_of_run_received
    BY <1>2, <2>1
  <2>4. ASSUME NEW f \in FEB PROVE Answered(f)'
    <3>1. ASSUME NEW t \in asked', f \in Boards[t], listener'[f].run_prep_acknowledge_received
          PROVE  Prepared' /\ Passed'
      <4>1. f \notin Boards[s] BY <1>2, <3>1
      <4>2. t \in asked /\ listener[f].run_prep_acknowledge_received BY <1>1, <1>2, <3>1, <4>1
      <4> QED BY <1>3, <1>4, <2>1, <3>1, <4>2 DEF Answered
    <3>2. ASSUME NEW t \in ready', f \in Boards[t]
          PROVE  Prepared' /\ Passed' /\ ~listener'[f].end_of_run_received
      BY <1>1, <1>2, <1>3, <1>4, <2>1, <3>2 DEF Answered
    <3> QED BY <3>1, <3>2 DEF Answered
  <2> QED BY <2>2, <2>3, <2>4 DEF AnswerInv
<1> QED BY <1>4, <1>5, <1>6 DEF LossInv

LEMMA ReturnLoss ==
  ASSUME AsDeployed, TypeInv, LossInv, NEW s \in SWB, RequestReturns(s)
  PROVE  LossInv'
<1>1. /\ midas = "starting" /\ s \in asked /\ ready' = ready \cup {s}
      /\ Boards[s] \cap FEB \subseteq runNr_ack
      /\ UNCHANGED <<board, terminated, line, listener, midas, request, asked>>
  BY DEF RequestReturns, AsDeployed, ack_vars
<1>2. Prepared' <=> Prepared BY <1>1 DEF Prepared
<1>3. RowInv' /\ CalmInv' /\ PreparingInv' /\ (Passed' <=> Passed) BY <1>1, <1>2, SameCalm
<1>4. EndingInv' BY <1>1, SameEnding DEF Begun
<1>5. AnswerInv'
  <2>1. /\ \A t \in ActiveSWB : request[t] => midas = "starting" /\ t \in asked
        /\ \A f \in FEB :
             listener[f].run_prep_acknowledge_received => ~listener[f].end_of_run_received
        /\ \A f \in FEB : Answered(f)
    BY <1>1 DEF LossInv, AnswerInv
  <2>2. ASSUME NEW f \in FEB PROVE Answered(f)'
    <3>1. ASSUME f \in Boards[s] PROVE Prepared /\ Passed /\ ~listener[f].end_of_run_received
      <4>1. listener[f].run_prep_acknowledge_received BY <1>1, <3>1 DEF runNr_ack
      <4> QED BY <1>1, <2>1, <3>1, <4>1 DEF Answered
    <3> QED BY <1>1, <1>2, <1>3, <2>1, <3>1 DEF Answered
  <2> QED BY <1>1, <2>1, <2>2 DEF AnswerInv
<1> QED BY <1>3, <1>4, <1>5 DEF LossInv

\* A board that shows PREP has read "Run Prepare", or a byte of the number
\* behind it.
LEMMA AcknowledgeLoss ==
  ASSUME TypeInv, LossInv, NEW f \in FEB, Acknowledge(f)
  PROVE  LossInv'
<1>1. /\ board[f].o_state = "PREP"
      /\ UNCHANGED <<board, terminated, line, midas, request, asked, ready>>
  BY DEF Acknowledge, sw_vars
<1>2. /\ listener'[f].run_prep_acknowledge_received /\ ~listener'[f].end_of_run_received
      /\ \A g \in FEB : g # f => listener'[g] = listener[g]
  BY AcknowledgeListened
<1>3. Prepared' <=> Prepared BY <1>1 DEF Prepared
<1>4. RowInv' /\ CalmInv' /\ PreparingInv' /\ (Passed' <=> Passed) BY <1>1, <1>3, SameCalm
<1>5. EndingInv' BY <1>1, <1>2, SameEnding DEF Begun
<1>6. midas = "starting" => Prepared /\ Passed
  <2>1. ~Calm(board[f], f \in terminated) BY <1>1 DEF Calm, Fresh
  <2>2. midas = "starting" => Prepared BY <2>1 DEF LossInv, CalmInv, AllCalm
  <2> QED BY <1>1, <2>2 DEF LossInv, PreparingInv
<1>7. AnswerInv'
  <2>1. \A g \in FEB :
          listener'[g].run_prep_acknowledge_received => ~listener'[g].end_of_run_received
    BY <1>2 DEF LossInv, AnswerInv
  <2>2. ASSUME midas = "starting", NEW g \in FEB PROVE Answered(g)'
    <3>1. Answered(g) BY <2>2 DEF LossInv, AnswerInv
    <3>2. listener'[g].end_of_run_received => listener[g].end_of_run_received BY <1>2
    <3> QED BY <1>1, <1>3, <1>4, <1>6, <2>2, <3>1, <3>2 DEF Answered
  <2> QED BY <1>1, <2>1, <2>2 DEF LossInv, AnswerInv
<1> QED BY <1>4, <1>5, <1>7 DEF LossInv

\* A board sends its end of run only while the run ends: nothing behind it
\* on the line starts anything.
LEMMA TerminateLoss ==
  ASSUME TypeInv, LossInv, NEW f \in FEB, Terminate(f)
  PROVE  LossInv'
<1>1. /\ board[f].o_state = "TERMINATING" /\ f \notin terminated
      /\ terminated' = terminated \cup {f}
      /\ UNCHANGED <<board, line, midas, request, asked, ready>>
  BY DEF Terminate, sw_vars
<1>2. /\ ~listener'[f].run_prep_acknowledge_received
      /\ \A g \in FEB : g # f => listener'[g] = listener[g]
  BY TerminateListened
<1>3. ~Old(board[f], f \in terminated) BY <1>1 DEF Old
<1>4. Begun
  <2>1. ~Prepared BY <1>3 DEF LossInv, PreparingInv
  <2>2. ~(midas = "stopped" \/ (midas = "starting" /\ ~Prepared))
    BY <1>3 DEF LossInv, CalmInv, AllCalm, Calm
  <2> QED BY <2>1, <2>2, Phases
<1>5. midas' # "starting" /\ midas' # "stopped" /\ ~Prepared' /\ Begun'
  BY <1>1, <1>4, Phases DEF Prepared, Begun
<1>6. RowInv' BY <1>1 DEF LossInv, RowInv
<1>7. Ending /\ Ending' BY <1>1, <1>3, <1>4 DEF LossInv, EndingInv, Ending
<1>8. Calm(board[f], TRUE)
  <2>1. board[f].state \notin Fresh BY <1>1 DEF LossInv, RowInv, Awaiting
  <2> QED BY <1>1, <2>1 DEF Calm, Old, Fresh
<1>9. EndingInv'
  <2>1. ASSUME NEW g \in FEB, listener'[g].end_of_run_received
        PROVE  Calm(board'[g], g \in terminated')
    <3>1. CASE g = f
      <4>1. f \in terminated' BY <1>1
      <4> QED BY <1>1, <1>8, <3>1, <4>1 DEF Calm, Old
    <3>2. CASE g # f
      <4>1. Calm(board[g], g \in terminated) BY <1>2, <1>4, <2>1, <3>2 DEF LossInv, EndingInv
      <4>2. g \in terminated => g \in terminated' BY <1>1
      <4> QED BY <1>1, <4>1, <4>2 DEF Calm, Old
    <3> QED BY <3>1, <3>2
  <2> QED BY <1>1, <1>4, <1>7, <2>1 DEF LossInv, EndingInv
<1>10. AnswerInv' BY <1>1, <1>2, <1>5 DEF LossInv, AnswerInv
<1> QED BY <1>5, <1>6, <1>9, <1>10 DEF LossInv, CalmInv, PreparingInv

LEMMA ConfirmedLoss ==
  ASSUME AsDeployed, TypeInv, LossInv, StopConfirmed
  PROVE  LossInv'
<1>1. /\ midas \in {"stopping", "waiting"} /\ midas' = "stopped" /\ FEB \subseteq run_stop_ack
      /\ UNCHANGED <<board, terminated, line, listener, request, asked, ready>>
  BY DEF StopConfirmed, AsDeployed, ack_vars
<1>2. Begun /\ ~Begun' /\ ~Prepared' BY <1>1 DEF Begun, Prepared
<1>3. \A f \in FEB : Ending /\ Calm(board[f], f \in terminated)
  BY <1>1, <1>2 DEF LossInv, EndingInv, run_stop_ack
<1>4. Ending /\ AllCalm BY <1>3 DEF AsDeployed, AllCalm
<1>5. CalmInv' BY <1>1, <1>4 DEF CalmInv, Ending, AllCalm
<1>6. RowInv' BY <1>1 DEF LossInv, RowInv
<1>7. AnswerInv' BY <1>1 DEF LossInv, AnswerInv
<1> QED BY <1>2, <1>5, <1>6, <1>7 DEF LossInv, PreparingInv, EndingInv

LEMMA CancelledLoss ==
  ASSUME TypeInv, LossInv, WaitForRunEnd \/ StopCancelled
  PROVE  LossInv'
<1>1. /\ midas \in {"stopping", "waiting"} /\ midas' \in {"waiting", "running"}
      /\ UNCHANGED <<board, terminated, line, listener, request, asked, ready>>
  BY DEF WaitForRunEnd, StopCancelled, ack_vars
<1>2. Begun /\ Begun' /\ ~Prepared' BY <1>1 DEF Begun, Prepared
<1>3. EndingInv' BY <1>1, <1>2, SameEnding
<1>4. RowInv' BY <1>1 DEF LossInv, RowInv
<1>5. AnswerInv' BY <1>1 DEF LossInv, AnswerInv
<1> QED BY <1>1, <1>2, <1>3, <1>4, <1>5 DEF LossInv, CalmInv, PreparingInv

LEMMA TalksLoss ==
  ASSUME AsDeployed, TypeInv, LossInv, Talks
  PROVE  LossInv'
BY StartLoss, StartCancelledLoss, RequestLoss, ReturnLoss, AcknowledgeLoss, TerminateLoss, ConfirmedLoss, CancelledLoss
   DEF Talks
-----------------------------------------------------------------------------
(***************************************************************************)
(* What crfe writes.                                                       *)
(***************************************************************************)
LEMMA PlainSymbol ==
  ASSUME NEW x, IsSymbol(x), x.role # "address",
         x.role = "command" => x.byte \in {RunPrepare, Sync, StartRun, EndRun}
  PROVE  Plain(x)
BY DEF IsSymbol, IsComma, IsCommand, IsPayload, IsAddress, Plain

\* What carries no number joins the row anywhere.
LEMMA RowGrows ==
  ASSUME TypeInv, RowInv, NEW q \in Seq(Symbol), Write(q), board' = board,
         \A x \in In(q) : Plain(x) /\ ~Numeral(x)
  PROVE  RowInv'
<1>1. /\ Len(line) \in Nat /\ Len(q) \in Nat
      /\ \A i \in 1..Len(line') : (i <= Len(line) /\ i \in 1..Len(line) /\ line'[i] = line[i])
           \/ \E j \in 1..Len(q) : i = Len(line) + j /\ line'[i] = q[j]
  <2>1. Len(line) \in Nat /\ Len(q) \in Nat BY Wrote
  <2>2. \A i \in 1..Len(line') : (i <= Len(line) /\ i \in 1..Len(line) /\ line'[i] = line[i])
           \/ \E j \in 1..Len(q) : i = Len(line) + j /\ line'[i] = q[j]
    BY Wrote
  <2> QED BY <2>1, <2>2
<1>2. \A j \in 1..Len(q) : Plain(q[j]) /\ ~Numeral(q[j]) BY DEF In
<1>3. Row(line) /\ \A f \in FEB : Awaiting(board[f], line) BY DEF RowInv
<1>4. \A i \in 1..Len(line') : Plain(line'[i]) BY <1>1, <1>2, <1>3 DEF Row
<1>5. \A i \in 1..Len(line') : Numeral(line'[i]) => i \in 1..Len(line) /\ line'[i] = line[i]
  BY <1>1, <1>2
<1>6. \A i, j \in 1..Len(line') :
        Numeral(line'[i]) /\ Numeral(line'[j]) => i + line'[i].left = j + line'[j].left
  BY <1>3, <1>5 DEF Row
<1>7. ASSUME NEW i \in 1..Len(line'), NEW p \in 1..Len(line'),
             Numeral(line'[i]), p < i, line'[p].role = "command"
      PROVE  /\ line'[p].byte \in {RunPrepare, EndRun}
             /\ line'[p].byte = RunPrepare => i + line'[i].left = p + 4
  <2>1. i \in 1..Len(line) /\ line'[i] = line[i] BY <1>5, <1>7
  <2>2. p \in 1..Len(line) /\ line'[p] = line[p]
    <3>1. \A j \in 1..Len(q) : p # Len(line) + j BY <1>1, <1>7, <2>1
    <3> QED BY <1>1, <3>1
  <2> QED BY <1>3, <1>7, <2>1, <2>2 DEF Row
<1>8. Row(line') BY <1>4, <1>6, <1>7 DEF Row
<1>9. \A f \in FEB : Awaiting(board[f], line') BY <1>3, <1>5 DEF Awaiting
<1> QED BY <1>8, <1>9 DEF RowInv

\* The run is prepared on a line that holds nothing but ends.
LEMMA PrepareLoss ==
  ASSUME TypeInv, LossInv, PrepareRunOnRequest
  PROVE  LossInv'
<1>1. /\ ActiveSWB # {} /\ \A s \in ActiveSWB : request[s]
      /\ Write(Frame(RunPrepare, RunBytes[run]))
      /\ request' = [s \in SWB |-> FALSE]
      /\ UNCHANGED <<board, terminated, listener, midas, run, asked, ready>>
  BY DEF PrepareRunOnRequest, ack_vars
<1>2. /\ \A s \in ActiveSWB : request[s] => midas = "starting" /\ s \in asked
      /\ \A f \in FEB :
           listener[f].run_prep_acknowledge_received => ~listener[f].end_of_run_received
      /\ midas = "starting" => \A f \in FEB : Answered(f)
  BY DEF LossInv, AnswerInv
<1>3. /\ midas = "starting" /\ \A s \in ActiveSWB : s \in asked
      /\ ~Prepared /\ Prepared' /\ ~Begun'
  BY <1>1, <1>2, MaskAssumption DEF Prepared, Begun
<1>4. Ending /\ AllCalm BY <1>3 DEF LossInv, CalmInv
<1>5. PICK p \in [1..4 -> Byte] : p = RunBytes[run]
  <2>1. run \in 1..MaxRuns BY <1>3 DEF TypeInv, CBTypeOK
  <2> QED BY <2>1, CommandBytes
<1>6. PICK q : q = Frame(RunPrepare, p) OBVIOUS
<1>7. RunPrepare \in Commands /\ RunPrepare \in Byte BY CommandBytes DEF Commands
<1>8. /\ q \in Seq(Symbol) /\ Shaped(q) /\ Len(q) = 8 /\ Write(q)
      /\ \A j \in 1..3 : q[j].role = "comma"
      /\ q[4].role = "command" /\ q[4].byte = RunPrepare
      /\ \A j \in 5..8 : q[j].role = "payload" /\ q[j].left = 8 - j
  <2>1. Len(q) = IF RunPrepare = RunPrepare THEN 8 ELSE 4 BY <1>6, <1>7, ShapedFrame
  <2>2. Len(q) = 8 BY <2>1
  <2>3. q \in Seq(Symbol) /\ Shaped(q) BY <1>6, <1>7, ShapedFrame
  <2>4. \A i \in 1..3 : q[i] = Sym(Comma, FEB, "comma", 3 - i) BY <1>6, <1>7, ShapedFrame
  <2>5. q[4] = Sym(RunPrepare, FEB, "command", 0) BY <1>6, <1>7, ShapedFrame
  <2>6. \A i \in 5..Len(q) : q[i] = Sym(p[i - 4], FEB, "payload", 8 - i) BY <1>6, <1>7, ShapedFrame
  <2>7. \A i \in 1..3 : q[i].role = "comma" BY <2>4 DEF Sym
  <2>8. \A i \in 5..8 : q[i].role = "payload" /\ q[i].left = 8 - i BY <2>2, <2>6 DEF Sym
  <2>9. q[4].role = "command" /\ q[4].byte = RunPrepare BY <2>5 DEF Sym
  <2> QED BY <1>1, <1>5, <1>6, <2>2, <2>3, <2>7, <2>8, <2>9
<1>9. PICK n \in Nat : n = Len(line) BY <1>8, Wrote
<1>10. \A i \in 1..Len(line') : (i <= n /\ i \in 1..n /\ line'[i] = line[i])
           \/ \E j \in 1..8 : i = n + j /\ line'[i] = q[j]
  <2>1. \A i \in 1..Len(line') : (i <= Len(line) /\ i \in 1..Len(line) /\ line'[i] = line[i])
           \/ \E j \in 1..Len(q) : i = Len(line) + j /\ line'[i] = q[j]
    BY <1>8, Wrote
  <2> QED BY <1>8, <1>9, <2>1
<1>11. \A i \in 1..n : Late(line[i]) /\ Plain(line[i])
  BY <1>4, <1>9 DEF Ending, In, LossInv, RowInv, Row
\* Where the commands and the bytes of the number are.
<1>12. ASSUME NEW i \in 1..Len(line')
       PROVE  /\ Plain(line'[i])
              /\ line'[i].role = "payload" => i + line'[i].left = n + 8 /\ i > n + 4
              /\ line'[i].role = "command" =>
                   \/ i <= n /\ line'[i].byte = EndRun
                   \/ i = n + 4 /\ line'[i].byte = RunPrepare
  <2>1. CASE i <= n /\ i \in 1..n /\ line'[i] = line[i]
    BY <1>11, <2>1 DEF Late, Plain, RunPrepare, Sync, StartRun, EndRun, AbortRun
  <2>2. CASE \E j \in 1..8 : i = n + j /\ line'[i] = q[j]
    <3>1. PICK j \in 1..8 : i = n + j /\ line'[i] = q[j] BY <2>2
    <3>2. IsSymbol(q[j]) BY <1>8, <3>1 DEF Shaped
    <3>3. j \in 1..3 \/ j = 4 \/ j \in 5..8 BY <3>1
    <3>4. Plain(q[j])
      <4>1. q[j].role # "address" /\ (q[j].role = "command" => q[j].byte = RunPrepare)
        BY <1>8, <3>3
      <4> QED BY <3>2, <4>1, PlainSymbol
    <3>5. q[j].role = "payload" => j \in 5..8 BY <1>8, <3>3
    <3>6. j \in 5..8 => i + (8 - j) = n + 8 /\ i > n + 4 BY <3>1
    <3>7. q[j].role = "command" => j = 4 /\ q[j].byte = RunPrepare BY <1>8, <3>3
    <3> QED BY <1>8, <3>1, <3>4, <3>5, <3>6, <3>7
  <2> QED BY <1>10, <2>1, <2>2
<1>13. RowInv'
  <2>1. ASSUME NEW i \in 1..Len(line'), NEW k \in 1..Len(line'),
               line'[i].role = "payload", k < i, line'[k].role = "command"
        PROVE  /\ line'[k].byte \in {RunPrepare, EndRun}
               /\ line'[k].byte = RunPrepare => i + line'[i].left = k + 4
    <3>1. k = n + 4 => n + 8 = k + 4 OBVIOUS
    <3>2. i + line'[i].left = n + 8 BY <1>12, <2>1
    <3>3. EndRun # RunPrepare BY DEF EndRun, RunPrepare
    <3> QED BY <1>12, <2>1, <3>1, <3>2, <3>3
  <2>2. Row(line') BY <1>12, <2>1 DEF Row, Numeral
  <2>3. \A f \in FEB : Awaiting(board[f], line')
    BY <1>4 DEF AllCalm, Calm, Awaiting, Fresh
  <2> QED BY <1>1, <2>2, <2>3 DEF RowInv
<1>14. PreparingInv'
  <2>1. ASSUME NEW i \in 1..Len(line'), NEW j \in 1..Len(line'), i < j,
               line'[i].role = "payload" \/ (line'[i].role = "command" /\ line'[i].byte = RunPrepare)
        PROVE  line'[j].role # "command"
    <3>1. i > n + 4 \/ i = n + 4 BY <1>12, <2>1 DEF EndRun, RunPrepare
    <3>2. j > n + 4 BY <2>1, <3>1
    <3>3. ~(j <= n) /\ j # n + 4 BY <3>2
    <3> QED BY <1>12, <3>3
  <2>2. \A f \in FEB : Calm(board'[f], f \in terminated') BY <1>1, <1>4 DEF AllCalm
  <2> QED BY <2>1, <2>2 DEF PreparingInv, Calm, Fresh
<1>15. AnswerInv'
  <2>1. ASSUME NEW f \in FEB PROVE Answered(f)'
    <3>1. Answered(f) BY <1>2, <1>3
    <3> QED BY <1>1, <1>3, <3>1 DEF Answered
  <2> QED BY <1>1, <1>2, <2>1 DEF AnswerInv
<1> QED BY <1>1, <1>3, <1>13, <1>14, <1>15 DEF LossInv, CalmInv, EndingInv

\* The run is begun once all boards have shown PREP: all commands have
\* passed.
LEMMA BeginLoss ==
  ASSUME AsDeployed, TypeInv, LossInv, BeginOfRun
  PROVE  LossInv'
<1>1. /\ midas = "starting" /\ ready = SWB /\ midas' = "running"
      /\ Write(BeginFrames)
      /\ UNCHANGED <<board, terminated, listener, request, asked, ready>>
  BY DEF BeginOfRun, BeginFrames, ack_vars
<1>2. ASSUME NEW f \in FEB PROVE Prepared /\ Passed /\ ~listener[f].end_of_run_received
  <2>1. PICK s \in SWB : f \in Boards[s] BY DEF AsDeployed
  <2>2. Answered(f) BY <1>1 DEF LossInv, AnswerInv
  <2> QED BY <1>1, <2>1, <2>2 DEF Answered
<1>3. Prepared /\ Passed BY <1>2 DEF AsDeployed
<1>4. PICK q : q = BeginFrames OBVIOUS
<1>5. /\ q \in Seq(Symbol) /\ Write(q)
      /\ \A x \in In(q) : /\ x.role = "command" => x.byte \in {RunPrepare, Sync, StartRun}
                          /\ Plain(x) /\ ~Numeral(x)
  <2>1. /\ q \in Seq(Symbol) /\ Shaped(q)
        /\ \A x \in In(q) : /\ x.role # "address"
                            /\ x.role = "command" => x.byte \in {RunPrepare, Sync, StartRun}
                            /\ x.role = "payload" => x.byte = 0
    BY <1>4, BeginIs
  <2>2. \A x \in In(q) : IsSymbol(x) BY <2>1 DEF Shaped, In
  <2>3. \A x \in In(q) : Plain(x) BY <2>1, <2>2, PlainSymbol
  <2> QED BY <1>1, <1>4, <2>1, <2>3 DEF Numeral
<1>6. RowInv' BY <1>1, <1>5, RowGrows DEF LossInv
<1>7. midas' # "starting" /\ midas' # "stopped" /\ ~Prepared' /\ Begun'
  BY <1>1 DEF Prepared, Begun
<1>8. EndingInv'
  <2>1. \A x \in In(line') : x \in In(line) \/ x \in In(q) BY <1>5, Wrote
  <2>2. \A x \in In(line') : x.role = "command" => x.byte # EndRun
    BY <1>3, <1>5, <2>1 DEF Passed, EndRun, RunPrepare, Sync, StartRun
  <2>3. \A i \in 1..Len(line') : line'[i] \in In(line') BY DEF In
  <2>4. \A f \in FEB : Old(board[f], f \in terminated) BY <1>3 DEF LossInv, PreparingInv
  <2> QED BY <1>1, <1>2, <2>2, <2>3, <2>4 DEF EndingInv
<1>9. AnswerInv'
  <2>1. \A s \in ActiveSWB : ~request'[s] BY <1>1, <1>3 DEF Prepared
  <2> QED BY <1>1, <1>2, <1>7, <2>1 DEF AnswerInv
<1> QED BY <1>6, <1>7, <1>8, <1>9 DEF LossInv, CalmInv, PreparingInv

LEMMA EndLoss ==
  ASSUME TypeInv, LossInv, EndOfRun
  PROVE  LossInv'
<1>1. /\ midas = "running" /\ midas' = "stopping"
      /\ Write(Frame(EndRun, Zero))
      /\ UNCHANGED <<board, terminated, listener, request, asked, ready>>
  BY DEF EndOfRun, ack_vars
<1>2. EndRun \in Commands /\ EndRun \in Byte /\ Zero \in [1..4 -> Byte] /\ EndRun # RunPrepare
  BY CommandBytes DEF Commands, EndRun, RunPrepare
<1>3. PICK q : q = Frame(EndRun, Zero) OBVIOUS
<1>4. q \in Seq(Symbol) /\ Shaped(q) /\ Write(q) BY <1>1, <1>2, <1>3, ShapedFrame
<1>5. \A x \in In(q) : Plain(x) /\ ~Numeral(x) /\ Late(x)
  <2>1. \A x \in In(q) : x.role # "address" /\ x.role # "payload" /\ (x.role = "command" => x.byte = EndRun)
    BY <1>2, <1>3, FrameSymbols
  <2>2. \A x \in In(q) : IsSymbol(x) BY <1>4 DEF Shaped, In
  <2>3. \A x \in In(q) : Plain(x) BY <2>1, <2>2, PlainSymbol
  <2> QED BY <2>1, <2>3 DEF Numeral, Late
<1>6. RowInv' BY <1>1, <1>4, <1>5, RowGrows DEF LossInv
<1>7. Begun /\ Begun' /\ ~Prepared' BY <1>1 DEF Prepared, Begun
<1>8. Ending => Ending'
  <2>1. \A x \in In(line') : x \in In(line) \/ x \in In(q) BY <1>4, Wrote
  <2> QED BY <1>5, <2>1 DEF Ending
<1>9. ASSUME NEW i \in 1..Len(line'), NEW j \in 1..Len(line'), i < j,
             line'[i].role = "command", line'[i].byte = EndRun
      PROVE  Late(line'[j])
  <2>1. Len(line) \in Nat BY <1>4, Wrote
  <2>2. \A k \in 1..Len(line') : (k <= Len(line) /\ k \in 1..Len(line) /\ line'[k] = line[k])
           \/ \E l \in 1..Len(q) : k = Len(line) + l /\ line'[k] = q[l]
    BY <1>4, Wrote
  <2>3. CASE j <= Len(line) /\ j \in 1..Len(line) /\ line'[j] = line[j]
    <3>1. \A l \in 1..Len(q) : i # Len(line) + l BY <1>9, <2>1, <2>3
    <3>2. i \in 1..Len(line) /\ line'[i] = line[i] BY <2>2, <3>1
    <3> QED BY <1>7, <1>9, <2>3, <3>2 DEF LossInv, EndingInv
  <2>4. CASE \E l \in 1..Len(q) : line'[j] = q[l] BY <1>5, <2>4 DEF In
  <2> QED BY <2>2, <2>3, <2>4
<1>10. EndingInv' BY <1>1, <1>7, <1>8, <1>9 DEF LossInv, EndingInv
<1>11. AnswerInv' BY <1>1 DEF LossInv, AnswerInv
<1> QED BY <1>1, <1>6, <1>7, <1>10, <1>11 DEF LossInv, CalmInv, PreparingInv
-----------------------------------------------------------------------------
Unpressed == TypeInv /\ (presses = 0 => LossInv)

LEMMA LossInit == ASSUME CBInit PROVE LossInv
<1>1. /\ \A f \in FEB : board[f].state = "IDLE" /\ board[f].o_state = "IDLE"
      /\ line = <<>> /\ midas = "stopped" /\ \A s \in SWB : ~request[s]
      /\ \A f \in FEB : ~listener[f].run_prep_acknowledge_received
  BY DEF CBInit, Init, PowerUp
<1>2. Len(line) = 0 /\ In(line) = {} BY <1>1 DEF In
<1>3. RowInv BY <1>1, <1>2 DEF RowInv, Row, Awaiting, Fresh
<1>4. Ending /\ AllCalm BY <1>1, <1>2 DEF Ending, AllCalm, Calm, Old, Fresh
<1>5. ~Prepared /\ ~Begun BY <1>1 DEF Prepared, Begun
<1>6. AnswerInv BY <1>1, MaskAssumption DEF AnswerInv
<1> QED BY <1>3, <1>4, <1>5, <1>6 DEF LossInv, CalmInv, PreparingInv, EndingInv

LEMMA StutterLoss == ASSUME LossInv, UNCHANGED vars PROVE LossInv'
<1>1. UNCHANGED <<board, terminated, line, listener, midas, request, asked, ready>>
  BY DEF vars, ack_vars, sw_vars
<1>2. (Prepared' <=> Prepared) /\ (Begun' <=> Begun) BY <1>1 DEF Prepared, Begun
<1>3. RowInv' /\ CalmInv' /\ PreparingInv' /\ (Passed' <=> Passed) BY <1>1, <1>2, SameCalm
<1>4. EndingInv' BY <1>1, <1>2, SameEnding
<1>5. AnswerInv'
  <2>1. \A f \in FEB : Answered(f) => Answered(f)' BY <1>1, <1>2, <1>3 DEF Answered
  <2> QED BY <1>1, <2>1 DEF LossInv, AnswerInv
<1> QED BY <1>3, <1>4, <1>5 DEF LossInv

LEMMA UnpressedStep ==
  ASSUME AsDeployed, Unpressed, [CBNext]_vars
  PROVE  Unpressed'
<1>1. TypeInv' BY TypeStep DEF Unpressed
<1>2. TypeInv /\ presses \in Nat /\ (presses = 0 => LossInv) BY Counts DEF Unpressed
<1>3. CASE UNCHANGED vars
  <2>1. presses' = presses BY <1>3 DEF vars, sw_vars
  <2> QED BY <1>1, <1>2, <1>3, <2>1, StutterLoss DEF Unpressed
<1>4. CASE Talks
  <2>1. presses' = presses
    BY <1>4 DEF Talks, StartTransition, StartCancelled, StopConfirmed, WaitForRunEnd,
                StopCancelled, RequestRunPrepare, RequestReturns, Acknowledge, Terminate, sw_vars
  <2> QED BY <1>1, <1>2, <1>4, <2>1, TalksLoss DEF Unpressed
<1>5. CASE PrepareRunOnRequest \/ BeginOfRun \/ EndOfRun
  <2>1. presses' = presses BY <1>5 DEF PrepareRunOnRequest, BeginOfRun, EndOfRun
  <2> QED BY <1>1, <1>2, <1>5, <2>1, PrepareLoss, BeginLoss, EndLoss DEF Unpressed
<1>6. CASE \E cmd \in Buttons : Press(cmd)
  <2>1. presses' = presses + 1 BY <1>6 DEF Press
  <2>2. presses' # 0 BY <1>2, <2>1
  <2> QED BY <1>1, <2>2 DEF Unpressed
<1>7. CASE Tick
  <2>1. presses' = presses BY <1>7 DEF Tick, sw_vars
  <2> QED BY <1>1, <1>2, <1>7, <2>1, TickLoss DEF Unpressed
<1>8. CASE \E f \in FEB : LoseLink(f)
  <2>1. presses' = presses BY <1>8 DEF LoseLink, sw_vars
  <2> QED BY <1>1, <1>2, <1>8, <2>1, DropLoss DEF Unpressed
<1> QED BY <1>3, <1>4, <1>5, <1>6, <1>7, <1>8, StepKinds DEF Writes

LEMMA UnpressedAlways ==
  ASSUME AsDeployed
  PROVE  CBSpec => []Unpressed
<1>1. CBInit => Unpressed BY InitTypes, LossInit DEF Unpressed
<1>2. Unpressed /\ [CBNext]_vars => Unpressed' BY UnpressedStep
<1> QED BY <1>1, <1>2, PTL DEF CBSpec

(* The stop: while no link is lost, however often an operator aborts, and  *)
(* while nobody aborts, however many links are lost, once MIDAS reports    *)
(* the run as stopped no board takes data any more, however often the stop *)
(* was cancelled and repeated; no end of an earlier run is taken for the   *)
(* end of this one.                                                        *)
THEOREM StopEndsTheRun ==
  ASSUME AsDeployed
  PROVE  CBSpec => [](presses = 0 \/ losses = 0 => StoppedMeansEnded)
<1>1. Undisturbed /\ Unpressed => (presses = 0 \/ losses = 0 => StoppedMeansEnded)
  <2> SUFFICES ASSUME Undisturbed, Unpressed, presses = 0 \/ losses = 0,
                      midas = "stopped", NEW f \in ActiveFEB
               PROVE  board[f].o_state # "RUNNING"
    BY DEF StoppedMeansEnded
  <2>1. CASE losses = 0
    <3>1. AllQuiet BY <2>1 DEF Undisturbed, SystemInv, StoppedInv
    <3> QED BY <3>1 DEF AllQuiet, Quiet, AsDeployed
  <2>2. CASE presses = 0
    <3>1. AllCalm BY <2>2 DEF Unpressed, LossInv, CalmInv
    <3> QED BY <3>1 DEF AllCalm, Calm, Fresh, AsDeployed
  <2> QED BY <2>1, <2>2
<1> QED BY <1>1, UndisturbedAlways, UnpressedAlways, PTL
=============================================================================
