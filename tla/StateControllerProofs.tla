----------------------- MODULE StateControllerProofs -----------------------
(***************************************************************************)
(* Proofs about the run state controller, for every set of boards, every   *)
(* address assignment, every set of bytes on the line, both versions of    *)
(* the entity, with and without link loss.                                 *)
(*                                                                         *)
(* FramingOK is inductive once the types are known.  That the shown states *)
(* implement RunStates needs OneBehind: the state a board shows lags the   *)
(* decoded state by at most one edge, because the decoded state is frozen  *)
(* as long as the payload hides it.                                        *)
(***************************************************************************)
EXTENDS StateController, TLAPS

OneBehind(c) == \/ c.o_state = c.state
                \/ <<c.o_state, c.state>> \in Shown!Edges
                \/ LinkLoss /\ c.state = "IDLE"

BoardInv(c) == /\ c \in Controller
               /\ PayloadFits(c)
               /\ CounterServesOne(c)
               /\ OneBehind(c)

-----------------------------------------------------------------------------
(* Every entry of the decoding table is an edge of the abstract states,    *)
(* and a command with payload leads to the state that owns the register.   *)
LEMMA GotoEdges ==
    \A s, t \in RunState : \A b :
        <<s, b, t>> \in Goto => <<s, t>> \in Shown!Edges
  BY DEF Goto, CommonGoto, FullGoto, InRun, RunState, RunPrepare, Sync, StartRun,
         EndRun, AbortRun, StartLinkTest, StopLinkTest, StartSyncTest, StopSyncTest,
         Reset, StopReset, Enable, Disable,
         Shown!Edges, Shown!RunEdges, Shown!AbortEdges, Shown!TestEdges,
         Shown!ResetEdges, Shown!DaqEdges, Shown!RunState

LEMMA GotoPayload ==
    \A s, t \in RunState : \A b :
        <<s, b, t>> \in Goto /\ PayloadBytes(b) > 0 =>
            t \in PayloadState /\ PayloadBytes(b) \in 1..Width(t)
  BY DEF Goto, CommonGoto, FullGoto, InRun, RunState, RunPrepare, Sync, StartRun,
         EndRun, AbortRun, StartLinkTest, StopLinkTest, StartSyncTest, StopSyncTest,
         Reset, StopReset, Enable, Disable, PayloadBytes, PayloadState, Width

LEMMA NextStateType ==
    ASSUME NEW s \in RunState, NEW b, NEW term \in BOOLEAN
    PROVE  /\ NextState(s, b, term) \in RunState
           /\ \/ NextState(s, b, term) = s
              \/ <<s, NextState(s, b, term)>> \in Shown!Edges
           /\ Accepted(s, b, term) => <<s, b, NextState(s, b, term)>> \in Goto
<1>1. CASE s = "TERMINATING" /\ term
  BY <1>1 DEF NextState, Accepted, RunState, Shown!Edges, Shown!RunEdges
<1>2. CASE Accepted(s, b, term)
  <2>1. ~(s = "TERMINATING" /\ term) BY <1>2 DEF Accepted
  <2>2. \E t \in RunState : <<s, b, t>> \in Goto BY <1>2 DEF Accepted
  <2>3. NextState(s, b, term) = CHOOSE t \in RunState : <<s, b, t>> \in Goto
    BY <1>2, <2>1 DEF NextState
  <2>4. NextState(s, b, term) \in RunState /\ <<s, b, NextState(s, b, term)>> \in Goto
    BY <2>2, <2>3
  <2>5. <<s, NextState(s, b, term)>> \in Shown!Edges BY <2>4, GotoEdges
  <2>. QED BY <1>2, <2>4, <2>5
<1>3. CASE ~(s = "TERMINATING" /\ term) /\ ~Accepted(s, b, term)
  <2>1. NextState(s, b, term) = Otherwise(s, b) BY <1>3 DEF NextState
  <2>. QED
    BY <1>3, <2>1 DEF Otherwise, RunState, Shown!Edges, Shown!RunEdges,
       Shown!TestEdges, Shown!DaqEdges
<1>. QED BY <1>1, <1>2, <1>3
-----------------------------------------------------------------------------
(* The transition process keeps its registers well-formed, and moves the   *)
(* decoded state only while no payload is awaited, along an edge.          *)
LEMMA TransitionStep ==
    ASSUME NEW c \in Controller, PayloadFits(c), NEW b \in Byte, NEW term \in BOOLEAN
    PROVE  LET t == TransitionProcess(c, b, term)
           IN  /\ t \in Controller
               /\ PayloadFits(t)
               /\ t.state = c.state \/ (~c.recieving_payload
                                        /\ <<c.state, t.state>> \in Shown!Edges)
<1>1. CASE ~c.addressed
  BY <1>1 DEF TransitionProcess
<1>2. CASE c.addressed /\ c.recieving_payload
  <2>. DEFINE t == TakePayload(c, b)
              p == IF c.state \in PayloadState
                   THEN [c.payload EXCEPT ![c.state][c.payload_byte_counter] = b]
                   ELSE c.payload
  <2>1. TransitionProcess(c, b, term) = t BY <1>2 DEF TransitionProcess
  <2>2. c.payload_byte_counter \in 1..4 /\ c.state \in PayloadState
        /\ c.payload_byte_counter \in 1..Width(c.state)
    BY <1>2 DEF PayloadFits, Width
  <2>3. p \in PayloadRegisters
    BY <2>2 DEF Controller, PayloadRegisters
  <2>4. t = [c EXCEPT !.payload_byte_counter = c.payload_byte_counter - 1,
                      !.recieving_payload = c.payload_byte_counter # 1,
                      !.payload = p]
    BY DEF TakePayload
  <2>5. c.payload_byte_counter - 1 \in 0..4 /\ (c.payload_byte_counter # 1) \in BOOLEAN
    BY <2>2
  <2>6. /\ t \in Controller
        /\ t.state = c.state
        /\ (t.recieving_payload <=> c.payload_byte_counter # 1)
        /\ t.payload_byte_counter = c.payload_byte_counter - 1
    BY <2>3, <2>4, <2>5 DEF Controller
  <2>7. PayloadFits(t)
    BY <2>2, <2>6 DEF PayloadFits, Width
  <2>. QED BY <2>1, <2>6, <2>7
<1>3. CASE c.addressed /\ ~c.recieving_payload
  <2>. DEFINE n == IF Accepted(c.state, b, term) THEN PayloadBytes(b) ELSE 0
              s == NextState(c.state, b, term)
              t == TakeCommand(c, b, term)
  <2>1. TransitionProcess(c, b, term) = t BY <1>3 DEF TransitionProcess
  <2>2. t = [c EXCEPT !.state = s, !.recieving_payload = n > 0,
                      !.payload_byte_counter =
                          IF n > 0 THEN n ELSE c.payload_byte_counter]
    BY DEF TakeCommand
  <2>3. c.state \in RunState BY DEF Controller
  <2>4. s \in RunState /\ (s = c.state \/ <<c.state, s>> \in Shown!Edges)
    BY <2>3, NextStateType
  <2>5. n \in 0..4 BY DEF PayloadBytes
  <2>6. /\ (n > 0) \in BOOLEAN
        /\ (IF n > 0 THEN n ELSE c.payload_byte_counter) \in 0..4
    BY <2>5 DEF Controller
  <2>7. /\ t \in Controller
        /\ t.state = s /\ (t.recieving_payload <=> n > 0)
        /\ n > 0 => t.payload_byte_counter = n
    <3>. HIDE DEF s, n
    <3>. QED BY <2>2, <2>4, <2>5, <2>6 DEF Controller
  <2>8. ASSUME n > 0 PROVE s \in PayloadState /\ n \in 1..Width(s)
    <3>1. Accepted(c.state, b, term) /\ n = PayloadBytes(b) BY <2>8
    <3>2. <<c.state, b, s>> \in Goto BY <3>1, <2>3, NextStateType
    <3>. QED BY <2>8, <3>1, <3>2, <2>3, <2>4, GotoPayload
  <2>9. PayloadFits(t) BY <2>7, <2>8 DEF PayloadFits
  <2>. HIDE DEF s, n, t
  <2>. QED BY <1>3, <2>1, <2>4, <2>7, <2>9
<1>. QED BY <1>1, <1>2, <1>3

(* The address process keeps its one counter in use by one purpose.        *)
LEMMA AddressStep ==
    ASSUME NEW c \in Controller, CounterServesOne(c), NEW addr, NEW b \in Byte
    PROVE  /\ AddressProcess(c, addr, b) \in Controller
           /\ CounterServesOne(AddressProcess(c, addr, b))
<1>. DEFINE e == AddressProcess(c, addr, b)
<1>1. CASE c.ignoring_signals
  <2>. DEFINE last == c.address_counter = 1
              n == c.address_counter - 1
              x == c.addressed \/ last
              y == c.address_part1_match /\ ~last
  <2>1. e = [c EXCEPT !.address_counter = n, !.ignoring_signals = ~last,
                      !.addressed = x, !.address_part1_match = y]
    BY <1>1 DEF AddressProcess, SkipPayload
  <2>2. /\ c.address_counter \in 1..4 /\ ~c.addressed /\ ~c.recieving_address
        /\ n \in 0..4 /\ (~last) \in BOOLEAN /\ x \in BOOLEAN /\ y \in BOOLEAN
        /\ c.addressed \in BOOLEAN
    BY <1>1 DEF Controller, CounterServesOne
  <2>3. /\ e \in Controller
        /\ e.address_counter = n /\ (e.ignoring_signals <=> ~last) /\ (e.addressed <=> x)
        /\ (e.recieving_address <=> c.recieving_address)
    <3>. HIDE DEF n, last, x, y
    <3>. QED BY <2>1, <2>2 DEF Controller
  <2>4. CounterServesOne(e)
    <3>. QED BY <2>2, <2>3 DEF CounterServesOne
  <2>. QED BY <2>3, <2>4
<1>2. CASE ~c.ignoring_signals /\ c.recieving_address
  <2>. DEFINE match == b = addr[2] /\ c.address_part1_match
              m1 == c.address_part1_match /\ ~match
              m2 == c.address_part1_match \/ b = addr[1]
              n == c.address_counter - 1
  <2>1. e = IF c.address_counter = 1
            THEN [c EXCEPT !.address_counter = 0, !.recieving_address = FALSE,
                           !.addressed = match, !.address_part1_match = m1]
            ELSE [c EXCEPT !.address_counter = n, !.address_part1_match = m2]
    BY <1>2 DEF AddressProcess, TakeAddress
  <2>2. /\ c.address_counter \in 1..2 /\ n \in 0..4 /\ match \in BOOLEAN
        /\ m1 \in BOOLEAN /\ m2 \in BOOLEAN
    BY <1>2 DEF Controller, CounterServesOne
  <2>3. CASE c.address_counter = 1
    <3>1. /\ e \in Controller
          /\ e.address_counter = 0 /\ e.recieving_address = FALSE
          /\ (e.ignoring_signals <=> c.ignoring_signals)
      <4>1. PICK zero \in 0..4 : zero = 0 OBVIOUS
      <4>2. e = [c EXCEPT !.address_counter = zero, !.recieving_address = FALSE,
                          !.addressed = match, !.address_part1_match = m1]
        BY <2>1, <2>3, <4>1
      <4>. HIDE DEF match, m1
      <4>. QED BY <2>2, <4>1, <4>2 DEF Controller
    <3>. QED BY <1>2, <3>1 DEF CounterServesOne
  <2>4. CASE c.address_counter # 1
    <3>1. /\ e \in Controller
          /\ e.address_counter = n /\ (e.recieving_address <=> c.recieving_address)
          /\ (e.ignoring_signals <=> c.ignoring_signals)
      <4>. HIDE DEF n, m2
      <4>. QED BY <2>1, <2>2, <2>4 DEF Controller
    <3>. QED BY <1>2, <2>2, <2>4, <3>1 DEF CounterServesOne
  <2>. QED BY <2>3, <2>4
<1>3. CASE ~c.ignoring_signals /\ ~c.recieving_address
           /\ ~c.addressed /\ c.address_counter = 0
  <2>. DEFINE k == SkippedBytes(b)
              n == IF IsAddressByte(c, b) THEN 2 ELSE c.address_counter
              r == c.recieving_address \/ IsAddressByte(c, b)
  <2>1. e = IF k > 0
            THEN [c EXCEPT !.address_counter = k, !.ignoring_signals = TRUE]
            ELSE [c EXCEPT !.addressed = TRUE, !.address_part1_match = FALSE,
                           !.recieving_address = r, !.address_counter = n]
    BY <1>3 DEF AddressProcess, TakeForeignCommand
  <2>2. /\ k \in 0..4 /\ n \in 0..4 /\ r \in BOOLEAN
        /\ r => n = 2
        /\ ~r => n = 0
    BY <1>3 DEF SkippedBytes, IsAddressByte
  <2>3. CASE k > 0
    <3>1. /\ e \in Controller
          /\ e.address_counter = k /\ (e.recieving_address <=> c.recieving_address)
          /\ e.ignoring_signals = TRUE /\ (e.addressed <=> c.addressed)
      <4>. HIDE DEF k
      <4>. QED BY <2>1, <2>2, <2>3 DEF Controller
    <3>. HIDE DEF k
    <3>. QED BY <1>3, <2>2, <2>3, <3>1 DEF CounterServesOne
  <2>4. CASE ~(k > 0)
    <3>1. /\ e \in Controller
          /\ e.address_counter = n /\ (e.recieving_address <=> r)
          /\ (e.ignoring_signals <=> c.ignoring_signals)
      <4>. HIDE DEF k, n, r
      <4>. QED BY <2>1, <2>2, <2>4 DEF Controller
    <3>. HIDE DEF n, r
    <3>. QED BY <1>3, <2>2, <3>1 DEF CounterServesOne
  <2>. QED BY <2>3, <2>4
<1>4. CASE ~c.ignoring_signals /\ ~c.recieving_address
           /\ ~(~c.addressed /\ c.address_counter = 0)
  <2>1. e = IF IsAddressByte(c, b) THEN StartAddress(c) ELSE c
    BY <1>4 DEF AddressProcess
  <2>2. CASE IsAddressByte(c, b)
    <3>1. /\ e \in Controller
          /\ e.address_counter = 2 /\ e.recieving_address = TRUE
          /\ (e.ignoring_signals <=> c.ignoring_signals)
      <4>1. PICK two \in 0..4 : two = 2 OBVIOUS
      <4>2. e = [c EXCEPT !.addressed = FALSE, !.recieving_address = TRUE,
                          !.address_part1_match = FALSE, !.address_counter = two]
        BY <2>1, <2>2, <4>1 DEF StartAddress
      <4>. QED BY <4>1, <4>2 DEF Controller
    <3>. QED BY <1>4, <3>1 DEF CounterServesOne
  <2>3. CASE ~IsAddressByte(c, b)
    BY <2>1, <2>3
  <2>. QED BY <2>2, <2>3
<1>. QED BY <1>1, <1>2, <1>3, <1>4

(* A clock edge keeps the invariant, and shows the same state or the next. *)
LEMMA ClockedStep ==
    ASSUME NEW c, BoardInv(c), NEW addr, NEW b \in Byte, NEW term \in BOOLEAN
    PROVE  LET d == Clocked(c, addr, b, term)
           IN  /\ BoardInv(d)
               /\ \/ d.o_state = c.o_state
                  \/ <<c.o_state, d.o_state>> \in Shown!Edges
                  \/ LinkLoss /\ d.o_state = "IDLE"
<1>. DEFINE t == TransitionProcess(c, b, term)
            a == AddressProcess(c, addr, b)
            d == Clocked(c, addr, b, term)
<1>1. /\ c \in Controller /\ PayloadFits(c) /\ CounterServesOne(c) /\ OneBehind(c)
  BY DEF BoardInv
<1>2. /\ t \in Controller /\ PayloadFits(t)
      /\ t.state = c.state \/ (~c.recieving_payload
                               /\ <<c.state, t.state>> \in Shown!Edges)
  BY <1>1, TransitionStep
<1>3. a \in Controller /\ CounterServesOne(a)
  BY <1>1, AddressStep
<1>4. /\ d.state = t.state
      /\ (d.recieving_payload <=> t.recieving_payload)
      /\ d.payload_byte_counter = t.payload_byte_counter
      /\ d.o_state = IF c.recieving_payload THEN c.o_state ELSE c.state
      /\ (d.addressed <=> a.addressed)
      /\ (d.recieving_address <=> a.recieving_address)
      /\ d.address_counter = a.address_counter
      /\ (d.ignoring_signals <=> a.ignoring_signals)
  BY DEF Clocked
<1>5. d \in Controller
  BY <1>1, <1>2, <1>3 DEF Clocked, Controller
<1>6. PayloadFits(d) BY <1>2, <1>4 DEF PayloadFits
<1>7. CounterServesOne(d) BY <1>3, <1>4 DEF CounterServesOne
<1>8. OneBehind(d)
  BY <1>1, <1>2, <1>4 DEF OneBehind
<1>9. \/ d.o_state = c.o_state
      \/ <<c.o_state, d.o_state>> \in Shown!Edges
      \/ LinkLoss /\ d.o_state = "IDLE"
  BY <1>1, <1>4 DEF OneBehind
<1>. QED BY <1>5, <1>6, <1>7, <1>8, <1>9 DEF BoardInv
-----------------------------------------------------------------------------
(* The cleared registers are well-formed, also with the shown state kept.  *)
LEMMA PowerUpInv == BoardInv(PowerUp)
<1>1. [s \in PayloadState |-> [i \in 1..4 |-> 0]] \in PayloadRegisters
  BY ByteAssumption DEF PayloadRegisters
<1>2. PowerUp \in Controller BY <1>1 DEF PowerUp, Controller, RunState
<1>. QED BY <1>2 DEF PowerUp, BoardInv, PayloadFits, CounterServesOne, OneBehind

LEMMA ClearedStep ==
    ASSUME NEW c, BoardInv(c), LinkLoss
    PROVE  BoardInv(Cleared(c)) /\ Cleared(c).o_state = c.o_state
<1>1. PowerUp \in Controller /\ c.o_state \in RunState
  BY PowerUpInv DEF BoardInv, Controller
<1>2. Cleared(c) = [PowerUp EXCEPT !.o_state = c.o_state] BY DEF Cleared
<1>3. /\ Cleared(c) \in Controller
      /\ Cleared(c).o_state = c.o_state
      /\ Cleared(c).state = PowerUp.state
      /\ (Cleared(c).recieving_payload <=> PowerUp.recieving_payload)
      /\ (Cleared(c).recieving_address <=> PowerUp.recieving_address)
      /\ (Cleared(c).ignoring_signals <=> PowerUp.ignoring_signals)
      /\ Cleared(c).address_counter = PowerUp.address_counter
  BY <1>1, <1>2 DEF Controller
<1>4. /\ PowerUp.state = "IDLE" /\ ~PowerUp.recieving_payload
      /\ ~PowerUp.recieving_address /\ ~PowerUp.ignoring_signals
      /\ PowerUp.address_counter = 0
  BY DEF PowerUp
<1>. QED
  BY <1>3, <1>4 DEF BoardInv, PayloadFits, CounterServesOne, OneBehind
-----------------------------------------------------------------------------
(* One action per step: each keeps the invariant of every board, and moves *)
(* what the boards show as RunStates allows.                               *)
BoardsInv == board \in [FEB -> Controller] /\ \A f \in FEB : BoardInv(board[f])

MayShow(f) == \/ board'[f].o_state = board[f].o_state
              \/ <<board[f].o_state, board'[f].o_state>> \in Shown!Edges
              \/ LinkLoss /\ board'[f].o_state = "IDLE"

LEMMA InitInv == Init => BoardsInv
<1>. SUFFICES ASSUME Init PROVE BoardsInv OBVIOUS
<1>1. \A f \in FEB : board[f] = PowerUp BY DEF Init
<1>2. PowerUp \in Controller BY PowerUpInv DEF BoardInv
<1>3. board \in [FEB -> Controller] BY <1>2 DEF Init
<1>. QED BY <1>1, <1>3, PowerUpInv DEF BoardsInv

LEMMA ClockInv ==
    ASSUME BoardsInv, NEW line \in [FEB -> Byte], NEW term \in [FEB -> BOOLEAN],
           Clock(line, term)
    PROVE  BoardsInv' /\ \A f \in FEB : MayShow(f)
<1>1. ASSUME NEW f \in FEB PROVE BoardInv(board'[f]) /\ MayShow(f)
  <2>1. BoardInv(board[f]) BY DEF BoardsInv
  <2>2. term[f] \in BOOLEAN /\ line[f] \in Byte OBVIOUS
  <2>3. board'[f] = Clocked(board[f], Addr[f], line[f], term[f]) BY DEF Clock
  <2>. QED BY <2>1, <2>2, <2>3, ClockedStep DEF MayShow
<1>2. \A f \in FEB : board'[f] \in Controller BY <1>1 DEF BoardInv
<1>3. board' \in [FEB -> Controller] BY <1>2 DEF Clock
<1>. QED BY <1>1, <1>3 DEF BoardsInv

LEMMA ResetInv ==
    ASSUME BoardsInv, NEW g \in FEB, HardReset(g)
    PROVE  BoardsInv' /\ \A f \in FEB : MayShow(f)
<1>1. LinkLoss /\ board' = [board EXCEPT ![g] = Cleared(board[g])]
  BY DEF HardReset
<1>2. BoardInv(Cleared(board[g])) /\ Cleared(board[g]).o_state = board[g].o_state
  BY <1>1, ClearedStep DEF BoardsInv
<1>3. ASSUME NEW f \in FEB PROVE BoardInv(board'[f]) /\ MayShow(f)
  <2>1. CASE f = g BY <1>1, <1>2, <2>1 DEF BoardsInv, MayShow
  <2>2. CASE f # g
    <3>1. board'[f] = board[f] BY <1>1, <2>2 DEF BoardsInv
    <3>. QED BY <3>1 DEF BoardsInv, MayShow
  <2>. QED BY <2>1, <2>2
<1>4. Cleared(board[g]) \in Controller BY <1>2 DEF BoardInv
<1>5. board' \in [FEB -> Controller] BY <1>1, <1>4 DEF BoardsInv
<1>. QED BY <1>3, <1>5 DEF BoardsInv

LEMMA StepInv ==
    ASSUME BoardsInv, [Next]_board
    PROVE  BoardsInv' /\ \A f \in FEB : MayShow(f)
<1>1. CASE ClockAny
  <2>1. PICK b \in Byte, term \in [FEB -> BOOLEAN] : Clock([f \in FEB |-> b], term)
    BY <1>1 DEF ClockAny
  <2>2. [f \in FEB |-> b] \in [FEB -> Byte] OBVIOUS
  <2>. QED BY <2>1, <2>2, ClockInv
<1>2. CASE \E g \in FEB : HardReset(g)
  BY <1>2, ResetInv
<1>3. CASE UNCHANGED board
  BY <1>3 DEF BoardsInv, MayShow
<1>. QED BY <1>1, <1>2, <1>3 DEF Next
-----------------------------------------------------------------------------
(***************************************************************************)
(* A board that listens: it takes no address and skips nothing.  What it   *)
(* does with a byte then depends on its decoded state alone.               *)
(***************************************************************************)
Listens(c) == /\ c.addressed /\ ~c.recieving_address /\ ~c.ignoring_signals
              /\ c.address_counter = 0

LEMMA ListensStep ==
    ASSUME NEW c \in Controller, PayloadFits(c), Listens(c), NEW addr, NEW b \in Byte,
           NEW term \in BOOLEAN, c.recieving_payload,
           NEW d, d = Clocked(c, addr, b, term)
    PROVE  /\ Listens(d)
           /\ d.state = c.state /\ d.o_state = c.o_state
           /\ d.payload_byte_counter = c.payload_byte_counter - 1
           /\ d.recieving_payload <=> c.payload_byte_counter # 1
           /\ d.payload = [c.payload EXCEPT ![c.state][c.payload_byte_counter] = b]
<1>. DEFINE t == TransitionProcess(c, b, term)
            a == AddressProcess(c, addr, b)
<1>1. a = c
  BY DEF AddressProcess, Listens, IsAddressByte
<1>2. /\ d.state = t.state /\ d.payload = t.payload
      /\ d.recieving_payload <=> t.recieving_payload
      /\ d.payload_byte_counter = t.payload_byte_counter
      /\ d.o_state = c.o_state
      /\ d.addressed <=> a.addressed
      /\ d.recieving_address <=> a.recieving_address
      /\ d.address_counter = a.address_counter
      /\ d.ignoring_signals <=> a.ignoring_signals
  BY DEF Clocked
<1>3. Listens(d)
  BY <1>1, <1>2 DEF Listens
<1>4. c.state \in PayloadState BY DEF PayloadFits
<1>5. t = [c EXCEPT !.payload_byte_counter = c.payload_byte_counter - 1,
                    !.recieving_payload = c.payload_byte_counter # 1,
                    !.payload = [c.payload EXCEPT ![c.state][c.payload_byte_counter] = b]]
  BY <1>4 DEF TransitionProcess, TakePayload, Listens
<1>6. /\ t.state = c.state
      /\ t.payload_byte_counter = c.payload_byte_counter - 1
      /\ t.recieving_payload <=> c.payload_byte_counter # 1
      /\ t.payload = [c.payload EXCEPT ![c.state][c.payload_byte_counter] = b]
  BY <1>5 DEF Controller
<1>. QED BY <1>2, <1>3, <1>6

LEMMA DecodesStep ==
    ASSUME NEW c \in Controller, Listens(c), NEW addr, NEW b \in Byte, NEW term,
           ~c.recieving_payload, b # Address,
           NEW d, d = Clocked(c, addr, b, term)
    PROVE  /\ Listens(d)
           /\ d.o_state = c.state /\ d.payload = c.payload
           /\ d.state = NextState(c.state, b, term)
           /\ d.recieving_payload => Accepted(c.state, b, term) /\ PayloadBytes(b) > 0
           /\ Accepted(c.state, b, term) /\ PayloadBytes(b) > 0 => d.recieving_payload
           /\ d.recieving_payload => d.payload_byte_counter = PayloadBytes(b)
<1>. DEFINE t == TransitionProcess(c, b, term)
            a == AddressProcess(c, addr, b)
            n == IF Accepted(c.state, b, term) THEN PayloadBytes(b) ELSE 0
<1>1. a = c
  BY DEF AddressProcess, Listens, IsAddressByte
<1>2. /\ d.state = t.state /\ d.payload = t.payload
      /\ d.recieving_payload <=> t.recieving_payload
      /\ d.payload_byte_counter = t.payload_byte_counter
      /\ d.o_state = c.state
      /\ d.addressed <=> a.addressed
      /\ d.recieving_address <=> a.recieving_address
      /\ d.address_counter = a.address_counter
      /\ d.ignoring_signals <=> a.ignoring_signals
  BY DEF Clocked
<1>3. Listens(d)
  BY <1>1, <1>2 DEF Listens
<1>4. t = [c EXCEPT !.state = NextState(c.state, b, term), !.recieving_payload = n > 0,
                    !.payload_byte_counter = IF n > 0 THEN n ELSE c.payload_byte_counter]
  BY DEF TransitionProcess, TakeCommand, Listens
<1>5. /\ t.state = NextState(c.state, b, term) /\ t.payload = c.payload
      /\ t.recieving_payload <=> n > 0
      /\ n > 0 => t.payload_byte_counter = n
  BY <1>4 DEF Controller
<1>6. n > 0 <=> Accepted(c.state, b, term) /\ PayloadBytes(b) > 0
  OBVIOUS
<1>7. n > 0 => n = PayloadBytes(b)
  OBVIOUS
<1>. HIDE DEF n
<1>. QED BY <1>2, <1>3, <1>5, <1>6, <1>7

(* The states of a run and the reset, byte by byte: the same in both       *)
(* versions of the entity.                                                 *)
RunStep ==
    {<<"IDLE", RunPrepare, "PREP">>, <<"PREP", Sync, "SYNC">>,
     <<"SYNC", StartRun, "RUNNING">>, <<"RUNNING", EndRun, "TERMINATING">>,
     <<"RESET", StopReset, "IDLE">>}
    \cup (InRun \X {AbortRun} \X {"IDLE"})
    \cup (({"IDLE"} \cup InRun) \X {Reset} \X {"RESET"})
RunBytesOnly == {0, RunPrepare, Sync, StartRun, EndRun, AbortRun, Reset, StopReset, Comma}

LEMMA RunDecoding ==
    \A s \in {"IDLE", "RESET"} \cup InRun : \A b \in RunBytesOnly : \A t \in RunState :
        <<s, b, t>> \in Goto <=> <<s, b, t>> \in RunStep
  BY DEF Goto, CommonGoto, FullGoto, RunStep, RunBytesOnly, InRun, RunState, RunPrepare, Sync,
         StartRun, EndRun, AbortRun, StartLinkTest, StopLinkTest, StartSyncTest, StopSyncTest,
         Reset, StopReset, Enable, Disable, Comma

LEMMA RunDecoded ==
    ASSUME NEW s \in {"IDLE", "RESET"} \cup InRun, NEW b \in RunBytesOnly, NEW term \in BOOLEAN
    PROVE  /\ s = "TERMINATING" /\ term => NextState(s, b, term) = "IDLE" /\ ~Accepted(s, b, term)
           /\ ~(s = "TERMINATING" /\ term) =>
                /\ \A t \in RunState : <<s, b, t>> \in RunStep =>
                     NextState(s, b, term) = t /\ Accepted(s, b, term)
                /\ (\A t \in RunState : <<s, b, t>> \notin RunStep) =>
                     NextState(s, b, term) = s /\ ~Accepted(s, b, term)
<1>1. s \in RunState BY DEF RunState, InRun
<1>2. CASE s = "TERMINATING" /\ term
  BY <1>2 DEF NextState, Accepted
<1>3. CASE ~(s = "TERMINATING" /\ term)
  <2>1. ASSUME NEW t \in RunState, <<s, b, t>> \in RunStep
        PROVE  NextState(s, b, term) = t /\ Accepted(s, b, term)
    <3>1. <<s, b, t>> \in Goto BY <2>1, RunDecoding
    <3>2. Accepted(s, b, term) BY <1>3, <3>1 DEF Accepted
    <3>3. NextState(s, b, term) \in RunState /\ <<s, b, NextState(s, b, term)>> \in RunStep
      BY <1>1, <3>2, NextStateType, RunDecoding
    <3>4. NextState(s, b, term) = t
      BY <2>1, <3>3 DEF RunStep, InRun, RunBytesOnly, RunPrepare, Sync, StartRun, EndRun,
                        AbortRun, Reset, StopReset, Comma
    <3>. QED BY <3>2, <3>4
  <2>2. ASSUME \A t \in RunState : <<s, b, t>> \notin RunStep
        PROVE  NextState(s, b, term) = s /\ ~Accepted(s, b, term)
    <3>1. ~Accepted(s, b, term) BY <2>2, RunDecoding DEF Accepted
    <3>. QED BY <1>3, <3>1 DEF NextState, Otherwise, InRun
  <2>. QED BY <1>3, <2>1, <2>2
<1>. QED BY <1>2, <1>3

(* What such a board makes of a comma, of a command and of a payload byte. *)
Is(c, states) == c.state \in states /\ ~c.recieving_payload
Awaits(c, n) == c.state = "PREP" /\ c.recieving_payload /\ c.payload_byte_counter = n
Resets(c, n) == c.state = "RESET" /\ (c.recieving_payload => c.payload_byte_counter <= n)

LEMMA ReadComma ==
    ASSUME NEW c \in Controller, PayloadFits(c), Listens(c), NEW addr, NEW term \in BOOLEAN,
           Is(c, {"IDLE", "RESET"} \cup InRun), Comma \in Byte
    PROVE  LET d == Clocked(c, addr, Comma, term)
           IN  /\ Listens(d) /\ ~d.recieving_payload
               /\ d.state = IF c.state = "TERMINATING" /\ term THEN "IDLE" ELSE c.state
               /\ d.o_state = c.state /\ d.payload = c.payload
<1>. DEFINE d == Clocked(c, addr, Comma, term)
<1>1. Comma # Address /\ Comma \in RunBytesOnly
  BY DEF Comma, Address, RunBytesOnly
<1>5. ~c.recieving_payload BY DEF Is
<1>2. /\ Listens(d)
      /\ d.o_state = c.state
      /\ d.state = NextState(c.state, Comma, term)
      /\ d.recieving_payload => Accepted(c.state, Comma, term)
      /\ d.payload = c.payload
  <2>. SUFFICES ASSUME NEW e, e = d
                PROVE  /\ Listens(e)
                       /\ e.o_state = c.state
                       /\ e.state = NextState(c.state, Comma, term)
                       /\ e.recieving_payload => Accepted(c.state, Comma, term)
                       /\ e.payload = c.payload
    OBVIOUS
  <2>. QED BY <1>1, <1>5, DecodesStep
<1>3. \A t \in RunState : <<c.state, Comma, t>> \notin RunStep
  BY DEF RunStep, Comma, RunPrepare, Sync, StartRun, EndRun, AbortRun, Reset, StopReset
<1>4. /\ ~Accepted(c.state, Comma, term)
      /\ NextState(c.state, Comma, term) =
           IF c.state = "TERMINATING" /\ term THEN "IDLE" ELSE c.state
  BY <1>1, <1>3, RunDecoded DEF Is
<1>. HIDE DEF d
<1>. QED BY <1>2, <1>4, <1>5 DEF d

LEMMA ReadCommand ==
    ASSUME NEW c \in Controller, PayloadFits(c), Listens(c), NEW addr, NEW term \in BOOLEAN,
           NEW b \in Byte \cap RunBytesOnly
    PROVE  LET d == Clocked(c, addr, b, term)
           IN  /\ Is(c, {"IDLE"} \cup InRun \cup {"RESET"}) =>
                    Listens(d) /\ d.o_state = c.state /\ d.payload = c.payload
               /\ b = RunPrepare /\ Is(c, {"IDLE"}) => Awaits(d, 4)
               /\ b = Sync /\ Is(c, {"PREP"}) => Is(d, {"SYNC"})
               /\ b = StartRun /\ Is(c, {"SYNC"}) => Is(d, {"RUNNING"})
               /\ b = EndRun /\ Is(c, {"RUNNING"}) => Is(d, {"TERMINATING"})
               /\ b = AbortRun /\ Is(c, {"IDLE"} \cup InRun) => Is(d, {"IDLE"})
               /\ b = Reset /\ Is(c, {"IDLE"} \cup InRun) => Resets(d, 2) \/ Is(d, {"IDLE"})
               /\ b = StopReset /\ Is(c, {"RESET", "IDLE"}) => Is(d, {"IDLE"})
<1>. DEFINE d == Clocked(c, addr, b, term)
            n == NextState(c.state, b, term)
            a == Accepted(c.state, b, term)
<1>1. b # Address
  BY DEF RunBytesOnly, RunPrepare, Sync, StartRun, EndRun, AbortRun, Reset, StopReset, Comma, Address
<1>2. ASSUME ~c.recieving_payload
      PROVE  /\ Listens(d) /\ d.o_state = c.state /\ d.payload = c.payload
             /\ d.state = n
             /\ d.recieving_payload <=> a /\ PayloadBytes(b) > 0
             /\ d.recieving_payload => d.payload_byte_counter = PayloadBytes(b)
  <2>. SUFFICES ASSUME NEW e, e = d
                PROVE  /\ Listens(e) /\ e.o_state = c.state /\ e.payload = c.payload
                       /\ e.state = n
                       /\ e.recieving_payload <=> a /\ PayloadBytes(b) > 0
                       /\ e.recieving_payload => e.payload_byte_counter = PayloadBytes(b)
    OBVIOUS
  <2>. QED BY <1>1, <1>2, DecodesStep
<1>3. ASSUME c.state \in {"IDLE", "RESET"} \cup InRun
      PROVE  /\ c.state = "TERMINATING" /\ term => n = "IDLE" /\ ~a
             /\ ~(c.state = "TERMINATING" /\ term) =>
                  /\ \A t \in RunState : <<c.state, b, t>> \in RunStep => n = t /\ a
                  /\ (\A t \in RunState : <<c.state, b, t>> \notin RunStep) => n = c.state /\ ~a
  BY <1>3, RunDecoded
<1>. HIDE DEF d, n, a
<1>4. PayloadBytes(RunPrepare) = 4 /\ PayloadBytes(Reset) = 2
      /\ \A x \in {Sync, StartRun, EndRun, AbortRun, StopReset} : PayloadBytes(x) = 0
  BY DEF PayloadBytes, RunPrepare, Sync, StartRun, EndRun, AbortRun, Reset, StopReset,
         StartLinkTest, StartSyncTest
<1>5. ASSUME Is(c, {"IDLE"}), b = RunPrepare PROVE Awaits(d, 4)
  <2>1. <<"IDLE", RunPrepare, "PREP">> \in RunStep /\ "PREP" \in RunState
    BY DEF RunStep, RunState
  <2>2. n = "PREP" /\ a BY <1>3, <1>5, <2>1 DEF Is
  <2>. QED BY <1>2, <1>4, <1>5, <2>2 DEF Awaits, Is
<1>6. ASSUME Is(c, {"PREP"}), b = Sync PROVE Is(d, {"SYNC"})
  <2>1. <<"PREP", Sync, "SYNC">> \in RunStep /\ "SYNC" \in RunState BY DEF RunStep, RunState
  <2>2. n = "SYNC" /\ a BY <1>3, <1>6, <2>1 DEF Is, InRun
  <2>. QED BY <1>2, <1>4, <1>6, <2>2 DEF Is
<1>7. ASSUME Is(c, {"SYNC"}), b = StartRun PROVE Is(d, {"RUNNING"})
  <2>1. <<"SYNC", StartRun, "RUNNING">> \in RunStep /\ "RUNNING" \in RunState
    BY DEF RunStep, RunState
  <2>2. n = "RUNNING" /\ a BY <1>3, <1>7, <2>1 DEF Is, InRun
  <2>. QED BY <1>2, <1>4, <1>7, <2>2 DEF Is
<1>8. ASSUME Is(c, {"RUNNING"}), b = EndRun PROVE Is(d, {"TERMINATING"})
  <2>1. <<"RUNNING", EndRun, "TERMINATING">> \in RunStep /\ "TERMINATING" \in RunState
    BY DEF RunStep, RunState
  <2>2. n = "TERMINATING" /\ a BY <1>3, <1>8, <2>1 DEF Is, InRun
  <2>. QED BY <1>2, <1>4, <1>8, <2>2 DEF Is
<1>9. ASSUME Is(c, {"IDLE"} \cup InRun), b = AbortRun PROVE Is(d, {"IDLE"})
  <2>1. /\ \A s \in InRun : <<s, AbortRun, "IDLE">> \in RunStep
        /\ "IDLE" \in RunState
        /\ \A t \in RunState : <<"IDLE", AbortRun, t>> \notin RunStep
    BY DEF RunStep, RunState, InRun, RunPrepare, AbortRun, Reset, StopReset
  <2>2. n = "IDLE"
    BY <1>3, <1>9, <2>1 DEF Is
  <2>. QED BY <1>2, <1>4, <1>9, <2>2 DEF Is
<1>10. ASSUME Is(c, {"IDLE"} \cup InRun), b = Reset PROVE Resets(d, 2) \/ Is(d, {"IDLE"})
  <2>1. /\ \A s \in {"IDLE"} \cup InRun : <<s, Reset, "RESET">> \in RunStep
        /\ "RESET" \in RunState
    BY DEF RunStep, RunState, InRun
  <2>2. n = "RESET" \/ (n = "IDLE" /\ ~a)
    BY <1>3, <1>10, <2>1 DEF Is
  <2>. QED BY <1>2, <1>4, <1>10, <2>2 DEF Is, Resets
<1>11. ASSUME Is(c, {"RESET", "IDLE"}), b = StopReset PROVE Is(d, {"IDLE"})
  <2>1. /\ <<"RESET", StopReset, "IDLE">> \in RunStep /\ "IDLE" \in RunState
        /\ \A t \in RunState : <<"IDLE", StopReset, t>> \notin RunStep
    BY DEF RunStep, RunState, InRun, RunPrepare, AbortRun, Reset, StopReset
  <2>2. n = "IDLE"
    BY <1>3, <1>11, <2>1 DEF Is
  <2>. QED BY <1>2, <1>4, <1>11, <2>2 DEF Is
<1>12. Is(c, {"IDLE"} \cup InRun \cup {"RESET"}) =>
         Listens(d) /\ d.o_state = c.state /\ d.payload = c.payload
  BY <1>2 DEF Is
<1>. QED BY <1>5, <1>6, <1>7, <1>8, <1>9, <1>10, <1>11, <1>12 DEF d

LEMMA ReadPayload ==
    ASSUME NEW c \in Controller, PayloadFits(c), Listens(c), NEW addr, NEW term \in BOOLEAN,
           NEW b \in Byte, c.recieving_payload
    PROVE  LET d == Clocked(c, addr, b, term)
           IN  /\ Listens(d) /\ d.state = c.state /\ d.o_state = c.o_state
               /\ \A n \in 2..4 : Awaits(c, n) => Awaits(d, n - 1)
               /\ Awaits(c, 1) => Is(d, {"PREP"})
               /\ \A n \in 1..4 : Awaits(c, n) =>
                    \A i \in 1..4 : d.payload["PREP"][i] = IF i = n THEN b ELSE c.payload["PREP"][i]
               /\ \A n \in 1..4 : Resets(c, n) => Resets(d, n - 1) /\ d.payload["PREP"] = c.payload["PREP"]
<1>. DEFINE d == Clocked(c, addr, b, term)
<1>1. /\ Listens(d) /\ d.state = c.state /\ d.o_state = c.o_state
      /\ d.payload_byte_counter = c.payload_byte_counter - 1
      /\ d.recieving_payload <=> c.payload_byte_counter # 1
      /\ d.payload = [c.payload EXCEPT ![c.state][c.payload_byte_counter] = b]
  BY ListensStep
<1>2. /\ c.payload_byte_counter \in 0..4
      /\ c.payload \in [PayloadState -> [1..4 -> Byte]]
      /\ c.payload_byte_counter >= 1 /\ c.state \in PayloadState
  BY DEF Controller, PayloadRegisters, PayloadFits, Width
<1>. HIDE DEF d
<1>3. /\ \A n \in 2..4 : Awaits(c, n) => Awaits(d, n - 1)
      /\ Awaits(c, 1) => Is(d, {"PREP"})
  BY <1>1 DEF Awaits, Is
<1>4. ASSUME NEW n \in 1..4, Awaits(c, n), NEW i \in 1..4
      PROVE  d.payload["PREP"][i] = IF i = n THEN b ELSE c.payload["PREP"][i]
  BY <1>1, <1>2, <1>4 DEF Awaits
<1>5. ASSUME NEW n \in 1..4, Resets(c, n)
      PROVE  Resets(d, n - 1) /\ d.payload["PREP"] = c.payload["PREP"]
  <2>1. c.state = "RESET" /\ c.payload_byte_counter <= n BY <1>5 DEF Resets
  <2>2. Resets(d, n - 1) BY <1>1, <1>2, <2>1 DEF Resets
  <2>3. d.payload["PREP"] = c.payload["PREP"] BY <1>1, <1>2, <2>1 DEF PayloadState
  <2>. QED BY <2>2, <2>3
<1>. QED BY <1>1, <1>3, <1>4, <1>5 DEF d
-----------------------------------------------------------------------------
(* The registers keep their types and ranges.                              *)
THEOREM TypeCorrect == Spec => []TypeOK
<1>1. Init => BoardsInv BY InitInv
<1>2. BoardsInv /\ [Next]_board => BoardsInv' BY StepInv
<1>3. BoardsInv => TypeOK BY DEF BoardsInv, TypeOK
<1>. QED BY <1>1, <1>2, <1>3, PTL DEF Spec

(* Whatever arrives on the line, the payload counter points into the       *)
(* register of the current state and the address counter serves one        *)
(* purpose at a time and never passes below zero.                          *)
THEOREM FramingCorrect == Spec => []FramingOK
<1>1. Init => BoardsInv BY InitInv
<1>2. BoardsInv /\ [Next]_board => BoardsInv' BY StepInv
<1>3. BoardsInv => FramingOK BY DEF BoardsInv, BoardInv, FramingOK
<1>. QED BY <1>1, <1>2, <1>3, PTL DEF Spec

(* What the boards show implements the abstract run states.                *)
THEOREM ImplementsRunStates == Spec => ShowsRunStates
<1>1. Init => BoardsInv BY InitInv
<1>2. BoardsInv /\ [Next]_board => BoardsInv' BY StepInv
<1>3. Init => Shown!Init BY DEF Init, Shown!Init, PowerUp
<1>4. BoardsInv /\ BoardsInv' /\ [Next]_board
        => [Shown!Move]_[f \in FEB |-> board[f].o_state]
  <2>. SUFFICES ASSUME BoardsInv, BoardsInv', [Next]_board
                PROVE  Shown!Move
    OBVIOUS
  <2>1. \A f \in FEB : MayShow(f) BY StepInv
  <2>2. \A f \in FEB : board'[f].o_state \in Shown!RunState
    BY DEF BoardsInv, BoardInv, Controller, RunState, Shown!RunState
  <2>3. [f \in FEB |-> board[f].o_state]' \in [FEB -> Shown!RunState]
    BY <2>2
  <2>. QED BY <2>1, <2>3 DEF Shown!Move, MayShow
<1>. QED BY <1>1, <1>2, <1>3, <1>4, PTL DEF Spec, ShowsRunStates, Shown!Spec
=============================================================================
