-------------------------- MODULE DataMergerProofs --------------------------
(***************************************************************************)
(* What holds of the data merger whatever the sizes, the run states and    *)
(* the other sources are: the overflow check suffices until a packet is    *)
(* longer than it allows for (NoWordLost); if a reply is written in the    *)
(* time that the timeout gives it, what the receiver of the link sees is   *)
(* framed (LinkFraming) and no reply is passed over (SlowcontrolSent); the *)
(* run end comes last for a detector that marks it (RunEndLast); and       *)
(* packets arrive as the detector wrote them until the FIFO overflows      *)
(* (PacketsIntact).                                                        *)
(***************************************************************************)
EXTENDS DataMerger, SequenceTheorems, TLAPS

(***************************************************************************)
(* A FIFO: what is read, and what is written.                              *)
(***************************************************************************)
Rest(fifo, read) == IF read /\ fifo # <<>> THEN Tail(fifo) ELSE fifo

(* What is in the FIFO or about to be written into it.                     *)
Flow(fifo, c) == IF c.write = "none" THEN fifo ELSE Append(fifo, c.write)

LEMMA FifoTakes ==
    ASSUME NEW fifo \in Seq(Word), Len(fifo) <= Depth, NEW c \in Check, NEW read \in BOOLEAN
    PROVE  /\ Rest(fifo, read) \in Seq(Word) /\ Len(Rest(fifo, read)) <= Len(fifo)
           /\ NextFifo(fifo, read, c) =
                IF c.write = "none" \/ Overflows(fifo, c) THEN Rest(fifo, read)
                ELSE Append(Rest(fifo, read), c.write)
           /\ NextFifo(fifo, read, c) \in Seq(Word)
           /\ Len(NextFifo(fifo, read, c)) <= Depth
           /\ Len(NextFifo(fifo, read, c)) <= Len(fifo) + (IF c.write = "none" THEN 0 ELSE 1)
<1> DEFINE rest == Rest(fifo, read)
<1>1. rest \in Seq(Word) /\ Len(rest) <= Len(fifo)
  BY DEF Rest
<1>2. c.write # "none" => c.write \in Word
  BY DEF Check
<1>3. NextFifo(fifo, read, c) = IF c.write = "none" \/ Overflows(fifo, c) THEN rest
                                ELSE Append(rest, c.write)
  BY DEF NextFifo, Rest
<1>4. Len(fifo) \in Nat /\ Depth \in Nat /\ Len(rest) \in Nat
  BY <1>1, SizeAssumption
<1>5. c.write # "none" /\ ~Overflows(fifo, c) => Len(fifo) < Depth
  BY <1>4 DEF Overflows
<1> HIDE DEF rest
<1>6. c.write # "none" => /\ Append(rest, c.write) \in Seq(Word)
                          /\ Len(Append(rest, c.write)) = Len(rest) + 1
  BY <1>1, <1>2
<1>7. rest \in Seq(Word) /\ Len(rest) <= Len(fifo) /\ rest = Rest(fifo, read)
  BY <1>1 DEF rest
<1> QED
  BY <1>3, <1>4, <1>5, <1>6, <1>7

(* As long as it does not overflow, a FIFO takes what was on its way.      *)
LEMMA FlowStep ==
    ASSUME NEW fifo \in Seq(Word), NEW c \in Check, NEW read \in BOOLEAN, ~Overflows(fifo, c)
    PROVE  /\ Flow(fifo, c) \in Seq(Word)
           /\ fifo # <<>> => Flow(fifo, c) # <<>> /\ Flow(fifo, c)[1] = Head(fifo)
           /\ NextFifo(fifo, read, c) = IF read /\ fifo # <<>> THEN Tail(Flow(fifo, c))
                                        ELSE Flow(fifo, c)
<1>1. c.write # "none" => c.write \in Word
  BY DEF Check
<1>2. c.write # "none" =>
        /\ Append(fifo, c.write) \in Seq(Word)
        /\ Append(fifo, c.write) # <<>>
        /\ fifo # <<>> => Append(fifo, c.write)[1] = Head(fifo)
        /\ fifo # <<>> => Tail(Append(fifo, c.write)) = Append(Tail(fifo), c.write)
  <2> SUFFICES ASSUME NEW e \in Word
               PROVE  /\ Append(fifo, e) \in Seq(Word)
                      /\ Append(fifo, e) # <<>>
                      /\ fifo # <<>> => Append(fifo, e)[1] = Head(fifo)
                      /\ fifo # <<>> => Tail(Append(fifo, e)) = Append(Tail(fifo), e)
    BY <1>1
  <2>1. Append(fifo, e) \in Seq(Word) /\ Append(fifo, e) # <<>>
    BY AppendProperties
  <2>2. fifo # <<>> => Append(fifo, e)[1] = Head(fifo)
    OBVIOUS
  <2>3. fifo # <<>> => Tail(Append(fifo, e)) = Append(Tail(fifo), e)
    OBVIOUS
  <2> QED
    BY <2>1, <2>2, <2>3
<1>3. CASE c.write = "none"
  BY <1>3 DEF Flow, NextFifo
<1>4. CASE c.write # "none"
  BY <1>2, <1>4 DEF Flow, NextFifo
<1> QED
  BY <1>3, <1>4
-----------------------------------------------------------------------------
(***************************************************************************)
(* The overflow check: until a packet has more than MAX_PAKET_SIZE - 2     *)
(* words, no word that it lets through meets a full FIFO.  The two words   *)
(* are the one that is on its way when the check looks at usedw, and the   *)
(* run end marker.                                                         *)
(***************************************************************************)
(* Words in the FIFO and on the way into it.                               *)
Pending == IF check.write = "none" THEN 0 ELSE 1
Used == Len(data_fifo) + Pending

DetectorType == [words : 0..(PacketWords - 1), ended : BOOLEAN, long : BOOLEAN]

WritersType ==
    /\ run_state \in Run!RunState
    /\ data_fifo \in Seq(Word) /\ Len(data_fifo) <= Depth
    /\ check \in Check
    /\ detector \in DetectorType

InRunStates == {"RUNNING", "TERMINATING"}

(* Between runs nothing is left over; in a run there is room for the rest  *)
(* of a packet that is let through, and for the run end marker.            *)
CleanStart ==
    run_state \in {"PREP", "SYNC"} =>
        /\ data_fifo = <<>> /\ check.write = "none"
        /\ detector.words = 0 /\ ~detector.ended

RoomInRun ==
    /\ ~detector.ended => Used <= Depth - 1
    /\ detector.ended => detector.words = 0
    /\ check.state = "forwarding" /\ detector.words > 0 =>
          Used + MaxPacket <= Depth + 1 + detector.words

Room == /\ WritersType /\ CleanStart
        /\ ~detector.long => Used <= Depth
        /\ run_state \in InRunStates /\ ~detector.long => RoomInRun
-----------------------------------------------------------------------------
(* The run states the board can come from.                                 *)
LEMMA MoveEdges ==
    ASSUME WritersType, MoveRunState
    PROVE  /\ run_state' \in Run!RunState
           /\ run_state' = "PREP" => run_state \in {"IDLE", "PREP"}
           /\ run_state' = "SYNC" => run_state \in {"PREP", "SYNC"}
           /\ run_state' = "RUNNING" => run_state \in {"SYNC", "RUNNING"}
           /\ run_state' = "TERMINATING" => run_state \in InRunStates
<1>1. /\ [f \in {"feb"} |-> run_state'] \in [{"feb"} -> Run!RunState]
      /\ \A f \in {"feb"} : \/ run_state' = run_state
                            \/ <<run_state, run_state'>> \in Run!Edges
  BY DEF MoveRunState, Run!Move
<1>2. run_state' \in Run!RunState
  BY <1>1
<1>3. run_state' = run_state \/ <<run_state, run_state'>> \in Run!Edges
  BY <1>1
<1> QED
  BY <1>2, <1>3 DEF WritersType, InRunStates, Run!Edges, Run!RunEdges, Run!AbortEdges,
     Run!TestEdges, Run!ResetEdges, Run!DaqEdges

(* The data FIFO.                                                          *)
ReadsData == run_state \in InRunStates /\ merger.state = "sending_data"

LEMMA FifoStep ==
    ASSUME WritersType
    PROVE  /\ NextDataFifo \in Seq(Word) /\ Len(NextDataFifo) <= Depth
           /\ Len(NextDataFifo) <= Used
           /\ run_state # "IDLE" => NextDataFifo = NextFifo(data_fifo, ReadsData, check)
           /\ run_state = "IDLE" \/ (data_fifo = <<>> /\ check.write = "none")
                => NextDataFifo = <<>>
<1> DEFINE next == NextFifo(data_fifo, ReadsData, check)
<1>1. /\ data_fifo \in Seq(Word) /\ Len(data_fifo) <= Depth /\ check \in Check
      /\ ReadsData \in BOOLEAN /\ Depth \in Nat
  BY SizeAssumption DEF WritersType, ReadsData
<1>2. /\ next \in Seq(Word) /\ Len(next) <= Depth
      /\ Len(next) <= Len(data_fifo) + (IF check.write = "none" THEN 0 ELSE 1)
  BY <1>1, FifoTakes
<1>3. NextDataFifo = IF run_state = "IDLE" THEN <<>> ELSE next
  BY DEF NextDataFifo, ReadsData, InRunStates
<1>4. data_fifo = <<>> /\ check.write = "none" => next = <<>>
  BY DEF NextFifo
<1> HIDE DEF next
<1>5. Len(<<>>) = 0 /\ <<>> \in Seq(Word) /\ Used \in Nat
  BY <1>1 DEF Used, Pending
<1> QED
  BY <1>1, <1>2, <1>3, <1>4, <1>5 DEF Used, Pending, next

(* What an overflow check does with a word.                                *)
LEMMA CheckStep ==
    ASSUME NEW c \in Check, NEW fifo \in Seq(Word), NEW w \in Word \cup {"none"}
    PROVE  /\ Checked(c, fifo, w) \in Check
           /\ Checked(c, fifo, w).state = "forwarding" => Checked(c, fifo, w).write = w
           /\ Checked(c, fifo, w).state = "throwing" => Checked(c, fifo, w).write = "none"
           /\ w # "start" => Checked(c, fifo, w).state = c.state
           /\ w = "start" /\ Checked(c, fifo, w).state = "forwarding" =>
                usedw(fifo) <= Depth - MaxPacket
<1> usedw(fifo) \in Nat
  BY SizeAssumption DEF usedw
<1> QED
  BY SizeAssumption DEF Checked, Check, Word

(* What the detector does: its words, and its registers.                   *)
LEMMA DetectorStep ==
    ASSUME WritersType, NEW w \in DetectorWrites
    PROVE  /\ w \in Word \cup {"none"}
           /\ NextDetector(w) \in DetectorType
           /\ run_state \notin InRunStates => w = "none"
           /\ run_state \in InRunStates =>
                 /\ detector.ended => w = "none"
                 /\ w = "start" \/ w = "run_end" => detector.words = 0
                 /\ w = "data" \/ w = "end" => detector.words > 0
                 /\ w = "none" => NextDetector(w).words = detector.words
                 /\ w \in {"start", "data"} => NextDetector(w).words = detector.words + 1
                 /\ w \in {"end", "run_end"} => NextDetector(w).words = 0
                 /\ NextDetector(w).ended <=> detector.ended \/ w = "run_end"
                 /\ ~NextDetector(w).long =>
                      /\ ~detector.long
                      /\ w \in {"start", "data", "end"} => detector.words + 3 <= MaxPacket
           /\ run_state \in {"IDLE", "PREP", "SYNC"} =>
                 NextDetector(w).words = 0 /\ ~NextDetector(w).ended
<1>1. /\ detector.words \in 0..(PacketWords - 1) /\ detector.ended \in BOOLEAN
      /\ detector.long \in BOOLEAN
  BY DEF WritersType, DetectorType
<1>2. w \in Word \cup {"none"}
  BY DEF DetectorWrites, Word
<1>3. run_state \notin InRunStates => w = "none"
  BY DEF DetectorWrites, InRunStates
<1>4. run_state \in InRunStates =>
          /\ detector.ended => w = "none"
          /\ w = "start" \/ w = "run_end" => detector.words = 0
          /\ w = "data" => detector.words > 0 /\ detector.words < PacketWords - 1
          /\ w = "end" => detector.words > 0
  BY <1>1, SizeAssumption DEF DetectorWrites, InRunStates
<1> DEFINE cleared == run_state \in {"IDLE", "PREP", "SYNC", "RESET", "OUT_OF_DAQ"}
           next == IF w = "none" THEN detector.words
                   ELSE IF w \in {"start", "data"} THEN detector.words + 1 ELSE 0
           ended == detector.ended \/ w = "run_end"
           long == \/ detector.long
                   \/ w \in {"start", "data", "end"} /\ detector.words + 3 > MaxPacket
<1>5. next \in 0..(PacketWords - 1) /\ ended \in BOOLEAN /\ long \in BOOLEAN
  BY <1>1, <1>2, <1>3, <1>4, SizeAssumption
<1>6. 0 \in 0..(PacketWords - 1)
  BY SizeAssumption
<1>7. ~long => /\ ~detector.long
               /\ w \in {"start", "data", "end"} => detector.words + 3 <= MaxPacket
  BY <1>1, SizeAssumption
<1> HIDE DEF next, ended, long
<1>8. cleared => /\ NextDetector(w) \in DetectorType
                 /\ NextDetector(w).words = 0 /\ ~NextDetector(w).ended
  BY <1>6 DEF NextDetector, DetectorType
<1>9. ~cleared => NextDetector(w) = [words |-> next, ended |-> ended, long |-> long]
  BY DEF NextDetector, next, ended, long
<1>10. ~cleared => /\ NextDetector(w) \in DetectorType
                   /\ NextDetector(w).words = next /\ (NextDetector(w).ended <=> ended)
                   /\ NextDetector(w).long <=> long
  BY <1>5, <1>9 DEF DetectorType
<1>11. cleared => run_state \notin InRunStates
  BY DEF InRunStates
<1>12. run_state \in {"IDLE", "PREP", "SYNC"} => cleared
  OBVIOUS
<1> HIDE DEF cleared
<1> QED
  BY <1>2, <1>3, <1>4, <1>7, <1>8, <1>10, <1>11, <1>12 DEF next, ended

(* A clock.                                                                *)
LEMMA ClockStep ==
    ASSUME Clock
    PROVE  \E permission \in Permissions, can_terminate \in {FALSE, CanTerminate},
              w \in DetectorWrites, s \in ReplierWrites :
               /\ MoveRunState
               /\ data_fifo' = NextDataFifo /\ check' = Checked(check, data_fifo, w)
               /\ sc_fifo' = NextSCFifo /\ sc_check' = Checked(sc_check, sc_fifo, s)
               /\ merger' = Merge(permission, can_terminate).registers
               /\ out' = Merge(permission, can_terminate).sends
               /\ open' = NextOpen(out') /\ lost' = NextLost
               /\ detector' = NextDetector(w) /\ replier' = NextReplier(s)
<1>1. PICK permission \in Permissions, can_terminate \in {FALSE, CanTerminate} :
        \E w \in DetectorWrites, s \in ReplierWrites :
          LET r == Merge(permission, can_terminate)
          IN  /\ can_terminate => detector.words = 0 /\ w = "none" /\ check.write = "none"
              /\ merger' = r.registers
              /\ out' = r.sends
              /\ open' = NextOpen(r.sends)
              /\ check' = Checked(check, data_fifo, w)
              /\ sc_check' = Checked(sc_check, sc_fifo, s)
              /\ data_fifo' = NextDataFifo
              /\ sc_fifo' = NextSCFifo
              /\ lost' = NextLost
              /\ detector' = NextDetector(w)
              /\ replier' = NextReplier(s)
              /\ MoveRunState
  BY DEF Clock
<1>2. PICK w \in DetectorWrites, s \in ReplierWrites :
          /\ MoveRunState
          /\ data_fifo' = NextDataFifo /\ check' = Checked(check, data_fifo, w)
          /\ sc_fifo' = NextSCFifo /\ sc_check' = Checked(sc_check, sc_fifo, s)
          /\ merger' = Merge(permission, can_terminate).registers
          /\ out' = Merge(permission, can_terminate).sends
          /\ open' = NextOpen(Merge(permission, can_terminate).sends) /\ lost' = NextLost
          /\ detector' = NextDetector(w) /\ replier' = NextReplier(s)
  BY <1>1
<1>3. open' = NextOpen(out')
  BY <1>2
<1> QED
  BY <1>2, <1>3

(* The writers, as far as the room in the data FIFO is concerned.          *)
LEMMA WritersStep ==
    ASSUME WritersType, CleanStart, NEW w \in DetectorWrites, MoveRunState,
           data_fifo' = NextDataFifo, check' = Checked(check, data_fifo, w),
           detector' = NextDetector(w)
    PROVE  WritersType' /\ CleanStart'
<1>1. /\ run_state' \in Run!RunState
      /\ run_state' = "PREP" => run_state \in {"IDLE", "PREP"}
      /\ run_state' = "SYNC" => run_state \in {"PREP", "SYNC"}
  BY MoveEdges
<1>2. w \in Word \cup {"none"} /\ data_fifo \in Seq(Word) /\ check \in Check
  BY DetectorStep DEF WritersType
<1>3. WritersType'
  BY <1>1, <1>2, FifoStep, CheckStep, DetectorStep DEF WritersType
<1>4. run_state \in {"IDLE", "PREP", "SYNC"} =>
        /\ w = "none" /\ data_fifo' = <<>>
        /\ detector'.words = 0 /\ ~detector'.ended
  BY FifoStep, DetectorStep DEF CleanStart, InRunStates
<1>5. w = "none" => check'.write = "none"
  BY <1>2, CheckStep DEF Check
<1> QED
  BY <1>1, <1>3, <1>4, <1>5 DEF CleanStart
-----------------------------------------------------------------------------
LEMMA RoomInit == ASSUME DMInit PROVE Room
<1>1. detector \in DetectorType /\ check \in Check /\ data_fifo \in Seq(Word)
  BY SizeAssumption DEF DMInit, DetectorType, Check, Word
<1>2. run_state \in Run!RunState /\ run_state = "IDLE"
  BY DEF DMInit, Run!RunState
<1>3. Len(data_fifo) = 0 /\ Used = 0 /\ Depth \in Nat
  BY SizeAssumption DEF DMInit, Used, Pending
<1> QED
  BY <1>1, <1>2, <1>3 DEF Room, WritersType, CleanStart, InRunStates

(* One word more where a packet has just been let in.                      *)
LEMMA OneMore ==
    ASSUME NEW a \in Nat, NEW b \in Nat, NEW c \in 0..1, NEW m \in Nat, NEW d \in Nat,
           a <= b + c, b + m <= d + 1, 3 <= m
    PROVE  a <= d - 1 /\ a <= d /\ a + m <= d + 1 + 1
  OBVIOUS

(* While the run goes on, the room left suffices for what is on its way.   *)
LEMMA RoomKept ==
    ASSUME Room, run_state \in InRunStates, NEW w \in DetectorWrites,
           data_fifo' = NextDataFifo, check' = Checked(check, data_fifo, w),
           detector' = NextDetector(w), ~detector'.long
    PROVE  Used' <= Depth /\ RoomInRun'
<1>0. WritersType
  BY DEF Room
<1>1. Depth \in Nat /\ MaxPacket \in Nat /\ 1 <= MaxPacket /\ MaxPacket <= Depth
  BY SizeAssumption
<1>2. Used \in Nat /\ Len(data_fifo) \in Nat /\ Pending \in 0..1 /\ Len(data_fifo) + Pending = Used
  BY <1>0 DEF Used, Pending, WritersType
<1>3. Len(data_fifo') \in Nat /\ Len(data_fifo') <= Used
  BY <1>0, FifoStep
<1>4. Pending' \in 0..1 /\ Used' = Len(data_fifo') + Pending'
  BY DEF Used, Pending
<1>5. /\ w \in {"none", "start", "data", "end", "run_end"}
      /\ detector.ended => w = "none"
      /\ w = "start" \/ w = "run_end" => detector.words = 0
      /\ w = "data" \/ w = "end" => detector.words > 0
      /\ w = "none" => detector'.words = detector.words
      /\ w \in {"start", "data"} => detector'.words = detector.words + 1
      /\ w \in {"end", "run_end"} => detector'.words = 0
      /\ detector'.ended <=> detector.ended \/ w = "run_end"
      /\ ~detector.long
      /\ w \in {"start", "data", "end"} => detector.words + 3 <= MaxPacket
  BY <1>0, DetectorStep DEF Word
<1>6. /\ check'.state \in {"forwarding", "throwing"}
      /\ w # "start" => check'.state = check.state
      /\ w = "none" \/ check'.state = "throwing" => Pending' = 0
      /\ w = "start" /\ check'.state = "forwarding" => usedw(data_fifo) <= Depth - MaxPacket
  <2>1. w \in Word \cup {"none"}
    BY <1>0, DetectorStep
  <2> QED
    BY <1>0, <2>1, CheckStep DEF Check, Pending, WritersType
<1>7. detector.words \in Nat /\ detector'.words \in Nat
  BY <1>0, DetectorStep, SizeAssumption DEF WritersType, DetectorType
<1>8. RoomInRun
  BY <1>5 DEF Room
<1>9. w = "start" /\ check'.state = "forwarding" => Len(data_fifo) <= Depth - MaxPacket
  <2>1. HAVE w = "start" /\ check'.state = "forwarding"
  <2>2. Used <= Depth - 1
    BY <2>1, <1>5, <1>8 DEF RoomInRun
  <2>3. usedw(data_fifo) = Len(data_fifo)
    BY <1>1, <1>2, <2>2 DEF usedw
  <2> QED
    BY <2>1, <2>3, <1>6
<1> HIDE DEF Used, Pending
<1>10. CASE w = "none"
  <2>1. Used' \in Nat /\ Used' <= Used /\ detector'.words = detector.words
    BY <1>10, <1>2, <1>3, <1>4, <1>5, <1>6
  <2>2. check'.state = check.state /\ (detector'.ended <=> detector.ended)
    BY <1>10, <1>5, <1>6
  <2>3. Used <= Depth
    BY <1>5 DEF Room
  <2> QED
    BY <2>1, <2>2, <2>3, <1>1, <1>2, <1>7, <1>8 DEF RoomInRun
<1>11. CASE w = "start"
  <2>1. /\ detector.words = 0 /\ ~detector.ended /\ ~detector'.ended
        /\ detector'.words = 1 /\ 3 <= MaxPacket
    BY <1>11, <1>1, <1>5, <1>7
  <2>2. Used <= Depth - 1
    BY <2>1, <1>8 DEF RoomInRun
  <2>3. Used' \in Nat /\ Used' <= Used + Pending'
    BY <1>2, <1>3, <1>4
  <2>4. CASE check'.state = "throwing"
    <3>1. Used' <= Depth - 1 /\ Used' <= Depth
      BY <2>2, <2>3, <2>4, <1>1, <1>2, <1>4, <1>6
    <3>2. check'.state # "forwarding"
      BY <2>4
    <3> QED
      BY <3>1, <3>2, <2>1 DEF RoomInRun
  <2>5. CASE check'.state = "forwarding"
    <3>1. Used + MaxPacket <= Depth + 1
      BY <2>5, <1>1, <1>2, <1>9, <1>11
    <3>2. Pending' \in 0..1 /\ 3 <= MaxPacket /\ Used' <= Used + Pending'
      BY <1>4, <2>1, <2>3
    <3>3. /\ Used' <= Depth - 1 /\ Used' <= Depth
          /\ Used' + MaxPacket <= Depth + 1 + 1
      BY <3>1, <3>2, <2>3, <1>1, <1>2, OneMore
    <3>4. Used' + MaxPacket <= Depth + 1 + detector'.words
      BY <3>3, <2>1
    <3> QED
      BY <3>3, <3>4, <2>1 DEF RoomInRun
  <2> QED
    BY <2>4, <2>5, <1>6
<1>12. CASE w \in {"data", "end"}
  <2>1. /\ detector.words > 0 /\ ~detector.ended /\ ~detector'.ended
        /\ detector.words + 3 <= MaxPacket /\ detector'.words \in {0, detector.words + 1}
        /\ check'.state = check.state
    BY <1>12, <1>5, <1>6
  <2>2. CASE check.state = "throwing"
    <3>1. Used' \in Nat /\ Used' <= Used /\ Used <= Depth - 1
      BY <2>1, <2>2, <1>2, <1>3, <1>4, <1>6, <1>8 DEF RoomInRun
    <3> QED
      BY <2>1, <2>2, <3>1, <1>1, <1>2 DEF RoomInRun
  <2>3. CASE check.state = "forwarding"
    <3>1. Used + MaxPacket <= Depth + 1 + detector.words
      BY <2>1, <2>3, <1>8 DEF RoomInRun
    <3>2. Used' \in Nat /\ Used' <= Used + 1
      BY <1>2, <1>3, <1>4
    <3>3. Used' <= Depth - 1
      BY <2>1, <3>1, <3>2, <1>1, <1>2, <1>7
    <3>4. detector'.words > 0 => Used' + MaxPacket <= Depth + 1 + detector'.words
      <4>1. detector'.words > 0 => detector'.words = detector.words + 1
        BY <2>1, <1>7
      <4> QED
        BY <3>1, <3>2, <4>1, <1>1, <1>2, <1>7
    <3> QED
      BY <2>1, <3>2, <3>3, <3>4, <1>1 DEF RoomInRun
  <2> QED
    BY <2>1, <2>2, <2>3, <1>6
<1>13. CASE w = "run_end"
  BY <1>13, <1>1, <1>2, <1>3, <1>4, <1>5, <1>6, <1>7, <1>8 DEF RoomInRun
<1> QED
  BY <1>5, <1>10, <1>11, <1>12, <1>13

LEMMA RoomStep ==
    ASSUME Room, [DMNext]_vars
    PROVE  Room'
<1>1. CASE UNCHANGED vars
  BY <1>1 DEF vars, Room, WritersType, CleanStart, RoomInRun, Used, Pending
<1>2. CASE Clock
  <2>0. WritersType /\ CleanStart
    BY DEF Room
  <2>1. PICK w \in DetectorWrites :
          /\ MoveRunState
          /\ data_fifo' = NextDataFifo /\ check' = Checked(check, data_fifo, w)
          /\ detector' = NextDetector(w)
    BY <1>2, ClockStep
  <2>2. WritersType' /\ CleanStart'
    BY <2>0, <2>1, WritersStep
  <2>3. CASE run_state \in InRunStates
    <3>1. ~detector'.long => Used' <= Depth /\ RoomInRun'
      BY <2>1, <2>3, RoomKept
    <3> QED
      BY <2>2, <3>1 DEF Room
  <2>4. CASE run_state \notin InRunStates
    <3>1. check'.write = "none"
      <4>1. w = "none" /\ data_fifo \in Seq(Word) /\ check \in Check
        BY <2>0, <2>4, DetectorStep DEF WritersType
      <4> QED
        BY <4>1, <2>1, CheckStep DEF Check
    <3>2. Used' = Len(data_fifo') /\ Len(data_fifo') \in Nat
      BY <2>2, <3>1 DEF Used, Pending, WritersType
    <3>3. Used' <= Depth
      BY <2>2, <3>2 DEF WritersType
    <3>4. run_state' \in InRunStates => RoomInRun'
      <4>1. HAVE run_state' \in InRunStates
      <4>2. run_state = "SYNC"
        BY <4>1, <2>0, <2>1, <2>4, MoveEdges DEF InRunStates
      <4>3. data_fifo' = <<>> /\ detector'.words = 0 /\ ~detector'.ended
        BY <4>2, <2>0, <2>1, FifoStep, DetectorStep DEF CleanStart
      <4>4. Used' = 0
        BY <3>2, <4>3
      <4> QED
        BY <4>3, <4>4, SizeAssumption DEF RoomInRun
    <3> QED
      BY <2>2, <3>3, <3>4 DEF Room
  <2> QED
    BY <2>3, <2>4
<1> QED
  BY <1>1, <1>2 DEF DMNext

(* A word that the overflow check lets through finds room in the FIFO      *)
(* until a packet of the run has more than MAX_PAKET_SIZE - 2 words        *)
(* (NoWordLost), for all sizes and all behaviour of the rest.              *)
THEOREM RoomSuffices == DMSpec => []NoWordLost
<1>1. DMInit => Room
  BY RoomInit
<1>2. Room /\ [DMNext]_vars => Room'
  BY RoomStep
<1>3. Room => NoWordLost
  BY SizeAssumption DEF Room, NoWordLost, Overflows, Used, Pending, WritersType
<1> QED
  BY <1>1, <1>2, <1>3, PTL DEF DMSpec
-----------------------------------------------------------------------------
(***************************************************************************)
(* What a clock of the merger does, for all sizes, run states and aborts.  *)
(***************************************************************************)
TypeInv == WritersType /\ DMTypeOK

-----------------------------------------------------------------------------
(* The timeout leaves the registers in their ranges.                       *)
LEMMA TimeoutStep ==
    ASSUME NEW m \in Merger
    PROVE  /\ AfterTimeout(m) \in Merger
           /\ AfterTimeout(m).prev = m.state
           /\ AfterTimeout(m).state = IF TimedOut(m) THEN "idle" ELSE m.state
           /\ AfterTimeout(m).sc_read <=> m.sc_read /\ ~TimedOut(m)
           /\ AfterTimeout(m).last = m.last
           /\ AfterTimeout(m).timer = IF m.state # m.prev \/ m.state = "idle" \/ TimedOut(m)
                                      THEN 0 ELSE m.timer + 1
<1> DEFINE timer == IF m.state # m.prev \/ m.state = "idle" \/ TimedOut(m) THEN 0 ELSE m.timer + 1
           state == IF TimedOut(m) THEN "idle" ELSE m.state
           read == m.sc_read /\ ~TimedOut(m)
<1>1. timer \in 0..Timeout
  BY SizeAssumption DEF TimedOut, Merger
<1>2. state \in MergerState
  BY DEF Merger, MergerState
<1>3. read \in BOOLEAN
  OBVIOUS
<1>4. AfterTimeout(m) = [m EXCEPT !.prev = m.state, !.state = state, !.sc_read = read, !.timer = timer]
  BY DEF AfterTimeout
<1> HIDE DEF timer, state, read
<1>5. /\ AfterTimeout(m) \in Merger
      /\ AfterTimeout(m).prev = m.state /\ AfterTimeout(m).state = state
      /\ AfterTimeout(m).sc_read = read /\ AfterTimeout(m).last = m.last
      /\ AfterTimeout(m).timer = timer
  BY <1>1, <1>2, <1>3, <1>4 DEF Merger
<1> QED
  BY <1>5 DEF timer, state, read

(* What a branch of the merger gives, from the registers m and, after the  *)
(* timeout, t: the registers stay in their ranges, ...                     *)
Gives(t, r) ==
    /\ r.registers \in Merger /\ r.sends \in Sent
    /\ r.registers.prev = t.prev /\ r.registers.timer = t.timer

(* ... a reply is begun with its header, from idle, ...                    *)
Begins(m, r) ==
    /\ r.registers.state = "sending_slowcontrol" <=> r.sends = "sc_header"
    /\ r.registers.sc_read <=> r.registers.state = "sending_slowcontrol"
    /\ r.sends = "sc_header" => m.state = "idle" /\ sc_fifo # <<>>

(* ... and is sent word by word to its end.                                *)
Continues(t, r) ==
    /\ sc_fifo = <<>> =>
         /\ r.registers.state = t.state /\ (r.registers.sc_read <=> t.sc_read)
         /\ r.sends = "comma"
    /\ sc_fifo # <<>> /\ IsEnd(Head(sc_fifo)) =>
         r.registers.state = "idle" /\ ~r.registers.sc_read /\ r.sends = "trailer"
    /\ sc_fifo # <<>> /\ ~IsEnd(Head(sc_fifo)) =>
         r.registers.state = t.state /\ r.registers.sc_read /\ r.sends = "sc_word"

(* Data are sent behind their header.                                      *)
DataOpens(m, r) ==
    r.registers.state = "sending_data" =>
        \/ r.sends = "data_header"
        \/ m.state = "sending_data" /\ r.sends \notin {"data_header", "sc_header", "trailer"}

MergerStep(m, t, r) ==
    /\ Gives(t, r)
    /\ m.state # "sending_slowcontrol" /\ ~t.sc_read => Begins(m, r)
    /\ m.state = "sending_slowcontrol" /\ t.state = m.state => Continues(t, r)
    /\ DataOpens(m, r)

(* The run end goes out in a run only, for a reason.                       *)
EndsRun(t, r, can_terminate) ==
    /\ r.sends = "run_end" =>
         /\ run_state \in InRunStates
         /\ \/ t.last = "run_end"
            \/ data_fifo # <<>> /\ Head(data_fifo) = "run_end"
            \/ can_terminate
    /\ run_state = "IDLE" => r.registers.last = "none"
    /\ r.registers.last = "run_end" =>
         \/ t.last = "run_end"
         \/ /\ run_state \in InRunStates /\ merger.state = "sending_data"
            /\ data_fifo # <<>> /\ Head(data_fifo) = "run_end"

(* The parts that the branches share.                                      *)
LEMMA SlowcontrolGives ==
    ASSUME TypeInv, NEW m \in Merger, NEW t \in Merger, t.state \in {m.state, "idle"}
    PROVE  /\ m.state = "idle" /\ sc_fifo # <<>> =>
                MergerStep(m, t, StartSlowcontrol(t))
           /\ m.state = "sending_slowcontrol" => MergerStep(m, t, SendSlowcontrol(t))
           /\ m.state # "sending_slowcontrol" => MergerStep(m, t, GoIdle(t))
  BY DEF MergerStep, Gives, Begins, DataOpens, Continues, StartSlowcontrol, SendSlowcontrol, GoIdle,
     Result, Merger, MergerState, Sent, IsEnd

LEMMA SlowcontrolLast ==
    ASSUME NEW t \in Merger
    PROVE  \A r \in {StartSlowcontrol(t), SendSlowcontrol(t), GoIdle(t)} :
               r.registers.last = t.last /\ r.sends # "run_end"
<1>1. StartSlowcontrol(t).registers.last = t.last /\ StartSlowcontrol(t).sends # "run_end"
  BY DEF StartSlowcontrol, Result, Merger
<1>2. SendSlowcontrol(t).registers.last = t.last /\ SendSlowcontrol(t).sends # "run_end"
  BY DEF SendSlowcontrol, Result, Merger
<1>3. GoIdle(t).registers.last = t.last /\ GoIdle(t).sends # "run_end"
  BY DEF GoIdle, Result, Merger
<1> QED
  BY <1>1, <1>2, <1>3
-----------------------------------------------------------------------------
(* The branches, one for each group of run states.                         *)
LEMMA TestGives ==
    ASSUME TypeInv, NEW m \in Merger, NEW t \in Merger, t.state \in {m.state, "idle"}
    PROVE  /\ MergerStep(m, t, InTest(m, t))
           /\ InTest(m, t).registers.last = t.last /\ InTest(m, t).sends # "run_end"
<1> DEFINE r == InTest(m, t)
<1> SUFFICES MergerStep(m, t, r) /\ r.registers.last = t.last /\ r.sends # "run_end"
  OBVIOUS
<1>1. CASE m.state = "sending_slowcontrol"
  <2>1. r = SendSlowcontrol(t)
    BY <1>1 DEF InTest
  <2> QED
    BY <1>1, <2>1, SlowcontrolGives, SlowcontrolLast
<1>2. ASSUME NEW state \in MergerState, NEW word \in Sent,
             r = Result([t EXCEPT !.state = state], word), m.state # "sending_slowcontrol",
             state # "sending_slowcontrol", word \notin {"sc_header", "run_end"},
             state = "sending_data" =>
               word = "data_header" \/ (m.state = "sending_data" /\ word # "trailer")
      PROVE  MergerStep(m, t, r) /\ r.registers.last = t.last /\ r.sends # "run_end"
  <2> HIDE DEF r
  <2>1. /\ r.registers \in Merger /\ r.sends = word /\ r.registers.state = state
        /\ r.registers.prev = t.prev /\ r.registers.timer = t.timer
        /\ r.registers.sc_read = t.sc_read /\ r.registers.last = t.last
    BY <1>2 DEF Result, Merger
  <2> QED
    BY <1>2, <2>1 DEF MergerStep, Gives, Begins, DataOpens
<1>3. t = [t EXCEPT !.state = t.state]
  BY DEF Merger
<1>4. CASE m.state = "idle"
  <2>1. r = Result([t EXCEPT !.state = "sending_data"], "data_header")
        \/ r = Result([t EXCEPT !.state = t.state], "comma")
    BY <1>3, <1>4 DEF InTest
  <2> QED
    BY <1>2, <1>4, <2>1 DEF MergerState, Sent
<1>5. CASE m.state \in {"sending_data", "wait_for_terminate"}
  <2>1. r = Result([t EXCEPT !.state = t.state], "override")
        \/ r = Result([t EXCEPT !.state = "idle"], "trailer")
    BY <1>3, <1>5 DEF InTest
  <2> QED
    BY <1>2, <1>5, <2>1 DEF MergerState, Sent
<1> QED
  BY <1>1, <1>4, <1>5 DEF Merger, MergerState

LEMMA SyncGives ==
    ASSUME TypeInv, NEW m \in Merger, NEW t \in Merger, t.state \in {m.state, "idle"}
    PROVE  /\ MergerStep(m, t, InSyncOrReset(m, t))
           /\ InSyncOrReset(m, t).registers.last = t.last
           /\ InSyncOrReset(m, t).sends # "run_end"
  BY SlowcontrolGives, SlowcontrolLast DEF InSyncOrReset

LEMMA IdleGives ==
    ASSUME TypeInv, NEW m \in Merger, NEW t \in Merger, t.state \in {m.state, "idle"}
    PROVE  /\ MergerStep(m, t, InIdle(m, t))
           /\ InIdle(m, t).registers.last = "none" /\ InIdle(m, t).sends # "run_end"
<1> DEFINE c == [t EXCEPT !.terminated = FALSE, !.ack_sent = FALSE, !.last = "none"]
<1>1. /\ c \in Merger /\ c.state = t.state /\ c.prev = t.prev /\ c.timer = t.timer
      /\ c.sc_read = t.sc_read /\ c.last = "none"
  BY DEF Merger
<1>2. InIdle(m, t) = CASE m.state = "idle" /\ sc_fifo # <<>> -> StartSlowcontrol(c)
          [] m.state = "idle" /\ sc_fifo = <<>> -> Result([c EXCEPT !.sc_read = FALSE], "comma")
          [] m.state = "sending_slowcontrol" -> SendSlowcontrol(c)
          [] OTHER -> GoIdle(c)
  BY DEF InIdle
<1> HIDE DEF c
<1>3. MergerStep(m, c, InIdle(m, t))
  <2>1. CASE m.state = "idle" /\ sc_fifo = <<>>
    <3> DEFINE e == [c EXCEPT !.sc_read = FALSE]
    <3>1. /\ e \in Merger /\ e.state = c.state /\ e.prev = c.prev /\ e.timer = c.timer
          /\ e.sc_read = FALSE
      BY <1>1 DEF Merger
    <3>2. InIdle(m, t) = Result(e, "comma")
      BY <2>1, <1>2
    <3> HIDE DEF e
    <3>3. InIdle(m, t).registers = e /\ InIdle(m, t).sends = "comma"
      BY <3>2 DEF Result
    <3> QED
      BY <2>1, <3>1, <3>3, <1>1 DEF MergerStep, Gives, Begins, DataOpens, Sent
  <2>2. CASE m.state = "idle" /\ sc_fifo # <<>>
    BY <2>2, <1>1, <1>2, SlowcontrolGives
  <2>3. CASE m.state = "sending_slowcontrol"
    BY <2>3, <1>1, <1>2, SlowcontrolGives
  <2>4. CASE m.state \in {"sending_data", "wait_for_terminate"}
    BY <2>4, <1>1, <1>2, SlowcontrolGives
  <2> QED
    BY <2>1, <2>2, <2>3, <2>4 DEF Merger, MergerState
<1>4. MergerStep(m, t, InIdle(m, t))
  BY <1>1, <1>3 DEF MergerStep, Gives, Continues
<1>5. InIdle(m, t).registers.last = "none" /\ InIdle(m, t).sends # "run_end"
  BY <1>1, <1>2, SlowcontrolLast DEF Result, Merger
<1> QED
  BY <1>4, <1>5

LEMMA PrepGives ==
    ASSUME TypeInv, NEW m \in Merger, NEW t \in Merger, t.state \in {m.state, "idle"},
           NEW permission
    PROVE  /\ MergerStep(m, t, InPrep(m, t, permission))
           /\ InPrep(m, t, permission).registers.last = t.last
           /\ InPrep(m, t, permission).sends # "run_end"
<1> DEFINE c == [t EXCEPT !.terminated = FALSE]
           r == InPrep(m, t, permission)
<1>1. /\ c \in Merger /\ c.state = t.state /\ c.prev = t.prev /\ c.timer = t.timer
      /\ c.sc_read = t.sc_read /\ c.last = t.last
  BY DEF Merger
<1>2. /\ m.state = "idle" => r \in {Result([c EXCEPT !.ack_sent = TRUE], "ack"),
                                    Result([c EXCEPT !.sc_read = FALSE], "comma"),
                                    StartSlowcontrol(c)}
      /\ m.state = "idle" /\ r = StartSlowcontrol(c) /\ sc_fifo = <<>> =>
           r \in {Result([c EXCEPT !.ack_sent = TRUE], "ack"),
                  Result([c EXCEPT !.sc_read = FALSE], "comma")}
      /\ m.state = "sending_slowcontrol" => r = SendSlowcontrol(c)
      /\ m.state \in {"sending_data", "wait_for_terminate"} => r = GoIdle(c)
  <2>1. CASE m.state = "idle" /\ ~m.ack_sent /\ permission
    BY <2>1 DEF InPrep
  <2>2. CASE m.state = "idle" /\ (m.ack_sent \/ ~permission) /\ sc_fifo = <<>>
    BY <2>2 DEF InPrep
  <2>3. CASE m.state = "idle" /\ (m.ack_sent \/ ~permission) /\ sc_fifo # <<>>
    BY <2>3 DEF InPrep
  <2>4. CASE m.state # "idle"
    BY <2>4 DEF InPrep
  <2> QED
    BY <2>1, <2>2, <2>3, <2>4
<1> HIDE DEF c, r
<1>3. MergerStep(m, c, r)
  <2>1. CASE m.state = "idle" /\ r = Result([c EXCEPT !.ack_sent = TRUE], "ack")
    BY <2>1, <1>1 DEF MergerStep, Gives, Begins, DataOpens, Result, Merger, MergerState, Sent
  <2>2. CASE m.state = "idle" /\ r = Result([c EXCEPT !.sc_read = FALSE], "comma")
    BY <2>2, <1>1 DEF MergerStep, Gives, Begins, DataOpens, Result, Merger, MergerState, Sent
  <2>3. CASE m.state = "idle" /\ sc_fifo # <<>> /\ r = StartSlowcontrol(c)
    BY <2>3, <1>1, SlowcontrolGives
  <2>4. CASE m.state = "sending_slowcontrol"
    BY <2>4, <1>1, <1>2, SlowcontrolGives
  <2>5. CASE m.state \in {"sending_data", "wait_for_terminate"}
    BY <2>5, <1>1, <1>2, SlowcontrolGives
  <2> QED
    BY <1>2, <2>1, <2>2, <2>3, <2>4, <2>5 DEF Merger, MergerState
<1>4. MergerStep(m, t, r)
  BY <1>1, <1>3 DEF MergerStep, Gives, Continues
<1>5. r.registers.last = t.last /\ r.sends # "run_end"
  <2>1. m.state \in MergerState
    BY DEF Merger
  <2> QED
    BY <2>1, <1>1, <1>2, SlowcontrolLast DEF Result, Merger, MergerState
<1> QED
  BY <1>4, <1>5 DEF r

(* In a run: the start of a packet, the data, and the branch as a whole.   *)
LEMMA BeginGives ==
    ASSUME TypeInv, NEW m \in Merger, NEW c \in Merger, NEW can_terminate, m.state = "idle",
           c.state = "idle", run_state \in InRunStates
    PROVE  /\ MergerStep(m, c, BeginPacket(c, can_terminate))
           /\ EndsRun(c, BeginPacket(c, can_terminate), can_terminate)
<1> DEFINE r == BeginPacket(c, can_terminate)
<1>1. CASE RunEndDue(c, can_terminate)
  <2>1. r = Result([c EXCEPT !.terminated = TRUE, !.state = "wait_for_terminate"], "run_end")
    BY <1>1 DEF BeginPacket
  <2> HIDE DEF r
  <2>2. /\ r.registers \in Merger /\ r.registers.state = "wait_for_terminate"
        /\ r.registers.prev = c.prev /\ r.registers.timer = c.timer
        /\ r.registers.sc_read = c.sc_read /\ r.registers.last = c.last /\ r.sends = "run_end"
    BY <2>1 DEF Result, Merger, MergerState
  <2>3. MergerStep(m, c, r)
    BY <2>2 DEF MergerStep, Gives, Begins, DataOpens, Sent
  <2>4. \/ c.last = "run_end"
        \/ data_fifo # <<>> /\ Head(data_fifo) = "run_end"
        \/ can_terminate
    BY <1>1 DEF RunEndDue
  <2>5. EndsRun(c, r, can_terminate)
    BY <2>2, <2>4 DEF EndsRun, InRunStates
  <2> QED
    BY <2>3, <2>5 DEF r
<1>2. CASE ~RunEndDue(c, can_terminate) /\ sc_fifo # <<>>
  <2>1. r = StartSlowcontrol(c)
    BY <1>2 DEF BeginPacket
  <2> HIDE DEF r
  <2>2. MergerStep(m, c, r)
    BY <1>2, <2>1, SlowcontrolGives
  <2>3. r.registers.last = c.last /\ r.sends # "run_end"
    BY <2>1, SlowcontrolLast
  <2> QED
    BY <2>2, <2>3 DEF EndsRun, InRunStates, r
<1>3. CASE ~RunEndDue(c, can_terminate) /\ sc_fifo = <<>> /\ data_fifo # <<>>
  <2>1. r = Result([c EXCEPT !.state = "sending_data"], "data_header")
    BY <1>3 DEF BeginPacket
  <2> HIDE DEF r
  <2>2. MergerStep(m, c, r)
    BY <1>3, <2>1 DEF MergerStep, Gives, Begins, DataOpens, Result, Merger, MergerState, Sent
  <2>3. r.registers.last = c.last /\ r.sends # "run_end"
    BY <2>1 DEF Result, Merger
  <2> QED
    BY <2>2, <2>3 DEF EndsRun, InRunStates, r
<1>4. CASE ~RunEndDue(c, can_terminate) /\ sc_fifo = <<>> /\ data_fifo = <<>>
  <2>1. r = Result([c EXCEPT !.sc_read = FALSE], "comma")
    BY <1>4 DEF BeginPacket
  <2> HIDE DEF r
  <2>2. MergerStep(m, c, r)
    BY <1>4, <2>1 DEF MergerStep, Gives, Begins, DataOpens, Result, Merger, MergerState, Sent
  <2>3. r.registers.last = c.last /\ r.sends # "run_end"
    BY <2>1 DEF Result, Merger
  <2> QED
    BY <2>2, <2>3 DEF EndsRun, InRunStates, r
<1> QED
  BY <1>1, <1>2, <1>3, <1>4

LEMMA DataGives ==
    ASSUME TypeInv, NEW m \in Merger, NEW c \in Merger, NEW can_terminate,
           m.state = "sending_data", c.state \in {m.state, "idle"},
           merger.state = "sending_data", run_state \in InRunStates
    PROVE  /\ MergerStep(m, c, SendData(c))
           /\ EndsRun(c, SendData(c), can_terminate)
<1> DEFINE r == SendData(c)
<1>1. data_fifo # <<>> => Head(data_fifo) \in Word
  BY DEF TypeInv, WritersType
<1>2. CASE data_fifo # <<>> /\ IsEnd(Head(data_fifo))
  <2>1. r = Result([c EXCEPT !.state = "idle", !.last = Head(data_fifo)], "trailer")
    BY <1>2 DEF SendData
  <2> HIDE DEF r
  <2>2. /\ r.registers \in Merger /\ r.registers.state = "idle"
        /\ r.registers.prev = c.prev /\ r.registers.timer = c.timer
        /\ r.registers.sc_read = c.sc_read /\ r.registers.last = Head(data_fifo)
        /\ r.sends = "trailer"
    BY <1>1, <1>2, <2>1 DEF Result, Merger, MergerState
  <2>3. MergerStep(m, c, r)
    BY <2>2 DEF MergerStep, Gives, Begins, DataOpens, Sent
  <2> QED
    BY <1>2, <2>2, <2>3 DEF EndsRun, InRunStates, r
<1>3. CASE data_fifo = <<>> \/ ~IsEnd(Head(data_fifo))
  <2>1. r.registers = c /\ r.sends \in {"comma", "start", "data"}
    BY <1>1, <1>3 DEF SendData, Result, IsEnd, Word
  <2> HIDE DEF r
  <2>2. MergerStep(m, c, r)
    BY <2>1 DEF MergerStep, Gives, Begins, DataOpens, Sent, Merger
  <2> QED
    BY <2>1, <2>2 DEF EndsRun, InRunStates, r
<1> QED
  BY <1>2, <1>3

LEMMA RunGives ==
    ASSUME TypeInv, NEW t \in Merger, t.state \in {merger.state, "idle"}, NEW can_terminate,
           run_state \in InRunStates
    PROVE  /\ MergerStep(merger, t, InRun(merger, t, can_terminate))
           /\ EndsRun(t, InRun(merger, t, can_terminate), can_terminate)
<1> DEFINE c == [t EXCEPT !.ack_sent = FALSE]
           r == InRun(merger, t, can_terminate)
<1>1. /\ c \in Merger /\ c.state = t.state /\ c.prev = t.prev /\ c.timer = t.timer
      /\ c.sc_read = t.sc_read /\ c.last = t.last
  BY DEF Merger
<1>2. /\ merger.state = "idle" => r = BeginPacket(c, can_terminate)
      /\ merger.state = "wait_for_terminate" => r = Result(c, "comma")
      /\ merger.state = "sending_data" => r = SendData(c)
      /\ merger.state = "sending_slowcontrol" => r = SendSlowcontrol(c)
  BY DEF InRun
<1> HIDE DEF c, r
<1>3. merger \in Merger
  BY DEF TypeInv, DMTypeOK
<1>4. MergerStep(merger, c, r) /\ EndsRun(c, r, can_terminate)
  <2>1. CASE merger.state = "idle"
    BY <2>1, <1>1, <1>2, <1>3, BeginGives
  <2>2. CASE merger.state = "wait_for_terminate"
    <3>1. r.registers = c /\ r.sends = "comma"
      BY <2>2, <1>2 DEF Result
    <3>2. MergerStep(merger, c, r)
      BY <2>2, <3>1, <1>1 DEF MergerStep, Gives, Begins, DataOpens, Sent, Merger
    <3> QED
      BY <3>1, <3>2 DEF EndsRun, InRunStates
  <2>3. CASE merger.state = "sending_data"
    BY <2>3, <1>1, <1>2, <1>3, DataGives
  <2>4. CASE merger.state = "sending_slowcontrol"
    <3>1. MergerStep(merger, c, r)
      BY <2>4, <1>1, <1>2, <1>3, SlowcontrolGives
    <3>2. r.registers.last = c.last /\ r.sends # "run_end"
      BY <2>4, <1>1, <1>2, SlowcontrolLast
    <3> QED
      BY <3>1, <3>2 DEF EndsRun, InRunStates
  <2> QED
    BY <1>3, <2>1, <2>2, <2>3, <2>4 DEF Merger, MergerState
<1> QED
  BY <1>1, <1>4 DEF MergerStep, Gives, Continues, EndsRun, r

(* One clock of the merger.                                                *)
LEMMA MergeGives ==
    ASSUME TypeInv, NEW permission, NEW can_terminate
    PROVE  LET t == AfterTimeout(merger)
               r == Merge(permission, can_terminate)
           IN  MergerStep(merger, t, r) /\ EndsRun(t, r, can_terminate)
<1> DEFINE t == AfterTimeout(merger)
           r == Merge(permission, can_terminate)
<1>1. merger \in Merger
  BY DEF TypeInv, DMTypeOK
<1>2. t \in Merger /\ t.state \in {merger.state, "idle"}
  BY <1>1, TimeoutStep
<1>3. /\ run_state \in {"LINK_TEST", "SYNC_TEST"} => r = InTest(merger, t)
      /\ run_state \in {"SYNC", "RESET"} => r = InSyncOrReset(merger, t)
      /\ run_state \in {"IDLE", "OUT_OF_DAQ"} => r = InIdle(merger, t)
      /\ run_state = "PREP" => r = InPrep(merger, t, permission)
      /\ run_state \in InRunStates => r = InRun(merger, t, can_terminate)
  BY DEF Merge, InRunStates
<1> SUFFICES MergerStep(merger, t, r) /\ EndsRun(t, r, can_terminate)
  OBVIOUS
<1> HIDE DEF t, r
<1>4. CASE run_state \in {"LINK_TEST", "SYNC_TEST"}
  BY <1>4, <1>1, <1>2, <1>3, TestGives DEF EndsRun, InRunStates
<1>5. CASE run_state \in {"SYNC", "RESET"}
  BY <1>5, <1>1, <1>2, <1>3, SyncGives DEF EndsRun, InRunStates
<1>6. CASE run_state \in {"IDLE", "OUT_OF_DAQ"}
  BY <1>6, <1>1, <1>2, <1>3, IdleGives DEF EndsRun, InRunStates
<1>7. CASE run_state = "PREP"
  BY <1>7, <1>1, <1>2, <1>3, PrepGives DEF EndsRun, InRunStates
<1>8. CASE run_state \in InRunStates
  BY <1>8, <1>2, <1>3, RunGives
<1>9. run_state \in Run!RunState
  BY DEF TypeInv, WritersType
<1> QED
  BY <1>4, <1>5, <1>6, <1>7, <1>8, <1>9 DEF InRunStates, Run!RunState
-----------------------------------------------------------------------------
(* What the slow control writes: one word after the other, or none.        *)
LEMMA ReplierStep ==
    ASSUME TypeInv, NEW s \in ReplierWrites
    PROVE  /\ s \in {"none", "start", "data", "end"}
           /\ NextReplier(s) \in [age : 0..(ReplyTime - 1), replies : 0..Replies]
           /\ s \in {"start", "data"} => NextReplier(s).age > 0
           /\ ~Stalls /\ replier.age > 0 =>
                /\ s \in {"none", "data", "end"}
                /\ s # "end" => NextReplier(s).age = replier.age + 1
<1>1. /\ replier.age \in 0..(ReplyTime - 1) /\ replier.replies \in 0..Replies
      /\ ReplyTime \in Nat \ {0, 1} /\ Replies \in Nat
  BY SizeAssumption DEF TypeInv, DMTypeOK
<1>2. s \in {"none", "start", "data", "end"}
  BY DEF ReplierWrites
<1>3. /\ s = "start" => replier.replies > 0
      /\ s = "data" => replier.age > 0
      /\ ~Stalls /\ replier.age > 0 =>
           s # "start" /\ (s = "end" \/ replier.age < ReplyTime - 1)
  BY <1>1 DEF ReplierWrites
<1> DEFINE age == IF s = "start" THEN 1 ELSE IF s = "end" THEN 0
                  ELSE IF replier.age \in {0, ReplyTime - 1} THEN replier.age ELSE replier.age + 1
           replies == IF s = "start" THEN replier.replies - 1 ELSE replier.replies
<1>4. NextReplier(s) = [age |-> age, replies |-> replies]
  BY <1>2 DEF NextReplier
<1>5. age \in 0..(ReplyTime - 1) /\ replies \in 0..Replies
  BY <1>1, <1>3
<1>6. /\ s \in {"start", "data"} => age > 0
      /\ ~Stalls /\ replier.age > 0 /\ s # "end" => age = replier.age + 1
  BY <1>1, <1>2, <1>3
<1> HIDE DEF age, replies
<1>7. NextReplier(s).age = age
  BY <1>4
<1> QED
  BY <1>2, <1>3, <1>4, <1>5, <1>6, <1>7

LEMMA OpenStep ==
    ASSUME TypeInv, NEW word \in Sent
    PROVE  /\ NextOpen(word) \in [kind : {"none", "data", "slowcontrol"}, words : 0..2]
           /\ NextOpen(word).kind = CASE word = "data_header" -> "data"
                                      [] word = "sc_header" -> "slowcontrol"
                                      [] word = "trailer" -> "none"
                                      [] OTHER -> open.kind
  BY DEF NextOpen, TypeInv, DMTypeOK, Sent

LEMMA LostStep ==
    ASSUME TypeInv
    PROVE  /\ NextLost \in [data : BOOLEAN, sc : BOOLEAN]
           /\ NextLost.data <=> run_state # "IDLE" /\ (lost.data \/ Overflows(data_fifo, check))
           /\ NextLost.sc <=> lost.sc \/ Overflows(sc_fifo, sc_check)
<1> DEFINE data == run_state # "IDLE" /\ (lost.data \/ Overflows(data_fifo, check))
           sc == lost.sc \/ Overflows(sc_fifo, sc_check)
<1>1. NextLost = [data |-> data, sc |-> sc]
  BY DEF NextLost
<1>2. data \in BOOLEAN /\ sc \in BOOLEAN
  OBVIOUS
<1> HIDE DEF data, sc
<1>3. /\ NextLost \in [data : BOOLEAN, sc : BOOLEAN]
      /\ NextLost.data = data /\ NextLost.sc = sc
  BY <1>1, <1>2
<1> QED
  BY <1>3 DEF data, sc

LEMMA TypeInit == ASSUME DMInit PROVE TypeInv
<1>1. WritersType
  BY RoomInit DEF Room
<1>2. merger \in Merger
  BY SizeAssumption DEF DMInit, Merger, MergerState
<1>3. /\ run_state \in States /\ sc_fifo \in Seq(Word) /\ Len(sc_fifo) <= Depth
      /\ sc_check \in Check /\ out \in Sent
      /\ open \in [kind : {"none", "data", "slowcontrol"}, words : 0..2]
      /\ replier \in [age : 0..(ReplyTime - 1), replies : 0..Replies]
  BY SizeAssumption, StatesAssumption DEF DMInit, Sent, Check
<1>4. lost \in [data : BOOLEAN, sc : BOOLEAN]
  BY DEF DMInit
<1> QED
  BY <1>1, <1>2, <1>3, <1>4 DEF TypeInv, DMTypeOK, WritersType, DetectorType

LEMMA TypeStep ==
    ASSUME TypeInv, [DMNext]_vars
    PROVE  TypeInv'
<1>1. CASE UNCHANGED vars
  BY <1>1 DEF vars, TypeInv, WritersType, DMTypeOK
<1>2. CASE Clock
  <2>0. WritersType
    BY DEF TypeInv
  <2>1. PICK permission \in Permissions, can_terminate \in {FALSE, CanTerminate},
             w \in DetectorWrites, s \in ReplierWrites :
          /\ MoveRunState
          /\ data_fifo' = NextDataFifo /\ check' = Checked(check, data_fifo, w)
          /\ sc_fifo' = NextSCFifo /\ sc_check' = Checked(sc_check, sc_fifo, s)
          /\ merger' = Merge(permission, can_terminate).registers
          /\ out' = Merge(permission, can_terminate).sends
          /\ open' = NextOpen(out') /\ lost' = NextLost
          /\ detector' = NextDetector(w) /\ replier' = NextReplier(s)
    BY <1>2, ClockStep
  <2>2. WritersType'
    <3>1. w \in Word \cup {"none"} /\ data_fifo \in Seq(Word) /\ check \in Check
      BY <2>0, DetectorStep DEF WritersType
    <3> QED
      BY <2>0, <2>1, <3>1, MoveEdges, FifoStep, CheckStep, DetectorStep DEF WritersType
  <2>3. merger' \in Merger /\ out' \in Sent
    BY <2>1, MergeGives DEF MergerStep, Gives
  <2>4. sc_fifo' \in Seq(Word) /\ Len(sc_fifo') <= Depth /\ sc_check' \in Check
    <3>1. /\ sc_fifo \in Seq(Word) /\ Len(sc_fifo) <= Depth /\ sc_check \in Check
          /\ merger.sc_read \in BOOLEAN
      BY DEF TypeInv, DMTypeOK, Merger
    <3>2. s \in Word \cup {"none"}
      BY <2>1, ReplierStep DEF Word
    <3> QED
      BY <2>1, <3>1, <3>2, FifoTakes, CheckStep DEF NextSCFifo
  <2>5. open' \in [kind : {"none", "data", "slowcontrol"}, words : 0..2]
    BY <2>1, <2>3, OpenStep
  <2>6. lost' \in [data : BOOLEAN, sc : BOOLEAN]
    BY <2>1, LostStep
  <2>7. run_state' \in States /\ replier' \in [age : 0..(ReplyTime - 1), replies : 0..Replies]
    BY <2>1, ReplierStep DEF MoveRunState
  <2> QED
    BY <2>2, <2>3, <2>4, <2>5, <2>6, <2>7 DEF TypeInv, DMTypeOK, WritersType, DetectorType
<1> QED
  BY <1>1, <1>2 DEF DMNext

(* The registers, the FIFOs and the observers keep their ranges (DMTypeOK).*)
THEOREM TypeCorrect == DMSpec => []DMTypeOK
<1>1. TypeInv => DMTypeOK
  BY DEF TypeInv
<1> QED
  BY <1>1, TypeInit, TypeStep, PTL DEF DMSpec
-----------------------------------------------------------------------------
(***************************************************************************)
(* The framing of the replies.  A slow control reply may pause, but it is  *)
(* written in ReplyTime clocks, and with what is still in the FIFO before  *)
(* it that is less than the timeout.  In the code these are 10000 clocks   *)
(* for a FIFO of 1024 words.                                               *)
(***************************************************************************)
Prompt == Stalls = FALSE /\ ReplyTime + Depth + 4 <= Timeout

(* The replies that are read, and the one that is written.                 *)
ScPipe == Flow(sc_fifo, sc_check)
Replying == replier.age > 0 /\ sc_check.state = "forwarding"

(* The merger reads while it sends a reply.                                *)
Reading == merger.sc_read <=> merger.state = "sending_slowcontrol"

(* A reply without an end is the one that is being written.                *)
Ends == ScPipe # <<>> /\ ~IsEnd(ScPipe[Len(ScPipe)]) => Replying

(* While a reply is sent, its end is on the way or being written, and comes*)
(* before the timeout.                                                     *)
Timely ==
    merger.state = "sending_slowcontrol" =>
        \/ \E p \in 1..Len(ScPipe) :
              /\ IsEnd(ScPipe[p])
              /\ merger.timer + p + (IF sc_fifo = <<>> THEN 1 ELSE 0) <= ReplyTime + Depth + 3
        \/ Replying /\ merger.timer <= replier.age

FrameInv == TypeInv /\ LinkFraming /\ (~lost.sc => Reading /\ Ends /\ Timely)

(* What is on its way into the FIFO comes behind what is there.            *)
LEMMA FlowEnds ==
    ASSUME NEW fifo \in Seq(Word), NEW c \in Check
    PROVE  /\ Flow(fifo, c) \in Seq(Word)
           /\ Len(Flow(fifo, c)) = Len(fifo) + (IF c.write = "none" THEN 0 ELSE 1)
           /\ \A i \in 1..Len(fifo) : Flow(fifo, c)[i] = fifo[i]
           /\ c.write # "none" => Flow(fifo, c)[Len(fifo) + 1] = c.write
           /\ c.write = "none" => Flow(fifo, c) = fifo
<1>1. CASE c.write = "none"
  BY <1>1 DEF Flow
<1>2. CASE c.write # "none"
  <2>1. c.write \in Word /\ Flow(fifo, c) = Append(fifo, c.write)
    BY <1>2 DEF Flow, Check
  <2>2. c.write # "none" /\ Len(fifo) \in Nat
    BY <1>2
  <2> QED
    BY <2>1, <2>2, AppendProperties
<1> QED
  BY <1>1, <1>2

(* What a clock does to the replies.                                       *)
Moved ==
    /\ ScPipe \in Seq(Word)
    /\ sc_fifo # <<>> => ScPipe # <<>> /\ ScPipe[1] = Head(sc_fifo)
    /\ sc_fifo' = IF merger.sc_read /\ sc_fifo # <<>> THEN Tail(ScPipe) ELSE ScPipe
    /\ Len(ScPipe') = Len(sc_fifo') + (IF sc_check'.write = "none" THEN 0 ELSE 1)
    /\ \A i \in 1..Len(sc_fifo') : ScPipe'[i] = sc_fifo'[i]
    /\ sc_check'.write = "end" => IsEnd(ScPipe'[Len(ScPipe')])

GoesOn == Replying => \/ Replying' /\ replier'.age = replier.age + 1
                      \/ sc_check'.write = "end"

(* A reply that is written goes on, or its end is.                         *)
LEMMA ReplyGoesOn ==
    ASSUME TypeInv, Prompt, NEW s \in ReplierWrites,
           sc_check' = Checked(sc_check, sc_fifo, s), replier' = NextReplier(s)
    PROVE  /\ sc_check' \in Check
           /\ GoesOn
           /\ sc_check'.write \notin {"none", "end"} => Replying'
<1>1. sc_check \in Check /\ sc_fifo \in Seq(Word) /\ s \in Word \cup {"none"}
  BY ReplierStep DEF TypeInv, DMTypeOK, Word
<1>2. /\ sc_check' \in Check
      /\ sc_check'.state = "forwarding" => sc_check'.write = s
      /\ sc_check'.state = "throwing" => sc_check'.write = "none"
      /\ s # "start" => sc_check'.state = sc_check.state
  BY <1>1, CheckStep
<1>3. /\ s \in {"none", "start", "data", "end"}
      /\ s \in {"start", "data"} => replier'.age > 0
      /\ replier.age > 0 =>
           /\ s \in {"none", "data", "end"}
           /\ s # "end" => replier'.age = replier.age + 1
  BY ReplierStep DEF Prompt
<1>4. replier.age \in Nat /\ sc_check'.state \in {"forwarding", "throwing"}
  BY <1>2, SizeAssumption DEF TypeInv, DMTypeOK, Check
<1>5. GoesOn
  <2>1. SUFFICES ASSUME Replying PROVE GoesOn
    BY DEF GoesOn
  <2>2. s # "start" /\ sc_check'.state = "forwarding" /\ sc_check'.write = s
    BY <2>1, <1>2, <1>3 DEF Replying
  <2>3. CASE s = "end"
    BY <2>2, <2>3 DEF GoesOn
  <2>4. CASE s # "end"
    BY <2>1, <2>2, <2>4, <1>3, <1>4 DEF Replying, GoesOn
  <2> QED
    BY <2>3, <2>4
<1>6. sc_check'.write \notin {"none", "end"} => Replying'
  BY <1>2, <1>3, <1>4 DEF Replying
<1> QED
  BY <1>2, <1>5, <1>6

(* While a reply is sent, the timeout does not strike.                     *)
LEMMA NoTimeout ==
    ASSUME TypeInv, Prompt, Timely, merger.state = "sending_slowcontrol"
    PROVE  ~TimedOut(merger)
<1>1. /\ merger.timer \in Nat /\ replier.age \in Nat /\ replier.age <= ReplyTime - 1
      /\ ReplyTime \in Nat /\ Depth \in Nat /\ Timeout \in Nat
  BY SizeAssumption DEF TypeInv, DMTypeOK, Merger
<1>2. merger.timer < Timeout
  <2>1. CASE \E p \in 1..Len(ScPipe) :
                merger.timer + p + (IF sc_fifo = <<>> THEN 1 ELSE 0) <= ReplyTime + Depth + 3
    BY <2>1, <1>1 DEF Prompt
  <2>2. CASE merger.timer <= replier.age
    BY <2>2, <1>1 DEF Prompt
  <2> QED
    BY <2>1, <2>2 DEF Timely
<1> QED
  BY <1>1, <1>2 DEF TimedOut

(* The replies behind a clock: what is read, and that they end.            *)
LEMMA RepliesStep ==
    ASSUME TypeInv, TypeInv', Prompt, Ends, ~Overflows(sc_fifo, sc_check),
           NEW s \in ReplierWrites, sc_fifo' = NextSCFifo,
           sc_check' = Checked(sc_check, sc_fifo, s), replier' = NextReplier(s)
    PROVE  Ends' /\ Moved
<1>1. /\ sc_fifo \in Seq(Word) /\ sc_check \in Check /\ merger.sc_read \in BOOLEAN
      /\ sc_fifo' \in Seq(Word) /\ sc_check' \in Check
  BY DEF TypeInv, DMTypeOK, Merger
<1>2. /\ ScPipe \in Seq(Word)
      /\ sc_fifo # <<>> => ScPipe # <<>> /\ ScPipe[1] = Head(sc_fifo)
      /\ sc_fifo' = IF merger.sc_read /\ sc_fifo # <<>> THEN Tail(ScPipe) ELSE ScPipe
  BY <1>1, FlowStep DEF ScPipe, NextSCFifo
<1>3. /\ Len(ScPipe') = Len(sc_fifo') + (IF sc_check'.write = "none" THEN 0 ELSE 1)
      /\ \A i \in 1..Len(sc_fifo') : ScPipe'[i] = sc_fifo'[i]
      /\ sc_check'.write # "none" => ScPipe'[Len(sc_fifo') + 1] = sc_check'.write
      /\ sc_check'.write = "none" => ScPipe' = sc_fifo'
  BY <1>1, FlowEnds DEF ScPipe
<1>4. Len(ScPipe) \in Nat /\ Len(sc_fifo') \in Nat
  BY <1>1, <1>2
<1>5. sc_check'.write = "end" => IsEnd(ScPipe'[Len(ScPipe')])
  BY <1>3, <1>4 DEF IsEnd
<1> HIDE DEF ScPipe
<1>6. Ends'
  <2>1. SUFFICES ASSUME ScPipe' # <<>>, ~IsEnd(ScPipe'[Len(ScPipe')])
                 PROVE  Replying'
    BY DEF Ends
  <2>2. CASE sc_check'.write # "none"
    <3>1. ScPipe'[Len(ScPipe')] = sc_check'.write
      BY <2>2, <1>3, <1>4
    <3> QED
      BY <2>1, <2>2, <3>1, ReplyGoesOn DEF IsEnd
  <2>3. CASE sc_check'.write = "none"
    <3>1. sc_fifo' # <<>> /\ ~IsEnd(sc_fifo'[Len(sc_fifo')])
      BY <2>1, <2>3, <1>3
    <3>2. ScPipe # <<>> /\ sc_fifo'[Len(sc_fifo')] = ScPipe[Len(ScPipe)]
      BY <3>1, <1>2
    <3> QED
      BY <3>1, <3>2, <2>3, ReplyGoesOn DEF Ends, GoesOn
  <2> QED
    BY <2>2, <2>3
<1> QED
  BY <1>2, <1>3, <1>4, <1>5, <1>6 DEF Moved

(* A clock in which the merger may begin a reply.                          *)
LEMMA ReplyBegins ==
    ASSUME TypeInv, TypeInv', Prompt, Ends, Ends', ~merger.sc_read, NEW r,
           MergerStep(merger, AfterTimeout(merger), r), r.registers = merger', r.sends = out',
           merger.state # "sending_slowcontrol",
           Moved, GoesOn
    PROVE  Reading' /\ Timely'
<1>1. merger \in Merger
  BY DEF TypeInv, DMTypeOK
<1>2. ~AfterTimeout(merger).sc_read
  BY <1>1, TimeoutStep
<1>3. /\ Begins(merger, r) /\ merger'.timer = AfterTimeout(merger).timer
  BY <1>2 DEF MergerStep, Gives
<1>4. /\ Reading'
      /\ merger'.state = "sending_slowcontrol" => merger.state = "idle" /\ sc_fifo # <<>>
  BY <1>3 DEF Begins, Reading
<1>5. merger.state = "idle" => merger'.timer = 0
  BY <1>1, <1>3, TimeoutStep
<1>6. Timely'
  <2>1. SUFFICES ASSUME merger'.state = "sending_slowcontrol" PROVE Timely'
    BY DEF Timely
  <2>0. /\ sc_fifo' = ScPipe /\ sc_fifo' # <<>>
        /\ Len(ScPipe') = Len(sc_fifo') + (IF sc_check'.write = "none" THEN 0 ELSE 1)
        /\ \A i \in 1..Len(sc_fifo') : ScPipe'[i] = sc_fifo'[i]
        /\ sc_check'.write = "end" => IsEnd(ScPipe'[Len(ScPipe')])
    BY <1>4, <2>1 DEF Moved
  <2>2. merger'.timer = 0 /\ sc_fifo' \in Seq(Word) /\ Len(sc_fifo') \in Nat /\ Len(sc_fifo') <= Depth
    BY <1>4, <1>5, <2>1 DEF TypeInv, DMTypeOK
  <2>3. Len(sc_fifo') > 0 /\ Depth \in Nat /\ ReplyTime \in Nat
    BY <2>0, <2>2, EmptySeq, SizeAssumption
  <2>4. CASE IsEnd(ScPipe[Len(ScPipe)])
    <3>1. /\ Len(sc_fifo') \in 1..Len(ScPipe') /\ IsEnd(ScPipe'[Len(sc_fifo')])
          /\ merger'.timer + Len(sc_fifo') + 0 <= ReplyTime + Depth + 3
      BY <2>0, <2>2, <2>3, <2>4
    <3> QED
      BY <2>0, <3>1 DEF Timely
  <2>5. CASE Replying' /\ replier'.age = replier.age + 1
    BY <2>2, <2>5 DEF Timely, TypeInv, DMTypeOK
  <2>6. CASE sc_check'.write = "end"
    <3>1. /\ Len(ScPipe') = Len(sc_fifo') + 1 /\ IsEnd(ScPipe'[Len(ScPipe')])
      BY <2>0, <2>6
    <3>2. /\ Len(ScPipe') \in 1..Len(ScPipe')
          /\ merger'.timer + Len(ScPipe') + 0 <= ReplyTime + Depth + 3
      BY <2>2, <2>3, <3>1
    <3> QED
      BY <2>0, <3>1, <3>2 DEF Timely
  <2> QED
    BY <2>0, <2>4, <2>5, <2>6 DEF Ends, GoesOn
<1> QED
  BY <1>4, <1>6

(* A clock in which a reply is being sent.                                 *)
LEMMA ReplyContinues ==
    ASSUME TypeInv, TypeInv', Prompt, Timely, merger.sc_read, NEW r,
           MergerStep(merger, AfterTimeout(merger), r), r.registers = merger', r.sends = out',
           merger.state = "sending_slowcontrol",
           Moved, GoesOn
    PROVE  Reading' /\ Timely'
<1>1. merger \in Merger /\ ~TimedOut(merger)
  BY NoTimeout DEF TypeInv, DMTypeOK
<1>2. /\ AfterTimeout(merger).state = merger.state /\ AfterTimeout(merger).sc_read
      /\ AfterTimeout(merger).timer \in {0, merger.timer + 1}
  BY <1>1, TimeoutStep
<1>3. Continues(AfterTimeout(merger), r) /\ merger'.timer \in {0, merger.timer + 1}
  BY <1>2 DEF MergerStep, Gives
<1>4. Reading'
  BY <1>2, <1>3 DEF Continues, Reading
<1>5. /\ merger.timer \in Nat /\ merger'.timer <= merger.timer + 1 /\ merger'.timer \in Nat
      /\ replier.age \in Nat /\ replier.age <= ReplyTime - 1
      /\ ReplyTime \in Nat /\ Depth \in Nat
      /\ Len(sc_fifo') \in Nat /\ Len(sc_fifo') <= Depth /\ sc_fifo' \in Seq(Word)
      /\ Len(ScPipe) \in Nat /\ Len(ScPipe') \in Nat /\ Len(ScPipe') >= Len(sc_fifo')
  <2>1. merger.timer \in Nat
    BY <1>1, SizeAssumption DEF Merger
  <2>2. merger'.timer \in Nat /\ merger'.timer <= merger.timer + 1
    BY <1>3, <2>1
  <2>3. ReplyTime \in Nat /\ Depth \in Nat
    BY SizeAssumption
  <2>4. replier.age \in Nat /\ replier.age <= ReplyTime - 1
    BY <2>3 DEF TypeInv, DMTypeOK
  <2>5. sc_fifo' \in Seq(Word) /\ Len(sc_fifo') <= Depth /\ Len(sc_fifo') \in Nat
    BY DEF TypeInv, DMTypeOK
  <2>6. Len(ScPipe) \in Nat
    BY DEF Moved
  <2>7. Len(ScPipe') \in Nat /\ Len(ScPipe') >= Len(sc_fifo')
    <3>1. Len(ScPipe') = Len(sc_fifo') + (IF sc_check'.write = "none" THEN 0 ELSE 1)
      BY DEF Moved
    <3> QED
      BY <2>5, <3>1
  <2> QED
    BY <2>1, <2>2, <2>3, <2>4, <2>5, <2>6, <2>7
<1>6. merger'.state = "sending_slowcontrol" => sc_fifo = <<>> \/ ~IsEnd(ScPipe[1])
  BY <1>3 DEF Continues, Moved
<1>7. SUFFICES ASSUME merger'.state = "sending_slowcontrol" PROVE Timely'
  BY <1>4 DEF Timely
<1>8. CASE Replying /\ merger.timer <= replier.age
  <2>1. CASE Replying' /\ replier'.age = replier.age + 1
    <3>1. replier.age + 1 = replier'.age /\ merger'.timer <= replier.age + 1
      BY <1>5, <1>8, <2>1
    <3> QED
      BY <2>1, <3>1 DEF Timely
  <2>2. CASE sc_check'.write = "end"
    <3>1. Len(ScPipe') = Len(sc_fifo') + 1 /\ IsEnd(ScPipe'[Len(ScPipe')])
      BY <2>2 DEF Moved
    <3>2. merger'.timer <= ReplyTime /\ Len(ScPipe') >= 1 /\ Len(ScPipe') <= Depth + 1
      BY <1>8, <3>1, <1>5
    <3>3. /\ Len(ScPipe') \in 1..Len(ScPipe')
          /\ merger'.timer + Len(ScPipe') + 0 <= ReplyTime + Depth + 3
          /\ merger'.timer + Len(ScPipe') + 1 <= ReplyTime + Depth + 3
      BY <3>2, <1>5
    <3> QED
      BY <3>1, <3>3 DEF Timely
  <2> QED
    BY <1>8, <2>1, <2>2 DEF GoesOn
<1>9. ASSUME NEW p \in 1..Len(ScPipe), IsEnd(ScPipe[p]),
             merger.timer + p + (IF sc_fifo = <<>> THEN 1 ELSE 0) <= ReplyTime + Depth + 3
      PROVE  Timely'
  <2>1. p \in Nat /\ 1 <= p /\ p <= Len(ScPipe) /\ ScPipe # <<>>
    BY <1>9, <1>5
  <2>2. CASE sc_fifo = <<>>
    <3>1. sc_fifo' = ScPipe /\ sc_fifo' # <<>>
      BY <2>1, <2>2 DEF Moved
    <3>2. p \in 1..Len(ScPipe') /\ IsEnd(ScPipe'[p])
      <4>1. p \in 1..Len(sc_fifo') /\ IsEnd(sc_fifo'[p])
        BY <1>9, <3>1
      <4>2. ScPipe'[p] = sc_fifo'[p]
        BY <4>1 DEF Moved
      <4> QED
        BY <1>5, <2>1, <4>1, <4>2
    <3>3. merger'.timer + p + 0 <= ReplyTime + Depth + 3
      BY <1>5, <1>9, <2>1, <2>2
    <3> QED
      BY <3>1, <3>2, <3>3 DEF Timely
  <2>3. CASE sc_fifo # <<>>
    <3>1. p # 1 /\ sc_fifo' = Tail(ScPipe) /\ ScPipe # <<>>
      BY <1>6, <1>7, <1>9, <2>1, <2>3 DEF Moved
    <3>2. /\ Len(sc_fifo') = Len(ScPipe) - 1
          /\ \A i \in 1..Len(sc_fifo') : sc_fifo'[i] = ScPipe[i + 1]
      BY <3>1, HeadTailProperties DEF Moved
    <3>3. p - 1 \in 1..Len(sc_fifo') /\ sc_fifo' # <<>>
      <4>1. p > 1 /\ p <= Len(sc_fifo') + 1
        BY <1>5, <2>1, <3>1, <3>2
      <4>2. p - 1 \in 1..Len(sc_fifo') /\ Len(sc_fifo') > 0
        BY <1>5, <2>1, <4>1
      <4> QED
        BY <4>2, EmptySeq
    <3>4. p - 1 \in 1..Len(ScPipe') /\ IsEnd(ScPipe'[p - 1])
      <4>1. ScPipe'[p - 1] = sc_fifo'[p - 1] /\ sc_fifo'[p - 1] = ScPipe[(p - 1) + 1]
        BY <3>2, <3>3 DEF Moved
      <4>2. (p - 1) + 1 = p
        BY <2>1
      <4>3. p - 1 \in 1..Len(ScPipe')
        <5>1. p - 1 \in Nat /\ p - 1 >= 1 /\ p - 1 <= Len(sc_fifo')
          BY <3>3, <1>5
        <5> QED
          BY <5>1, <1>5
      <4> QED
        BY <1>9, <4>1, <4>2, <4>3
    <3>5. merger'.timer + (p - 1) + 0 <= ReplyTime + Depth + 3
      BY <1>5, <1>9, <2>1, <2>3
    <3> QED
      BY <3>3, <3>4, <3>5 DEF Timely
  <2> QED
    BY <2>2, <2>3
<1> QED
  BY <1>8, <1>9 DEF Timely

(* A clock of the merger, as it concerns the replies.                      *)
LEMMA FrameStep ==
    ASSUME Prompt, FrameInv, TypeInv', Clock
    PROVE  /\ FrameInv'
           /\ ~lost.sc /\ merger.sc_read /\ sc_fifo # <<>> => out' \in {"sc_word", "trailer"}
<1> DEFINE t == AfterTimeout(merger)
<1>0. TypeInv /\ LinkFraming /\ (~lost.sc => Reading /\ Ends /\ Timely) /\ merger \in Merger
  BY DEF FrameInv, TypeInv, DMTypeOK
<1>1. PICK permission \in Permissions, can_terminate \in {FALSE, CanTerminate},
           w \in DetectorWrites, s \in ReplierWrites :
        /\ merger' = Merge(permission, can_terminate).registers
        /\ out' = Merge(permission, can_terminate).sends
        /\ open' = NextOpen(out') /\ lost' = NextLost
        /\ sc_fifo' = NextSCFifo /\ sc_check' = Checked(sc_check, sc_fifo, s)
        /\ replier' = NextReplier(s)
  BY ClockStep
<1>2. PICK r : r.registers = merger' /\ r.sends = out' /\ MergerStep(merger, t, r)
  BY <1>0, <1>1, MergeGives
<1>3. DataOpens(merger, r) /\ out' \in Sent
  BY <1>2 DEF MergerStep, Gives
<1>4. open'.kind = CASE out' = "data_header" -> "data"
                     [] out' = "sc_header" -> "slowcontrol"
                     [] out' = "trailer" -> "none"
                     [] OTHER -> open.kind
  BY <1>0, <1>1, <1>3, OpenStep
<1>5. ~lost'.sc => ~lost.sc /\ ~Overflows(sc_fifo, sc_check)
  BY <1>0, <1>1, LostStep
<1>6. merger'.state = "sending_data" => open'.kind = "data"
  BY <1>0, <1>2, <1>3, <1>4 DEF DataOpens, LinkFraming
<1> HIDE DEF t
<1>7. ~lost.sc /\ merger.state # "sending_slowcontrol" => ~merger.sc_read /\ Begins(merger, r)
  <2>1. HAVE ~lost.sc /\ merger.state # "sending_slowcontrol"
  <2>2. ~merger.sc_read
    BY <1>0, <2>1 DEF Reading
  <2>3. ~t.sc_read
    BY <1>0, <2>2, TimeoutStep DEF t
  <2> QED
    BY <1>2, <2>1, <2>2, <2>3 DEF MergerStep
<1>8. ~lost.sc /\ merger.state = "sending_slowcontrol" => merger.sc_read /\ Continues(t, r)
  <2>1. HAVE ~lost.sc /\ merger.state = "sending_slowcontrol"
  <2>2. merger.sc_read /\ ~TimedOut(merger)
    BY <1>0, <2>1, NoTimeout DEF Reading
  <2>3. t.state = merger.state
    BY <1>0, <2>2, TimeoutStep DEF t
  <2> QED
    BY <1>2, <2>1, <2>2, <2>3 DEF MergerStep
<1>9. ~lost.sc => (merger'.state = "sending_slowcontrol" <=> open'.kind = "slowcontrol")
  <2>1. HAVE ~lost.sc
  <2>2. CASE merger.state # "sending_slowcontrol"
    <3>1. open.kind # "slowcontrol" /\ (merger'.state = "sending_slowcontrol" <=> out' = "sc_header")
      BY <1>0, <1>2, <1>7, <2>1, <2>2 DEF LinkFraming, Begins
    <3> QED
      BY <1>4, <3>1
  <2>3. CASE merger.state = "sending_slowcontrol"
    <3>1. /\ open.kind = "slowcontrol" /\ Continues(t, r) /\ t.state = merger.state
      <4>1. ~TimedOut(merger)
        BY <1>0, <2>1, <2>3, NoTimeout
      <4> QED
        BY <1>0, <1>8, <2>1, <2>3, <4>1, TimeoutStep DEF LinkFraming, t
    <3>2. \/ merger'.state = "sending_slowcontrol" /\ out' \in {"comma", "sc_word"}
          \/ merger'.state = "idle" /\ out' = "trailer"
      BY <1>2, <2>3, <3>1 DEF Continues
    <3> QED
      BY <1>4, <3>1, <3>2
  <2> QED
    BY <2>2, <2>3
<1>10. LinkFraming'
  BY <1>5, <1>6, <1>9 DEF LinkFraming
<1>11. ~lost'.sc => Reading' /\ Ends' /\ Timely'
  <2>1. HAVE ~lost'.sc
  <2>2. Reading /\ Ends /\ Timely /\ ~Overflows(sc_fifo, sc_check) /\ ~lost.sc
    BY <1>0, <1>5, <2>1
  <2>3. GoesOn
    BY <1>0, <1>1, ReplyGoesOn
  <2>4. Ends' /\ Moved
    BY <1>0, <1>1, <2>2, RepliesStep
  <2>5. MergerStep(merger, AfterTimeout(merger), r) /\ r.registers = merger' /\ r.sends = out'
    BY <1>2 DEF t
  <2>6. CASE merger.state # "sending_slowcontrol"
    <3>1. ~merger.sc_read
      BY <1>7, <2>2, <2>6
    <3> QED
      BY <1>0, <2>2, <2>3, <2>4, <2>5, <2>6, <3>1, ReplyBegins
  <2>7. CASE merger.state = "sending_slowcontrol"
    <3>1. merger.sc_read
      BY <1>8, <2>2, <2>7
    <3> QED
      BY <1>0, <2>2, <2>3, <2>4, <2>5, <2>7, <3>1, ReplyContinues
  <2> QED
    BY <2>6, <2>7
<1>12. ~lost.sc /\ merger.sc_read /\ sc_fifo # <<>> => out' \in {"sc_word", "trailer"}
  <2>1. HAVE ~lost.sc /\ merger.sc_read /\ sc_fifo # <<>>
  <2>2. Continues(t, r)
    BY <1>0, <1>8, <2>1 DEF Reading
  <2> QED
    BY <1>2, <2>1, <2>2 DEF Continues
<1> QED
  BY <1>10, <1>11, <1>12 DEF FrameInv

LEMMA FrameNext ==
    ASSUME Prompt
    PROVE  /\ DMInit => FrameInv
           /\ FrameInv /\ [DMNext]_vars => FrameInv'
<1>1. ASSUME DMInit PROVE FrameInv
  <2>1. TypeInv
    BY <1>1, TypeInit
  <2>2. LinkFraming /\ Reading /\ Timely
    BY <1>1 DEF DMInit, Reading, Timely, LinkFraming
  <2>3. Ends
    BY <1>1 DEF DMInit, Ends, ScPipe, Flow
  <2> QED
    BY <2>1, <2>2, <2>3 DEF FrameInv
<1>2. ASSUME FrameInv, [DMNext]_vars PROVE FrameInv'
  <2>1. TypeInv'
    BY <1>2, TypeStep DEF FrameInv
  <2>2. CASE Clock
    BY <1>2, <2>1, <2>2, FrameStep
  <2>3. CASE UNCHANGED vars
    BY <1>2, <2>1, <2>3
       DEF FrameInv, vars, LinkFraming, Reading, Ends, Timely, ScPipe, Flow, Replying
  <2> QED
    BY <1>2, <2>2, <2>3 DEF DMNext
<1> QED
  BY <1>1, <1>2

(* If replies are written in the time that the timeout gives them, with    *)
(* whatever pauses, slow control packets are never cut nor interrupted     *)
(* (LinkFraming), whatever run states the board is taken to, as long as    *)
(* the slow control FIFO does not overflow.                                *)
THEOREM Framed ==
    ASSUME Prompt
    PROVE  DMSpec => []LinkFraming
<1>1. FrameInv => LinkFraming
  BY DEF FrameInv
<1> QED
  BY <1>1, FrameNext, PTL DEF DMSpec

(* Nor is a word of a reply passed over: each clock in which the slow      *)
(* control FIFO is read puts a word or the trailer on the link             *)
(* (SlowcontrolSent).                                                      *)
THEOREM RepliesSent ==
    ASSUME Prompt
    PROVE  DMSpec => SlowcontrolSent
<1> DEFINE OnTheLink ==
             ~lost.sc /\ merger.sc_read /\ sc_fifo # <<>> => out' \in {"sc_word", "trailer"}
<1>1. ASSUME FrameInv, [DMNext]_vars PROVE [OnTheLink]_vars
  <2>1. TypeInv'
    BY <1>1, TypeStep DEF FrameInv
  <2> QED
    BY <1>1, <2>1, FrameStep DEF DMNext
<1>2. FrameInv /\ [DMNext]_vars => [OnTheLink]_vars
  BY <1>1
<1> QED
  BY <1>2, FrameNext, PTL DEF DMSpec, SlowcontrolSent
-----------------------------------------------------------------------------
(***************************************************************************)
(* The run end.  Where a marker is, nothing comes behind it.               *)
(***************************************************************************)
Marker ==
    /\ \A i \in 1..Len(data_fifo) : data_fifo[i] = "run_end" =>
          i = Len(data_fifo) /\ detector.ended /\ check.write = "none"
    /\ check.write = "run_end" => detector.ended
    /\ merger.last = "run_end" => data_fifo = <<>> /\ check.write = "none" /\ detector.ended

EndInv ==
    /\ TypeInv /\ CleanStart
    /\ run_state \in {"PREP", "SYNC"} => merger.last # "run_end"
    /\ run_state \in InRunStates => Marker

LEMMA MarkerStep ==
    ASSUME TypeInv, Marker, run_state \in InRunStates, NEW w \in DetectorWrites,
           data_fifo' = NextDataFifo, check' = Checked(check, data_fifo, w),
           detector' = NextDetector(w),
           merger'.last = "run_end" =>
             \/ merger.last = "run_end"
             \/ /\ merger.state = "sending_data"
                /\ data_fifo # <<>> /\ Head(data_fifo) = "run_end"
    PROVE  Marker'
<1> DEFINE rest == Rest(data_fifo, ReadsData)
<1>0. WritersType /\ data_fifo \in Seq(Word) /\ Len(data_fifo) <= Depth /\ check \in Check
  BY DEF TypeInv, WritersType
<1>1. /\ rest \in Seq(Word)
      /\ rest = IF merger.state = "sending_data" /\ data_fifo # <<>>
                THEN Tail(data_fifo) ELSE data_fifo
      /\ \/ data_fifo' = rest
         \/ check.write \in Word /\ data_fifo' = Append(rest, check.write)
      /\ check.write = "none" => data_fifo' = rest
  <2>1. ReadsData \in BOOLEAN /\ (ReadsData <=> merger.state = "sending_data")
    BY DEF ReadsData
  <2>2. /\ rest \in Seq(Word)
        /\ NextFifo(data_fifo, ReadsData, check) =
             IF check.write = "none" \/ Overflows(data_fifo, check) THEN rest
             ELSE Append(rest, check.write)
    BY <1>0, <2>1, FifoTakes
  <2>3. data_fifo' = NextFifo(data_fifo, ReadsData, check)
    BY <1>0, FifoStep DEF InRunStates
  <2>4. check.write # "none" => check.write \in Word
    BY <1>0 DEF Check
  <2>5. rest = IF merger.state = "sending_data" /\ data_fifo # <<>>
               THEN Tail(data_fifo) ELSE data_fifo
    BY <2>1 DEF Rest
  <2> HIDE DEF rest
  <2> QED
    BY <2>2, <2>3, <2>4, <2>5
<1>2. WritersType /\ data_fifo \in Seq(Word)
  BY <1>0
<1> HIDE DEF rest
<1>3. /\ detector.ended => w = "none"
      /\ detector'.ended <=> detector.ended \/ w = "run_end"
      /\ w \in Word \cup {"none"}
  BY <1>2, DetectorStep
<1>4. check'.write \in {w, "none"}
  BY <1>0, <1>3, CheckStep DEF Check
<1>5. check'.write = "run_end" => detector'.ended
  BY <1>3, <1>4 DEF Word
<1>6. detector.ended => detector'.ended /\ check'.write = "none"
  BY <1>3, <1>4
<1>7. \A i \in 1..Len(rest) : rest[i] = "run_end" =>
        i = Len(rest) /\ detector.ended /\ check.write = "none"
  <2>1. CASE rest = data_fifo
    BY <2>1 DEF Marker
  <2>2. CASE data_fifo # <<>> /\ rest = Tail(data_fifo)
    <3>1. /\ Len(rest) = Len(data_fifo) - 1 /\ Len(data_fifo) \in Nat \ {0}
          /\ \A i \in 1..Len(rest) : rest[i] = data_fifo[i + 1]
      BY <1>2, <2>2, HeadTailProperties, EmptySeq, LenProperties
    <3>2. \A i \in 1..Len(rest) : i + 1 \in 1..Len(data_fifo)
      BY <3>1
    <3> QED
      BY <3>1, <3>2 DEF Marker
  <2> QED
    BY <1>1, <2>1, <2>2
<1>8. \A i \in 1..Len(data_fifo') : data_fifo'[i] = "run_end" =>
        i = Len(data_fifo') /\ detector'.ended /\ check'.write = "none"
  <2>1. CASE data_fifo' = rest
    BY <2>1, <1>6, <1>7
  <2>2. CASE check.write \in Word /\ data_fifo' = Append(rest, check.write)
    <3>1. /\ Len(data_fifo') = Len(rest) + 1 /\ Len(rest) \in Nat
          /\ \A i \in 1..Len(rest) : data_fifo'[i] = rest[i]
          /\ data_fifo'[Len(rest) + 1] = check.write
      BY <2>2, AppendProperties
    <3>2. check.write # "none"
      BY <2>2 DEF Word
    <3>3. TAKE i \in 1..Len(data_fifo')
    <3>4. CASE i = Len(data_fifo')
      BY <3>1, <3>4, <1>6 DEF Marker
    <3>5. CASE i \in 1..Len(rest)
      BY <3>1, <3>2, <3>5, <1>7
    <3> QED
      BY <3>1, <3>4, <3>5
  <2> QED
    BY <1>1, <2>1, <2>2
<1>9. merger'.last = "run_end" => data_fifo' = <<>> /\ check'.write = "none" /\ detector'.ended
  <2>1. HAVE merger'.last = "run_end"
  <2>2. CASE merger.last = "run_end"
    BY <2>2, <1>1, <1>6 DEF Marker
  <2>3. CASE merger.state = "sending_data" /\ data_fifo # <<>> /\ Head(data_fifo) = "run_end"
    <3>1. 1 \in 1..Len(data_fifo) /\ data_fifo[1] = "run_end"
      BY <2>3, <1>2, EmptySeq, LenProperties
    <3>2. Len(data_fifo) = 1 /\ detector.ended /\ check.write = "none"
      BY <3>1 DEF Marker
    <3>3. rest = <<>>
      BY <2>3, <3>2, <1>1, <1>2, HeadTailProperties, EmptySeq
    <3> QED
      BY <3>2, <3>3, <1>1, <1>6
  <2> QED
    BY <2>1, <2>2, <2>3
<1> QED
  BY <1>5, <1>8, <1>9 DEF Marker

LEMMA EndStep ==
    ASSUME CanTerminate = FALSE, EndInv, Clock
    PROVE  /\ CleanStart'
           /\ run_state' \in {"PREP", "SYNC"} => merger'.last # "run_end"
           /\ run_state' \in InRunStates => Marker'
           /\ out' = "run_end" =>
                /\ data_fifo = <<>> \/ (Head(data_fifo) = "run_end" /\ Len(data_fifo) = 1)
                /\ check.write = "none"
<1>0. /\ TypeInv /\ WritersType /\ CleanStart
      /\ data_fifo \in Seq(Word) /\ check \in Check
  BY DEF EndInv, TypeInv, WritersType
<1>1. PICK permission \in Permissions, can_terminate \in {FALSE, CanTerminate},
           w \in DetectorWrites, s \in ReplierWrites :
        /\ MoveRunState
        /\ data_fifo' = NextDataFifo /\ check' = Checked(check, data_fifo, w)
        /\ merger' = Merge(permission, can_terminate).registers
        /\ out' = Merge(permission, can_terminate).sends
        /\ detector' = NextDetector(w)
  BY ClockStep
<1>2. PICK r : /\ r.registers = merger' /\ r.sends = out'
               /\ EndsRun(AfterTimeout(merger), r, can_terminate)
  BY <1>0, <1>1, MergeGives
<1>3. AfterTimeout(merger).last = merger.last
  BY <1>0, TimeoutStep DEF TypeInv, DMTypeOK
<1>4. /\ out' = "run_end" =>
           /\ run_state \in InRunStates
           /\ \/ merger.last = "run_end"
              \/ data_fifo # <<>> /\ Head(data_fifo) = "run_end"
      /\ run_state = "IDLE" => merger'.last = "none"
      /\ merger'.last = "run_end" =>
           \/ merger.last = "run_end"
           \/ /\ run_state \in InRunStates /\ merger.state = "sending_data"
              /\ data_fifo # <<>> /\ Head(data_fifo) = "run_end"
  <2>1. can_terminate = FALSE
    BY <1>1
  <2> QED
    BY <1>2, <1>3, <2>1 DEF EndsRun
<1>5. /\ run_state' = "PREP" => run_state \in {"IDLE", "PREP"}
      /\ run_state' = "SYNC" => run_state \in {"PREP", "SYNC"}
      /\ run_state' \in InRunStates => run_state \in InRunStates \cup {"SYNC"}
  BY <1>0, <1>1, MoveEdges DEF InRunStates
<1>6. run_state \notin InRunStates => w = "none" /\ check'.write = "none"
  <2>1. HAVE run_state \notin InRunStates
  <2>2. w = "none"
    BY <1>0, <2>1, DetectorStep
  <2> QED
    BY <1>0, <1>1, <2>2, CheckStep DEF Check
<1>7. run_state \in {"IDLE", "PREP", "SYNC"} =>
        data_fifo' = <<>> /\ detector'.words = 0 /\ ~detector'.ended
  BY <1>0, <1>1, FifoStep, DetectorStep DEF CleanStart
<1>8. CleanStart'
  BY <1>0, <1>1, WritersStep
<1>9. run_state' \in {"PREP", "SYNC"} => merger'.last # "run_end"
  BY <1>4, <1>5 DEF EndInv, InRunStates
<1>10. run_state' \in InRunStates => Marker'
  <2>1. CASE run_state \in InRunStates
    BY <2>1, <1>0, <1>1, <1>4, MarkerStep DEF EndInv
  <2>2. CASE run_state = "SYNC"
    <3>1. merger'.last # "run_end"
      BY <2>2, <1>4 DEF EndInv, InRunStates
    <3>2. data_fifo' = <<>> /\ Len(data_fifo') = 0 /\ check'.write = "none"
      BY <2>2, <1>6, <1>7 DEF InRunStates
    <3> QED
      BY <3>1, <3>2 DEF Marker
  <2> QED
    BY <1>5, <2>1, <2>2
<1>11. out' = "run_end" =>
         /\ data_fifo = <<>> \/ (Head(data_fifo) = "run_end" /\ Len(data_fifo) = 1)
         /\ check.write = "none"
  <2>1. HAVE out' = "run_end"
  <2>2. Marker
    BY <2>1, <1>4 DEF EndInv
  <2>3. CASE merger.last = "run_end"
    BY <2>2, <2>3 DEF Marker
  <2>4. CASE data_fifo # <<>> /\ Head(data_fifo) = "run_end"
    <3>1. 1 \in 1..Len(data_fifo) /\ data_fifo[1] = "run_end"
      BY <2>4, <1>0, EmptySeq, LenProperties
    <3> QED
      BY <2>2, <2>4, <3>1 DEF Marker
  <2> QED
    BY <2>1, <2>3, <2>4, <1>4
<1> QED
  BY <1>8, <1>9, <1>10, <1>11

(* The run end comes behind all the data of the run that the overflow check*)
(* let through (RunEndLast), for a detector that ends a run with its marker*)
(* and not with can_terminate: whatever the sizes, and words may be lost.  *)
THEOREM RunEndComesLast ==
    ASSUME CanTerminate = FALSE
    PROVE  DMSpec => RunEndLast
<1> DEFINE Last == out' = "run_end" => /\ \/ data_fifo = <<>>
                                          \/ Head(data_fifo) = "run_end" /\ Len(data_fifo) = 1
                                       /\ check.write = "none"
<1>1. DMInit => EndInv
  BY TypeInit DEF EndInv, DMInit, CleanStart, InRunStates
<1>2. ASSUME EndInv, [DMNext]_vars PROVE EndInv' /\ [Last]_vars
  <2>1. TypeInv'
    BY <1>2, TypeStep DEF EndInv
  <2>2. CASE Clock
    BY <1>2, <2>1, <2>2, EndStep DEF EndInv
  <2>3. CASE UNCHANGED vars
    BY <1>2, <2>1, <2>3 DEF EndInv, vars, CleanStart, Marker
  <2> QED
    BY <1>2, <2>2, <2>3 DEF DMNext
<1>3. EndInv /\ [DMNext]_vars => EndInv' /\ [Last]_vars
  BY <1>2
<1> QED
  BY <1>1, <1>3, PTL DEF DMSpec, RunEndLast
-----------------------------------------------------------------------------
(***************************************************************************)
(* What the link carries between a data header and its trailer is one      *)
(* packet as the detector wrote it: as long as no word was lost in a FIFO  *)
(* that is full, and the timeout does not strike in the middle of one.     *)
(***************************************************************************)
Opens(word) == word \in {"start", "data"}          \* the packet goes on
Starts(word) == word \in {"start", "run_end"}      \* comes between packets

(* What is in the FIFO or about to be written into it.                     *)
Pipe == Flow(data_fifo, check)

(* The receiver is inside a packet; so is the writer.                      *)
Inside == merger.state = "sending_data" /\ open.words > 0
Writing == detector.words > 0 /\ check.state = "forwarding"

(* Packet follows packet, from the one on the link to the one that is      *)
(* being written.                                                          *)
Packets ==
    /\ Pipe # <<>> => (Starts(Pipe[1]) <=> ~Inside)
    /\ \A i \in 1..(Len(Pipe) - 1) : Opens(Pipe[i]) <=> ~Starts(Pipe[i + 1])
    /\ IF Pipe = <<>> THEN Inside <=> Writing ELSE Opens(Pipe[Len(Pipe)]) <=> Writing

PacketInv ==
    /\ TypeInv /\ CleanStart
    /\ run_state \in {"PREP", "SYNC"} => merger.state # "sending_data"
    /\ run_state \in InRunStates /\ ~lost.data => Packets

(* The timeout does not strike while the merger sends data of a run.       *)
InTime == ~(run_state \in InRunStates /\ merger.state = "sending_data" /\ TimedOut(merger))
-----------------------------------------------------------------------------
(* What the merger does with the data, branch by branch.                   *)
DataSent(m, t, r) ==
    /\ r.sends \in {"start", "data"} =>
         /\ run_state \in InRunStates /\ m.state = "sending_data"
         /\ data_fifo # <<>> /\ r.sends = Head(data_fifo)
    /\ run_state \in {"IDLE", "PREP", "SYNC"} => r.registers.state # "sending_data"
    /\ run_state \in InRunStates /\ m.state # "sending_data" /\ r.registers.state = "sending_data" =>
         r.sends = "data_header"
    /\ run_state \in InRunStates /\ m.state = "sending_data" /\ t.state = m.state =>
         IF data_fifo = <<>> THEN r.registers.state = "sending_data" /\ r.sends = "comma"
         ELSE IF IsEnd(Head(data_fifo)) THEN r.registers.state = "idle"
         ELSE r.registers.state = "sending_data" /\ r.sends = Head(data_fifo)

LEMMA SharedSends ==
    ASSUME NEW t \in Merger
    PROVE  /\ StartSlowcontrol(t).registers.state = "sending_slowcontrol"
           /\ StartSlowcontrol(t).sends = "sc_header"
           /\ SendSlowcontrol(t).registers.state \in {t.state, "idle"}
           /\ SendSlowcontrol(t).sends \in {"comma", "sc_word", "trailer"}
           /\ GoIdle(t).registers.state = "idle" /\ GoIdle(t).sends = "comma"
<1>1. /\ StartSlowcontrol(t).registers.state = "sending_slowcontrol"
      /\ StartSlowcontrol(t).sends = "sc_header"
  BY DEF StartSlowcontrol, Result, Merger
<1>2. /\ SendSlowcontrol(t).registers.state \in {t.state, "idle"}
      /\ SendSlowcontrol(t).sends \in {"comma", "sc_word", "trailer"}
  BY DEF SendSlowcontrol, Result, Merger
<1>3. GoIdle(t).registers.state = "idle" /\ GoIdle(t).sends = "comma"
  BY DEF GoIdle, Result, Merger
<1> QED
  BY <1>1, <1>2, <1>3

LEMMA OutsideSends ==
    ASSUME TypeInv, NEW t \in Merger, t.state \in {merger.state, "idle"}, NEW permission
    PROVE  /\ InTest(merger, t).sends \notin {"start", "data"}
           /\ InSyncOrReset(merger, t).sends \notin {"start", "data"}
           /\ InSyncOrReset(merger, t).registers.state # "sending_data"
           /\ InIdle(merger, t).sends \notin {"start", "data"}
           /\ InIdle(merger, t).registers.state # "sending_data"
           /\ InPrep(merger, t, permission).sends \notin {"start", "data"}
           /\ InPrep(merger, t, permission).registers.state # "sending_data"
<1>0. merger.state \in MergerState
  BY DEF TypeInv, DMTypeOK, Merger
<1>1. InTest(merger, t).sends \notin {"start", "data"}
  BY <1>0, SharedSends DEF InTest, Result, MergerState
<1>2. /\ InSyncOrReset(merger, t).sends \notin {"start", "data"}
      /\ InSyncOrReset(merger, t).registers.state # "sending_data"
  BY SharedSends DEF InSyncOrReset
<1>3. /\ InIdle(merger, t).sends \notin {"start", "data"}
      /\ InIdle(merger, t).registers.state # "sending_data"
  <2> DEFINE c == [t EXCEPT !.terminated = FALSE, !.ack_sent = FALSE, !.last = "none"]
  <2>1. c \in Merger /\ c.state = t.state
    BY DEF Merger
  <2>2. InIdle(merger, t) = CASE merger.state = "idle" /\ sc_fifo # <<>> -> StartSlowcontrol(c)
          [] merger.state = "idle" /\ sc_fifo = <<>> -> Result([c EXCEPT !.sc_read = FALSE], "comma")
          [] merger.state = "sending_slowcontrol" -> SendSlowcontrol(c)
          [] OTHER -> GoIdle(c)
    BY DEF InIdle
  <2> HIDE DEF c
  <2>3. CASE merger.state = "idle" /\ sc_fifo = <<>>
    <3>1. InIdle(merger, t) = Result([c EXCEPT !.sc_read = FALSE], "comma")
      BY <2>2, <2>3
    <3> QED
      BY <2>1, <2>3, <3>1 DEF Result, Merger
  <2>4. CASE merger.state = "idle" /\ sc_fifo # <<>>
    BY <2>1, <2>2, <2>4, SharedSends
  <2>5. CASE merger.state = "sending_slowcontrol"
    BY <2>1, <2>2, <2>5, SharedSends
  <2>6. CASE merger.state \in {"sending_data", "wait_for_terminate"}
    BY <2>1, <2>2, <2>6, SharedSends
  <2> QED
    BY <1>0, <2>3, <2>4, <2>5, <2>6 DEF MergerState
<1>4. /\ InPrep(merger, t, permission).sends \notin {"start", "data"}
      /\ InPrep(merger, t, permission).registers.state # "sending_data"
  <2> DEFINE c == [t EXCEPT !.terminated = FALSE]
             r == InPrep(merger, t, permission)
  <2>1. c \in Merger /\ c.state = t.state
    BY DEF Merger
  <2>2. CASE merger.state = "idle" /\ ~merger.ack_sent /\ permission
    <3>1. r = Result([c EXCEPT !.ack_sent = TRUE], "ack")
      BY <2>2 DEF InPrep
    <3> HIDE DEF c, r
    <3>2. r.sends = "ack" /\ r.registers.state = c.state
      BY <2>1, <3>1 DEF Result, Merger
    <3> QED
      BY <2>1, <2>2, <3>2 DEF r
  <2>3. CASE merger.state = "idle" /\ (merger.ack_sent \/ ~permission) /\ sc_fifo = <<>>
    <3>1. r = Result([c EXCEPT !.sc_read = FALSE], "comma")
      BY <2>3 DEF InPrep
    <3> HIDE DEF c, r
    <3>2. r.sends = "comma" /\ r.registers.state = c.state
      BY <2>1, <3>1 DEF Result, Merger
    <3> QED
      BY <2>1, <2>3, <3>2 DEF r
  <2>4. CASE merger.state = "idle" /\ (merger.ack_sent \/ ~permission) /\ sc_fifo # <<>>
    <3>1. r = StartSlowcontrol(c)
      BY <2>4 DEF InPrep
    <3> QED
      BY <2>1, <3>1, SharedSends
  <2>5. CASE merger.state = "sending_slowcontrol"
    <3>1. r = SendSlowcontrol(c)
      BY <2>5 DEF InPrep
    <3> QED
      BY <2>1, <2>5, <3>1, SharedSends
  <2>6. CASE merger.state \in {"sending_data", "wait_for_terminate"}
    <3>1. r = GoIdle(c)
      BY <2>6 DEF InPrep
    <3> QED
      BY <2>1, <3>1, SharedSends
  <2> QED
    BY <1>0, <2>2, <2>3, <2>4, <2>5, <2>6 DEF MergerState
<1> QED
  BY <1>1, <1>2, <1>3, <1>4

LEMMA BeginSends ==
    ASSUME TypeInv, NEW c \in Merger, NEW can_terminate, c.state = "idle"
    PROVE  LET r == BeginPacket(c, can_terminate)
           IN  /\ r.sends \notin {"start", "data"}
               /\ r.registers.state = "sending_data" => r.sends = "data_header"
<1> DEFINE r == BeginPacket(c, can_terminate)
<1>1. CASE RunEndDue(c, can_terminate)
  <2>1. r = Result([c EXCEPT !.terminated = TRUE, !.state = "wait_for_terminate"], "run_end")
    BY <1>1 DEF BeginPacket
  <2> HIDE DEF r
  <2>2. r.sends = "run_end" /\ r.registers.state = "wait_for_terminate"
    BY <2>1 DEF Result, Merger
  <2> QED
    BY <2>2 DEF r
<1>2. CASE ~RunEndDue(c, can_terminate) /\ sc_fifo # <<>>
  <2>1. r = StartSlowcontrol(c)
    BY <1>2 DEF BeginPacket
  <2> QED
    BY <2>1, SharedSends
<1>3. CASE ~RunEndDue(c, can_terminate) /\ sc_fifo = <<>> /\ data_fifo # <<>>
  <2>1. r = Result([c EXCEPT !.state = "sending_data"], "data_header")
    BY <1>3 DEF BeginPacket
  <2> HIDE DEF r
  <2>2. r.sends = "data_header"
    BY <2>1 DEF Result
  <2> QED
    BY <2>2 DEF r
<1>4. CASE ~RunEndDue(c, can_terminate) /\ sc_fifo = <<>> /\ data_fifo = <<>>
  <2>1. r = Result([c EXCEPT !.sc_read = FALSE], "comma")
    BY <1>4 DEF BeginPacket
  <2> HIDE DEF r
  <2>2. r.sends = "comma" /\ r.registers.state = "idle"
    BY <2>1 DEF Result, Merger
  <2> QED
    BY <2>2 DEF r
<1> QED
  BY <1>1, <1>2, <1>3, <1>4

LEMMA DataSends ==
    ASSUME TypeInv, NEW c \in Merger
    PROVE  LET r == SendData(c)
           IN  IF data_fifo = <<>> THEN r.registers.state = c.state /\ r.sends = "comma"
               ELSE IF IsEnd(Head(data_fifo)) THEN r.registers.state = "idle" /\ r.sends = "trailer"
               ELSE r.registers.state = c.state /\ r.sends = Head(data_fifo)
  BY DEF SendData, Result, Merger

LEMMA RunSends ==
    ASSUME TypeInv, NEW t \in Merger, t.state \in {merger.state, "idle"}, NEW can_terminate,
           run_state \in InRunStates
    PROVE  DataSent(merger, t, InRun(merger, t, can_terminate))
<1> DEFINE c == [t EXCEPT !.ack_sent = FALSE]
           r == InRun(merger, t, can_terminate)
<1>0. merger.state \in MergerState
  BY DEF TypeInv, DMTypeOK, Merger
<1>1. c \in Merger /\ c.state = t.state
  BY DEF Merger
<1>2. /\ merger.state = "idle" => r = BeginPacket(c, can_terminate)
      /\ merger.state = "wait_for_terminate" => r = Result(c, "comma")
      /\ merger.state = "sending_data" => r = SendData(c)
      /\ merger.state = "sending_slowcontrol" => r = SendSlowcontrol(c)
  BY DEF InRun
<1> HIDE DEF c, r
<1>3. run_state \notin {"IDLE", "PREP", "SYNC"}
  BY DEF InRunStates
<1> SUFFICES DataSent(merger, t, r)
  BY DEF r
<1>4. CASE merger.state = "idle"
  <2>1. /\ r.sends \notin {"start", "data"}
        /\ r.registers.state = "sending_data" => r.sends = "data_header"
    BY <1>1, <1>2, <1>4, BeginSends
  <2> QED
    BY <2>1, <1>3, <1>4 DEF DataSent
<1>5. CASE merger.state = "wait_for_terminate"
  <2>1. r.sends = "comma" /\ r.registers.state = t.state
    BY <1>1, <1>2, <1>5 DEF Result
  <2> QED
    BY <2>1, <1>3, <1>5 DEF DataSent
<1>6. CASE merger.state = "sending_slowcontrol"
  <2>1. r.sends \in {"comma", "sc_word", "trailer"} /\ r.registers.state \in {t.state, "idle"}
    BY <1>1, <1>2, <1>6, SharedSends
  <2> QED
    BY <2>1, <1>3, <1>6 DEF DataSent
<1>7. CASE merger.state = "sending_data"
  <2>1. IF data_fifo = <<>> THEN r.registers.state = t.state /\ r.sends = "comma"
        ELSE IF IsEnd(Head(data_fifo)) THEN r.registers.state = "idle" /\ r.sends = "trailer"
        ELSE r.registers.state = t.state /\ r.sends = Head(data_fifo)
    BY <1>1, <1>2, <1>7, DataSends
  <2> QED
    BY <2>1, <1>3, <1>7 DEF DataSent
<1> QED
  BY <1>0, <1>4, <1>5, <1>6, <1>7 DEF MergerState

LEMMA MergeSends ==
    ASSUME TypeInv, NEW permission, NEW can_terminate
    PROVE  DataSent(merger, AfterTimeout(merger), Merge(permission, can_terminate))
<1> DEFINE t == AfterTimeout(merger)
           r == Merge(permission, can_terminate)
<1>1. t \in Merger /\ t.state \in {merger.state, "idle"}
  BY TimeoutStep DEF TypeInv, DMTypeOK
<1>2. /\ run_state \in {"LINK_TEST", "SYNC_TEST"} => r = InTest(merger, t)
      /\ run_state \in {"SYNC", "RESET"} => r = InSyncOrReset(merger, t)
      /\ run_state \in {"IDLE", "OUT_OF_DAQ"} => r = InIdle(merger, t)
      /\ run_state = "PREP" => r = InPrep(merger, t, permission)
      /\ run_state \in InRunStates => r = InRun(merger, t, can_terminate)
  BY DEF Merge, InRunStates
<1> SUFFICES DataSent(merger, t, r)
  OBVIOUS
<1> HIDE DEF t, r
<1>3. CASE run_state \in InRunStates
  BY <1>1, <1>2, <1>3, RunSends
<1>4. CASE run_state \notin InRunStates
  <2>1. run_state \in Run!RunState
    BY DEF TypeInv, WritersType
  <2>2. /\ r.sends \notin {"start", "data"}
        /\ run_state \in {"IDLE", "PREP", "SYNC"} => r.registers.state # "sending_data"
    <3>1. CASE run_state \in {"LINK_TEST", "SYNC_TEST"}
      BY <3>1, <1>1, <1>2, OutsideSends
    <3>2. CASE run_state \in {"SYNC", "RESET"}
      BY <3>2, <1>1, <1>2, OutsideSends
    <3>3. CASE run_state \in {"IDLE", "OUT_OF_DAQ"}
      BY <3>3, <1>1, <1>2, OutsideSends
    <3>4. CASE run_state = "PREP"
      BY <3>4, <1>1, <1>2, OutsideSends
    <3> QED
      BY <1>4, <2>1, <3>1, <3>2, <3>3, <3>4 DEF InRunStates, Run!RunState
  <2> QED
    BY <1>4, <2>2 DEF DataSent
<1> QED
  BY <1>3, <1>4
-----------------------------------------------------------------------------
(* The pipe takes the word that the check lets through, and loses the one  *)
(* that is sent.                                                           *)
LEMMA PipeStep ==
    ASSUME TypeInv, run_state \in InRunStates, NEW w \in Word \cup {"none"},
           data_fifo' = NextDataFifo, check' = Checked(check, data_fifo, w)
    PROVE  /\ Pipe \in Seq(Word)
           /\ data_fifo # <<>> => Pipe # <<>> /\ Pipe[1] = Head(data_fifo)
           /\ ~Overflows(data_fifo, check) =>
                \E rest \in Seq(Word) :
                   /\ rest = IF merger.state = "sending_data" /\ data_fifo # <<>>
                             THEN Tail(Pipe) ELSE Pipe
                   /\ Pipe' = IF check'.write = "none" THEN rest
                              ELSE Append(rest, check'.write)
                   /\ check'.write \in Word \cup {"none"}
<1> DEFINE rest == IF merger.state = "sending_data" /\ data_fifo # <<>>
                   THEN Tail(Pipe) ELSE Pipe
<1>1. /\ data_fifo \in Seq(Word) /\ check \in Check /\ WritersType
      /\ ReadsData \in BOOLEAN /\ (ReadsData <=> merger.state = "sending_data")
  BY DEF TypeInv, DMTypeOK, ReadsData
<1>2. Pipe \in Seq(Word)
  BY <1>1, FlowEnds DEF Pipe
<1>3. data_fifo # <<>> => Pipe # <<>> /\ Pipe[1] = Head(data_fifo)
  <2>1. HAVE data_fifo # <<>>
  <2>2. Len(data_fifo) >= 1 /\ Len(data_fifo) \in Nat /\ Head(data_fifo) = data_fifo[1]
    BY <1>1, <2>1, EmptySeq
  <2>3. Pipe[1] = data_fifo[1] /\ Len(Pipe) >= 1
    BY <1>1, <2>2, FlowEnds DEF Pipe
  <2> QED
    BY <1>2, <2>2, <2>3, EmptySeq
<1>4. check' \in Check
  BY <1>1, CheckStep
<1>5. rest \in Seq(Word)
  BY <1>2, <1>3
<1>6. ~Overflows(data_fifo, check) => data_fifo' = rest
  <2>1. HAVE ~Overflows(data_fifo, check)
  <2>2. NextFifo(data_fifo, ReadsData, check) =
          IF ReadsData /\ data_fifo # <<>> THEN Tail(Pipe) ELSE Pipe
    BY <1>1, <2>1, FlowStep DEF Pipe
  <2>3. data_fifo' = NextFifo(data_fifo, ReadsData, check)
    BY <1>1, FifoStep DEF InRunStates
  <2> QED
    BY <1>1, <2>2, <2>3
<1>7. Pipe' = IF check'.write = "none" THEN data_fifo' ELSE Append(data_fifo', check'.write)
  BY DEF Pipe, Flow
<1>8. check'.write \in Word \cup {"none"}
  BY <1>4 DEF Check
<1> HIDE DEF rest
<1>9. ASSUME ~Overflows(data_fifo, check)
      PROVE  \E e \in Seq(Word) :
                   /\ e = IF merger.state = "sending_data" /\ data_fifo # <<>>
                             THEN Tail(Pipe) ELSE Pipe
                   /\ Pipe' = IF check'.write = "none" THEN e
                              ELSE Append(e, check'.write)
                   /\ check'.write \in Word \cup {"none"}
  <2>1. rest = IF merger.state = "sending_data" /\ data_fifo # <<>> THEN Tail(Pipe) ELSE Pipe
    BY DEF rest
  <2>2. Pipe' = IF check'.write = "none" THEN rest ELSE Append(rest, check'.write)
    BY <1>6, <1>7, <1>9
  <2> QED
    BY <1>5, <1>8, <2>1, <2>2
<1> QED
  BY <1>2, <1>3, <1>9

(* The writer: what it adds fits to where it is in its packet.             *)
LEMMA WriterStep ==
    ASSUME TypeInv, run_state \in InRunStates, NEW w \in DetectorWrites,
           check' = Checked(check, data_fifo, w), detector' = NextDetector(w)
    PROVE  /\ check'.write # "none" => /\ Starts(check'.write) <=> ~Writing
                                       /\ Opens(check'.write) <=> Writing'
           /\ check'.write = "none" => (Writing' <=> Writing)
<1>1. WritersType
  BY DEF TypeInv
<1>2. /\ w \in {"none", "start", "data", "end", "run_end"}
      /\ w = "start" \/ w = "run_end" => detector.words = 0
      /\ w = "data" \/ w = "end" => detector.words > 0
      /\ w = "none" => detector'.words = detector.words
      /\ w \in {"start", "data"} => detector'.words = detector.words + 1
      /\ w \in {"end", "run_end"} => detector'.words = 0
  BY <1>1, DetectorStep DEF Word
<1>3. detector.words \in Nat
  BY <1>1, SizeAssumption DEF WritersType, DetectorType
<1>4. /\ check'.state \in {"forwarding", "throwing"}
      /\ check'.state = "forwarding" => check'.write = w
      /\ check'.state = "throwing" => check'.write = "none"
      /\ w # "start" => check'.state = check.state
  <2>1. check \in Check /\ data_fifo \in Seq(Word) /\ w \in Word \cup {"none"}
    BY <1>1, DetectorStep DEF WritersType
  <2> QED
    BY <2>1, CheckStep DEF Check
<1>5. CASE check'.state = "throwing"
  BY <1>2, <1>4, <1>5 DEF Writing
<1>6. CASE check'.state = "forwarding"
  BY <1>2, <1>3, <1>4, <1>6 DEF Writing, Opens, Starts
<1> QED
  BY <1>4, <1>5, <1>6

(* The observer counts the words of a packet.                              *)
LEMMA WordsStep ==
    ASSUME TypeInv, NEW word
    PROVE  /\ word \in {"data_header", "sc_header", "trailer"} => NextOpen(word).words = 0
           /\ word \in {"start", "data"} =>
                NextOpen(word).words = IF open.words = 2 THEN 2 ELSE open.words + 1
           /\ word = "comma" => NextOpen(word).words = open.words
           /\ open.words \in 0..2
  BY DEF NextOpen, TypeInv, DMTypeOK

LEMMA PacketStep ==
    ASSUME TypeInv, Packets, InTime, run_state \in InRunStates, Clock
    PROVE  /\ ~Overflows(data_fifo, check) => Packets'
           /\ Intact
<1>0. WritersType
  BY DEF TypeInv
<1>1. PICK permission \in Permissions, can_terminate \in {FALSE, CanTerminate},
           w \in DetectorWrites, s \in ReplierWrites :
        /\ data_fifo' = NextDataFifo /\ check' = Checked(check, data_fifo, w)
        /\ merger' = Merge(permission, can_terminate).registers
        /\ out' = Merge(permission, can_terminate).sends
        /\ open' = NextOpen(out')
        /\ detector' = NextDetector(w)
  BY ClockStep
<1>2. /\ Pipe \in Seq(Word)
      /\ data_fifo # <<>> => Pipe # <<>> /\ Pipe[1] = Head(data_fifo)
      /\ ~Overflows(data_fifo, check) =>
           \E rest \in Seq(Word) :
              /\ rest = IF merger.state = "sending_data" /\ data_fifo # <<>>
                        THEN Tail(Pipe) ELSE Pipe
              /\ Pipe' = IF check'.write = "none" THEN rest ELSE Append(rest, check'.write)
              /\ check'.write \in Word \cup {"none"}
  BY <1>0, <1>1, DetectorStep, PipeStep
<1>3. /\ out' \in {"start", "data"} =>
           merger.state = "sending_data" /\ data_fifo # <<>> /\ out' = Head(data_fifo)
      /\ merger.state # "sending_data" /\ merger'.state = "sending_data" => out' = "data_header"
      /\ merger.state = "sending_data" =>
           IF data_fifo = <<>> THEN merger'.state = "sending_data" /\ out' = "comma"
           ELSE IF IsEnd(Head(data_fifo)) THEN merger'.state = "idle"
           ELSE merger'.state = "sending_data" /\ out' = Head(data_fifo)
  <2>1. DataSent(merger, AfterTimeout(merger), Merge(permission, can_terminate))
    BY MergeSends
  <2>2. merger.state = "sending_data" => AfterTimeout(merger).state = merger.state
    BY TimeoutStep DEF InTime, TypeInv, DMTypeOK
  <2> QED
    BY <1>1, <2>1, <2>2 DEF DataSent
<1>4. /\ out' \in {"data_header", "sc_header", "trailer"} => open'.words = 0
      /\ out' \in {"start", "data"} =>
           open'.words = IF open.words = 2 THEN 2 ELSE open.words + 1
      /\ out' = "comma" => open'.words = open.words
      /\ open.words \in 0..2
  BY <1>1, WordsStep
<1>5. /\ Pipe # <<>> => (Starts(Pipe[1]) <=> ~Inside)
      /\ \A i \in 1..(Len(Pipe) - 1) : Opens(Pipe[i]) <=> ~Starts(Pipe[i + 1])
      /\ Pipe = <<>> => (Inside <=> Writing)
      /\ Pipe # <<>> => (Opens(Pipe[Len(Pipe)]) <=> Writing)
  BY DEF Packets
<1>6. data_fifo # <<>> => Head(data_fifo) \in Word
  BY <1>0 DEF WritersType
<1>7. ASSUME ~Overflows(data_fifo, check) PROVE Packets'
  <2>1. PICK rest \in Seq(Word) :
          /\ rest = IF merger.state = "sending_data" /\ data_fifo # <<>>
                    THEN Tail(Pipe) ELSE Pipe
          /\ Pipe' = IF check'.write = "none" THEN rest ELSE Append(rest, check'.write)
          /\ check'.write \in Word \cup {"none"}
    BY <1>2, <1>7
  <2>2. /\ rest # <<>> => (Starts(rest[1]) <=> ~Inside')
        /\ \A i \in 1..(Len(rest) - 1) : Opens(rest[i]) <=> ~Starts(rest[i + 1])
        /\ rest = <<>> => (Inside' <=> Writing)
        /\ rest # <<>> => (Opens(rest[Len(rest)]) <=> Writing)
    <3>1. CASE merger.state # "sending_data"
      <4>1. rest = Pipe /\ ~Inside /\ ~Inside'
        BY <3>1, <1>2, <2>1, <1>3, <1>4 DEF Inside
      <4> QED
        BY <4>1, <1>5
    <3>2. CASE merger.state = "sending_data" /\ data_fifo = <<>>
      <4>1. rest = Pipe /\ (Inside' <=> Inside)
        BY <3>2, <1>2, <2>1, <1>3, <1>4 DEF Inside
      <4> QED
        BY <4>1, <1>5
    <3>3. CASE merger.state = "sending_data" /\ data_fifo # <<>>
      <4>1. rest = Tail(Pipe) /\ Pipe # <<>> /\ Pipe[1] = Head(data_fifo)
        BY <3>3, <1>2, <2>1
      <4>2. Inside' <=> Opens(Pipe[1])
        <5>1. CASE IsEnd(Pipe[1])
          BY <5>1, <3>3, <4>1, <1>3 DEF Inside, Opens, IsEnd
        <5>2. CASE ~IsEnd(Pipe[1])
          <6>1. Pipe[1] \in {"start", "data"}
            BY <5>2, <3>3, <4>1, <1>6 DEF IsEnd, Word
          <6> QED
            BY <6>1, <5>2, <3>3, <4>1, <1>3, <1>4 DEF Inside, Opens
        <5> QED
          BY <5>1, <5>2
      <4>3. /\ Len(rest) = Len(Pipe) - 1 /\ Len(Pipe) \in Nat \ {0}
            /\ \A i \in 1..Len(rest) : rest[i] = Pipe[i + 1]
        BY <1>2, <2>1, <4>1, HeadTailProperties, EmptySeq, LenProperties
      <4>4. \A i \in 1..(Len(rest) - 1) : Opens(rest[i]) <=> ~Starts(rest[i + 1])
        <5>1. TAKE i \in 1..(Len(rest) - 1)
        <5>2. rest[i] = Pipe[i + 1] /\ rest[i + 1] = Pipe[i + 1 + 1]
          BY <4>3
        <5>3. i + 1 \in 1..(Len(Pipe) - 1)
          BY <4>3
        <5> QED
          BY <5>2, <5>3, <1>5
      <4>5. CASE Len(Pipe) = 1
        <5>1. rest = <<>>
          BY <4>3, <4>5, <1>2, <2>1, EmptySeq
        <5> QED
          BY <5>1, <4>1, <4>2, <4>4, <4>5, <1>5
      <4>6. CASE Len(Pipe) # 1
        <5>1. /\ rest # <<>> /\ 1 \in 1..Len(rest) /\ Len(rest) \in 1..Len(rest)
              /\ 1 \in 1..(Len(Pipe) - 1)
          <6>1. Len(Pipe) > 1 /\ Len(rest) >= 1 /\ Len(rest) \in Nat /\ Len(Pipe) \in Nat
            BY <4>3, <4>6
          <6>2. rest # <<>>
            BY <6>1, EmptySeq
          <6> QED
            BY <6>1, <6>2
        <5>2. rest[1] = Pipe[1 + 1] /\ rest[Len(rest)] = Pipe[Len(Pipe)]
          BY <4>3, <5>1
        <5>3. Starts(rest[1]) <=> ~Inside'
          BY <4>2, <5>1, <5>2, <1>5
        <5> QED
          BY <4>1, <4>4, <5>1, <5>2, <5>3, <1>5
      <4> QED
        BY <4>5, <4>6
    <3> QED
      BY <3>1, <3>2, <3>3
  <2>3. /\ check'.write # "none" => /\ Starts(check'.write) <=> ~Writing
                                    /\ Opens(check'.write) <=> Writing'
        /\ check'.write = "none" => (Writing' <=> Writing)
    BY <1>1, WriterStep
  <2>4. Packets'
    <3>1. CASE check'.write = "none"
      <4>1. Pipe' = rest
        BY <3>1, <1>2, <2>1
      <4> QED
        BY <3>1, <4>1, <2>2, <2>3 DEF Packets
    <3>2. CASE check'.write # "none"
      <4>1. /\ Len(Pipe') = Len(rest) + 1 /\ Len(rest) \in Nat /\ Pipe' # <<>>
            /\ \A i \in 1..Len(rest) : Pipe'[i] = rest[i]
            /\ Pipe'[Len(rest) + 1] = check'.write
        <5>1. Pipe' = Append(rest, check'.write) /\ check'.write \in Word
          BY <3>2, <1>2, <2>1
        <5> QED
          BY <5>1, AppendProperties
      <4>2. CASE rest = <<>>
        <5>1. Len(rest) = 0
          BY <4>2
        <5>2. Starts(Pipe'[1]) <=> ~Inside'
          BY <3>2, <4>1, <4>2, <5>1, <2>2, <2>3
        <5>3. Opens(Pipe'[Len(Pipe')]) <=> Writing'
          BY <3>2, <4>1, <2>3
        <5>4. \A i \in 1..(Len(Pipe') - 1) : Opens(Pipe'[i]) <=> ~Starts(Pipe'[i + 1])
          BY <4>1, <5>1
        <5> QED
          BY <4>1, <5>2, <5>3, <5>4 DEF Packets
      <4>3. CASE rest # <<>>
        <5>1. Len(rest) \in 1..Len(rest) /\ 1 \in 1..Len(rest)
          BY <4>3, <1>2, <2>1, EmptySeq, LenProperties
        <5>2. Starts(Pipe'[1]) <=> ~Inside'
          BY <4>1, <4>3, <5>1, <2>2
        <5>3. Opens(Pipe'[Len(Pipe')]) <=> Writing'
          BY <3>2, <4>1, <2>3
        <5>4. \A i \in 1..(Len(Pipe') - 1) : Opens(Pipe'[i]) <=> ~Starts(Pipe'[i + 1])
          <6>1. TAKE i \in 1..(Len(Pipe') - 1)
          <6>2. i \in 1..Len(rest)
            BY <4>1
          <6>3. CASE i = Len(rest)
            BY <6>2, <6>3, <3>2, <4>1, <4>3, <2>2, <2>3
          <6>4. CASE i # Len(rest)
            <7>1. i \in 1..(Len(rest) - 1) /\ i + 1 \in 1..Len(rest)
              BY <6>2, <6>4, <4>1
            <7> QED
              BY <6>2, <7>1, <4>1, <2>2
          <6> QED
            BY <6>3, <6>4
        <5> QED
          BY <4>1, <5>2, <5>3, <5>4 DEF Packets
      <4> QED
        BY <4>2, <4>3
    <3> QED
      BY <3>1, <3>2
  <2> QED
    BY <2>4
<1>8. Intact
  <2>1. SUFFICES ASSUME out' \in {"start", "data"} PROVE out' = "start" <=> open'.words = 1
    BY DEF Intact
  <2>2. merger.state = "sending_data" /\ out' = Pipe[1] /\ Pipe # <<>>
    BY <2>1, <1>2, <1>3
  <2>3. out' = "start" <=> open.words = 0
    BY <2>1, <2>2, <1>4, <1>5 DEF Inside, Starts
  <2> QED
    BY <2>1, <2>3, <1>4
<1> QED
  BY <1>7, <1>8

LEMMA PacketInit == ASSUME DMInit PROVE PacketInv
  BY TypeInit DEF PacketInv, DMInit, InRunStates, CleanStart

(* A run begins with an empty pipe.                                        *)
LEMMA RunBegins ==
    ASSUME PacketInv, Clock, run_state \notin InRunStates
    PROVE  /\ run_state' \in {"PREP", "SYNC"} => merger'.state # "sending_data"
           /\ run_state' \in InRunStates => Packets'
           /\ out' \notin {"start", "data"}
<1>0. TypeInv /\ WritersType /\ CleanStart
  BY DEF PacketInv, TypeInv
<1>1. PICK permission \in Permissions, can_terminate \in {FALSE, CanTerminate},
           w \in DetectorWrites, s \in ReplierWrites :
        /\ MoveRunState
        /\ data_fifo' = NextDataFifo /\ check' = Checked(check, data_fifo, w)
        /\ merger' = Merge(permission, can_terminate).registers
        /\ out' = Merge(permission, can_terminate).sends
        /\ detector' = NextDetector(w)
  BY ClockStep
<1>2. /\ out' \in {"start", "data"} => run_state \in InRunStates
      /\ run_state \in {"IDLE", "PREP", "SYNC"} => merger'.state # "sending_data"
  BY <1>0, <1>1, MergeSends DEF DataSent
<1>3. /\ run_state' = "PREP" => run_state \in {"IDLE", "PREP"}
      /\ run_state' = "SYNC" => run_state \in {"PREP", "SYNC"}
      /\ run_state' \in InRunStates => run_state = "SYNC"
  BY <1>0, <1>1, MoveEdges DEF InRunStates
<1>4. run_state = "SYNC" => data_fifo' = <<>> /\ check'.write = "none" /\ detector'.words = 0
  <2>1. HAVE run_state = "SYNC"
  <2>2. data_fifo' = <<>> /\ detector'.words = 0 /\ w = "none"
    BY <1>0, <1>1, <2>1, FifoStep, DetectorStep DEF CleanStart, InRunStates
  <2>3. check \in Check /\ data_fifo \in Seq(Word)
    BY <1>0 DEF WritersType
  <2> QED
    BY <1>1, <2>2, <2>3, CheckStep DEF Check
<1>5. run_state = "SYNC" => Packets'
  BY <1>2, <1>4 DEF Packets, Pipe, Flow, Inside, Writing
<1> QED
  BY <1>2, <1>3, <1>5

(* Between a header and its trailer the link carries one packet as the     *)
(* detector wrote it (PacketsIntact): for packets of any length, as long as*)
(* no word of the run was lost and the timeout strikes in no packet.       *)
THEOREM PacketsArriveIntact == DMSpec /\ [][InTime]_vars => PacketsIntact
<1> DEFINE Good == ~lost.data => Intact
<1>1. DMInit => PacketInv
  BY PacketInit
<1>2. ASSUME PacketInv, [DMNext]_vars, [InTime]_vars
      PROVE  PacketInv' /\ [Good]_vars
  <2>1. TypeInv' /\ WritersType /\ TypeInv
    BY <1>2, TypeStep DEF PacketInv, TypeInv
  <2>2. CASE UNCHANGED vars
    BY <2>1, <2>2, <1>2
       DEF PacketInv, vars, CleanStart, Packets, Pipe, Flow, Inside, Writing
  <2>3. CASE ~UNCHANGED vars
    <3>1. Clock /\ InTime
      BY <2>3, <1>2 DEF DMNext
    <3>2. PICK w \in DetectorWrites :
            /\ MoveRunState /\ data_fifo' = NextDataFifo
            /\ check' = Checked(check, data_fifo, w)
            /\ detector' = NextDetector(w) /\ lost' = NextLost
      BY <3>1, ClockStep
    <3>3. CleanStart'
      BY <1>2, <2>1, <3>2, WritersStep DEF PacketInv
    <3>4. CASE run_state \in InRunStates
      <4>1. ~lost.data => Intact /\ (~Overflows(data_fifo, check) => Packets')
        BY <1>2, <3>1, <3>4, PacketStep DEF PacketInv
      <4>2. ~lost'.data => ~lost.data /\ ~Overflows(data_fifo, check)
        BY <2>1, <3>2, <3>4, LostStep DEF InRunStates
      <4>3. run_state' \notin {"PREP", "SYNC"}
        BY <2>1, <3>2, <3>4, MoveEdges DEF InRunStates
      <4> QED
        BY <2>1, <3>3, <4>1, <4>2, <4>3 DEF PacketInv
    <3>5. CASE run_state \notin InRunStates
      <4>1. /\ run_state' \in {"PREP", "SYNC"} => merger'.state # "sending_data"
            /\ run_state' \in InRunStates => Packets'
            /\ out' \notin {"start", "data"}
        BY <1>2, <3>1, <3>5, RunBegins
      <4> QED
        BY <2>1, <3>3, <4>1 DEF PacketInv, Intact
    <3> QED
      BY <3>4, <3>5
  <2> QED
    BY <2>2, <2>3
<1>3. PacketInv /\ [DMNext]_vars /\ [InTime]_vars => PacketInv' /\ [Good]_vars
  BY <1>2
<1> QED
  BY <1>1, <1>3, PTL DEF DMSpec, PacketsIntact
=============================================================================
