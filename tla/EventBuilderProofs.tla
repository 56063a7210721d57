------------------------- MODULE EventBuilderProofs -------------------------
(* What holds of the event builder for every RAM, padding and packet.      *)
EXTENDS EventBuilder, SequenceTheorems, TLAPS

LEMMA WordFacts ==
  /\ Words \in Nat /\ Words > 0 /\ RamBlocks \in Nat /\ RamBlocks > 0
  /\ \A a \in Nat : Wrap(a) \in Addresses
  /\ \A a \in Addresses : BlockOf(a) \in Blocks
  /\ \A b \in Blocks : NextBlock(b) \in Blocks
<1>1. Words \in Nat /\ Words > 0 /\ RamBlocks \in Nat /\ RamBlocks > 0
  BY EventBuilderAssumption DEF Words, Block
<1>2. \A a \in Nat : Wrap(a) \in Addresses
  BY <1>1 DEF Wrap, Addresses
<1>3. \A a \in Addresses : BlockOf(a) \in Blocks
  BY <1>1 DEF Addresses, BlockOf, Blocks, Words, Block
<1>4. \A b \in Blocks : NextBlock(b) \in Blocks
  BY <1>1 DEF NextBlock, Blocks
<1> QED BY <1>1, <1>2, <1>3, <1>4

LEMMA WrapType ==
  ASSUME NEW a \in Addresses, NEW k \in Nat
  PROVE  Wrap(a + k) \in Addresses
<1>1. a + k \in Nat BY WordFacts DEF Addresses
<1> QED BY <1>1, WordFacts

\* The address behind the one before a is a.
LEMMA BackAndForth ==
  ASSUME NEW a \in Addresses
  PROVE  Wrap(Wrap(a + Words - 1) + 1) = a
<1>1. Words \in Nat /\ Words > 0 /\ a \in Nat /\ a < Words
  BY WordFacts DEF Addresses
<1>2. CASE a = 0
  BY <1>1, <1>2 DEF Wrap
<1>3. CASE a > 0
  <2>1. Wrap(a + Words - 1) = a - 1
    BY <1>1, <1>3 DEF Wrap
  <2> QED BY <2>1, <1>1, <1>3 DEF Wrap
<1> QED BY <1>1, <1>2, <1>3

-----------------------------------------------------------------------------
(***************************************************************************)
(* Types.  The writer, the reader and the observer each keep theirs.       *)
(***************************************************************************)
LEMMA WriteTypes ==
  ASSUME EBTypeOK, NEW a \in Addresses, NEW w \in WriterRegisters, Write(a, w)
  PROVE  writer' \in WriterRegisters /\ fifo' = <<>> /\ owner' \in [Blocks -> Blocks]
<1>1. BlockOf(a) \in Blocks /\ BlockOf(writer.start) \in Blocks
  BY WordFacts DEF EBTypeOK, WriterRegisters
<1> QED BY <1>1 DEF Write, EBTypeOK

LEMMA AppendTypes ==
  ASSUME EBTypeOK, NEW error \in BOOLEAN,
         NEW state \in {"header", "bank_data", "set_header_cnt", "set_algin_word",
                        "bank_set_length"},
         AppendWord(state, error)
  PROVE  writer' \in WriterRegisters /\ fifo' = <<>> /\ owner' \in [Blocks -> Blocks]
<1>1. NextAddress \in Addresses
  BY WrapType DEF EBTypeOK, WriterRegisters, NextAddress
<1> DEFINE n == writer.words + 1
<1>2. n \in Nat /\ writer \in WriterRegisters
  BY DEF EBTypeOK, WriterRegisters
<1> DEFINE w == [writer EXCEPT !.state = state, !.add = NextAddress, !.words = n,
                               !.error = error]
<1>3. Write(NextAddress, w)
  BY DEF AppendWord
<1> HIDE DEF n
<1>4. w \in WriterRegisters
  BY <1>1, <1>2 DEF WriterRegisters
<1> HIDE DEF w
<1> QED BY <1>1, <1>3, <1>4, WriteTypes

LEMMA WriterTypes ==
  ASSUME EBTypeOK, WriterStep
  PROVE  /\ writer' \in WriterRegisters /\ owner' \in [Blocks -> Blocks]
         /\ fifo' \in {<<>>} \cup {<<t>> : t \in Tag}
<1>1. /\ writer \in WriterRegisters /\ owner \in [Blocks -> Blocks]
      /\ writer.add \in Addresses /\ writer.start \in Addresses
      /\ writer.next \in Addresses /\ writer.error \in BOOLEAN
  BY DEF EBTypeOK, WriterRegisters
<1>2. CASE Pause
  BY <1>1, <1>2 DEF Pause, WriteNothing
<1>3. CASE StartEvent
  <2>1. NextAddress \in Addresses BY <1>1, WrapType DEF NextAddress
  <2>2. [writer EXCEPT !.state = "header", !.start = NextAddress, !.words = 0]
          \in WriterRegisters
    BY <1>1, <2>1 DEF WriterRegisters
  <2> QED BY <1>1, <1>3, <2>2 DEF StartEvent, WriteNothing
<1>4. CASE WriteHeader
  BY <1>1, <1>4, AppendTypes DEF WriteHeader
<1>5. CASE WriteData
  <2>1. PICK eop \in BOOLEAN, err \in BOOLEAN :
          AppendWord(IF eop THEN "set_header_cnt" ELSE "bank_data", writer.error \/ err)
    BY <1>5 DEF WriteData
  <2>2. (writer.error \/ err) \in BOOLEAN
    BY <1>1
  <2> QED BY <2>1, <2>2, AppendTypes
<1>6. CASE WriteCounters
  BY <1>1, <1>6, AppendTypes DEF WriteCounters
<1>7. CASE Align
  BY <1>1, <1>7, AppendTypes DEF Align
<1>8. CASE SetSizes
  <2>1. \A i \in Nat : HeaderWord(i) \in Addresses
    BY <1>1, WrapType DEF HeaderWord
  <2>2. PICK a \in Addresses, w \in WriterRegisters : Write(a, w)
    <3>1. CASE writer.state = "bank_set_length"
      <4>1. [writer EXCEPT !.state = "event_set_size", !.next = writer.add] \in WriterRegisters
        BY <1>1 DEF WriterRegisters
      <4> QED BY <1>8, <2>1, <3>1, <4>1 DEF SetSizes
    <3>2. CASE writer.state = "event_set_size"
      <4>1. [writer EXCEPT !.state = "bank_set_size"] \in WriterRegisters
        BY <1>1 DEF WriterRegisters
      <4> QED BY <1>8, <2>1, <3>2, <4>1 DEF SetSizes
    <3>3. CASE writer.state = "bank_set_size"
      <4>1. [writer EXCEPT !.state = "write_tagging_fifo"] \in WriterRegisters
        BY <1>1 DEF WriterRegisters
      <4> QED BY <1>8, <2>1, <3>3, <4>1 DEF SetSizes
    <3> QED BY <1>8, <3>1, <3>2, <3>3 DEF SetSizes
  <2> QED BY <2>2, WriteTypes
<1>9. CASE WriteTag
  <2>1. BeforeDummy \in Addresses
    <3>1. Words - 1 \in Nat /\ writer.next + Words - 1 = writer.next + (Words - 1)
      BY <1>1, WordFacts DEF Addresses
    <3> QED BY <1>1, <3>1, WrapType DEF BeforeDummy
  <2>2. [writer EXCEPT !.state = "idle", !.add = BeforeDummy] \in WriterRegisters
    BY <1>1, <2>1 DEF WriterRegisters
  <2>3. [last |-> BlockOf(writer.next), error |-> writer.error,
         start |-> BlockOf(writer.start)] \in Tag
    BY <1>1, WordFacts DEF Tag
  <2> QED BY <1>1, <1>9, <2>2, <2>3 DEF WriteTag
<1> QED BY <1>2, <1>3, <1>4, <1>5, <1>6, <1>7, <1>8, <1>9 DEF WriterStep

\* What may be taken of the disabled DMA's clears: counter, done and written.
LEMMA IdledTypes ==
  ASSUME EBTypeOK
  PROVE  /\ Idled \in ReaderRegisters
         /\ Idled.state = reader.state /\ Idled.add = reader.add
         /\ Idled.tag = reader.tag /\ Idled.pad = reader.pad
BY DEF EBTypeOK, ReaderRegisters, Idled

LEMMA ReaderTypes ==
  ASSUME EBTypeOK, ReaderStep
  PROVE  reader' \in ReaderRegisters
<1>1. /\ reader \in ReaderRegisters /\ Idled \in ReaderRegisters
      /\ NextBlock(reader.add) \in Blocks /\ Idled.add = reader.add
      /\ Idled.tag = reader.tag /\ Idled.pad = reader.pad
  BY IdledTypes, WordFacts DEF EBTypeOK, ReaderRegisters
<1>2. Padding \in Nat /\ Padding > 0 /\ 0 \in 0..(Padding - 1)
  BY EventBuilderAssumption
<1>3. Counted \in Nat
  BY <1>1 DEF Counted, ReaderRegisters
<1> DEFINE add == NextBlock(reader.add)
           counted == Counted
<1>4. add \in Blocks /\ counted \in Nat BY <1>1, <1>3
<1> HIDE DEF add, counted
<1>5. ASSUME NEW r \in ReaderRegisters, TakeEvent(r)
      PROVE  reader' \in ReaderRegisters
  <2>1. Head(tags) \in Tag BY <1>5 DEF EBTypeOK, TakeEvent
  <2>2. [r EXCEPT !.tag = Head(tags), !.add = add] \in ReaderRegisters
    BY <2>1, <1>4 DEF ReaderRegisters
  <2> QED BY <1>5, <2>2 DEF TakeEvent, add
<1>6. CASE Wait
  BY <1>1, <1>6 DEF Wait, Read
<1>7. CASE SendEvent
  <2> DEFINE c == IF FirstEvent THEN request ELSE reader.counter
  <2>1. c \in Nat
    BY <1>1, EventBuilderAssumption DEF EBTypeOK, ReaderRegisters
  <2> DEFINE r == [reader EXCEPT !.state = "get_data", !.written = TRUE, !.counter = c]
  <2>2. TakeEvent(r) BY <1>7 DEF SendEvent
  <2> HIDE DEF c
  <2>3. r \in ReaderRegisters BY <1>1, <2>1 DEF ReaderRegisters
  <2> HIDE DEF r
  <2> QED BY <2>2, <2>3, <1>5
<1>8. CASE SkipEvent
  <2>1. [Idled EXCEPT !.state = "skip_event"] \in ReaderRegisters
    BY <1>1 DEF ReaderRegisters
  <2> QED BY <1>8, <2>1, <1>5 DEF SkipEvent
<1>9. CASE GetData
  <2>1. [Idled EXCEPT !.state = "set_serial_number", !.counter = counted, !.add = add]
          \in ReaderRegisters
    BY <1>1, <1>4 DEF ReaderRegisters
  <2> QED BY <1>9, <2>1 DEF GetData, Read, add, counted
<1>10. CASE SendBlock
  <2>1. [Idled EXCEPT !.state = "runing", !.counter = counted, !.add = add] \in ReaderRegisters
    BY <1>1, <1>4 DEF ReaderRegisters
  <2>2. [Idled EXCEPT !.state = "wait_last_word", !.counter = counted, !.pad = 0]
          \in ReaderRegisters
    BY <1>1, <1>2, <1>4 DEF ReaderRegisters
  <2>3. [Idled EXCEPT !.state = "waiting", !.counter = counted] \in ReaderRegisters
    BY <1>1, <1>4 DEF ReaderRegisters
  <2> QED BY <1>10, <2>1, <2>2, <2>3 DEF SendBlock, Read, add, counted
<1>11. CASE SkipBlock
  <2>1. [Idled EXCEPT !.add = add] \in ReaderRegisters
    BY <1>1, <1>4 DEF ReaderRegisters
  <2>2. [Idled EXCEPT !.state = "waiting"] \in ReaderRegisters
    BY <1>1 DEF ReaderRegisters
  <2> QED BY <1>11, <2>1, <2>2 DEF SkipBlock, Read, add
<1>12. CASE EndOfEvent
  <2>1. [Idled EXCEPT !.state = "write_4kb_padding"] \in ReaderRegisters
    BY <1>1 DEF ReaderRegisters
  <2> QED BY <1>12, <2>1 DEF EndOfEvent, Read
<1>13. CASE Pad
  <2>1. [Idled EXCEPT !.tag.error = FALSE] \in ReaderRegisters
    <3> DEFINE t == [Idled.tag EXCEPT !.error = FALSE]
    <3>1. t \in Tag BY <1>1 DEF ReaderRegisters, Tag
    <3>2. [Idled EXCEPT !.tag.error = FALSE] = [Idled EXCEPT !.tag = t] OBVIOUS
    <3> HIDE DEF t
    <3> QED BY <1>1, <3>1, <3>2 DEF ReaderRegisters
  <2>2. ASSUME reader.pad # Padding - 1
        PROVE  [Idled EXCEPT !.pad = @ + 1] \in ReaderRegisters
    <3> DEFINE n == Idled.pad + 1
    <3>1. n \in 0..(Padding - 1) BY <1>1, <1>2, <2>2 DEF ReaderRegisters
    <3> HIDE DEF n
    <3>2. [Idled EXCEPT !.pad = n] \in ReaderRegisters BY <1>1, <3>1 DEF ReaderRegisters
    <3> QED BY <3>2 DEF n
  <2>3. [Idled EXCEPT !.state = "waiting", !.done = TRUE] \in ReaderRegisters
    BY <1>1 DEF ReaderRegisters
  <2> QED BY <1>13, <2>1, <2>2, <2>3 DEF Pad, Read
<1> QED BY <1>6, <1>7, <1>8, <1>9, <1>10, <1>11, <1>12, <1>13 DEF ReaderStep

\* The tagging FIFO holds tags.
LEMMA FifoType ==
  ASSUME EBTypeOK
  PROVE  fifo \in Seq(Tag) /\ (fifo = <<>> \/ \E t \in Tag : fifo = <<t>>)
<1>1. CASE fifo = <<>> BY <1>1, EmptySeq
<1>2. CASE \E t \in Tag : fifo = <<t>>
  <2>1. PICK t \in Tag : fifo = <<t>> BY <1>2
  <2>2. <<t>> \in Seq(Tag) OBVIOUS
  <2> QED BY <2>1, <2>2
<1> QED BY <1>1, <1>2 DEF EBTypeOK

LEMMA TagTypes ==
  ASSUME EBTypeOK, ReaderStep
  PROVE  tags' \in Seq(Tag)
<1>1. tags \in Seq(Tag) /\ fifo \in Seq(Tag)
  BY FifoType DEF EBTypeOK
<1>2. tags' = tags \o fifo \/ (tags # <<>> /\ tags' = Tail(tags) \o fifo)
  BY DEF ReaderStep, Wait, SendEvent, SkipEvent, GetData, SendBlock, SkipBlock,
         EndOfEvent, Pad, Read, TakeEvent
<1>3. tags # <<>> => Tail(tags) \in Seq(Tag)
  BY <1>1, HeadTailProperties
<1>4. \A q \in Seq(Tag) : q \o fifo \in Seq(Tag)
  BY <1>1, ConcatProperties
<1> QED BY <1>1, <1>2, <1>3, <1>4

LEMMA ObserverTypes ==
  ASSUME EBTypeOK, Observe
  PROVE  buffer' \in [blocks : Nat, clean : BOOLEAN, error : BOOLEAN]
<1> DEFINE n == IF Given THEN buffer.blocks + 1 ELSE buffer.blocks
           e == buffer.error \/ (reader.state = "wait_last_word" /\ reader.tag.error)
           c == reader'.state \in {"waiting", "skip_event"} /\ ~reader'.done
<1>1. n \in Nat /\ buffer \in [blocks : Nat, clean : BOOLEAN, error : BOOLEAN]
  BY DEF EBTypeOK
<1>2. e \in BOOLEAN /\ c \in BOOLEAN
  OBVIOUS
<1>3. buffer' = IF wen THEN [buffer EXCEPT !.blocks = n, !.error = e]
                ELSE [blocks |-> 0, error |-> FALSE, clean |-> c]
  BY DEF Observe
<1> HIDE DEF n, e, c
<1> QED BY <1>1, <1>2, <1>3

\* The registers keep their ranges, for every RAM, padding and packet: the block
\* counter of the reader stops at zero, its padding counter at the end.
THEOREM TypeCorrect == EBSpec => []EBTypeOK
<1>1. EBInit => EBTypeOK
  <2> SUFFICES ASSUME EBInit PROVE EBTypeOK OBVIOUS
  <2>1. Words - 1 \in Addresses /\ 0 \in Addresses /\ 0 \in Blocks /\ RamBlocks - 1 \in Blocks
    BY WordFacts DEF Addresses, Blocks
  <2>2. 0 \in 0..(Padding - 1) BY EventBuilderAssumption
  <2>3. writer \in WriterRegisters BY <2>1 DEF EBInit, WriterRegisters
  <2>4. reader \in ReaderRegisters BY <2>1, <2>2 DEF EBInit, ReaderRegisters, Tag
  <2> QED BY <2>1, <2>3, <2>4 DEF EBInit, EBTypeOK
<1>2. EBTypeOK /\ [EBNext]_vars => EBTypeOK'
  <2> SUFFICES ASSUME EBTypeOK, [EBNext]_vars PROVE EBTypeOK' OBVIOUS
  <2>1. CASE EBNext
    <3>1. wen' \in BOOLEAN /\ request' \in Requests \cup {0}
      BY <2>1 DEF EBNext, Software, Enable, Disable, EBTypeOK
    <3> QED BY <2>1, <3>1, WriterTypes, ReaderTypes, TagTypes, ObserverTypes
            DEF EBNext, Clock, EBTypeOK
  <2>2. CASE UNCHANGED vars
    BY <2>2 DEF vars, EBTypeOK
  <2> QED BY <2>1, <2>2
<1> QED BY <1>1, <1>2, PTL DEF EBSpec

-----------------------------------------------------------------------------
(***************************************************************************)
(* The reader is where the next event starts.  ReaderAligned alone is not  *)
(* inductive: it says nothing of the events behind the first.  They form a *)
(* chain, each starting in the block that the tag before it names, from    *)
(* the event that the reader is at to the one that the writer is at.       *)
(***************************************************************************)
Linked(q, first, last) ==
  /\ q = <<>> => first = last
  /\ q # <<>> => q[1].start = first /\ q[Len(q)].last = last
  /\ \A i \in 1..(Len(q) - 1) : q[i + 1].start = q[i].last

\* The block where the event that the writer is at starts, or will start.
Upcoming == IF writer.state = "idle" THEN BlockOf(NextAddress) ELSE BlockOf(writer.start)
Chain == Linked(tags \o fifo, reader.tag.last, Upcoming)
AtEnd ==
  reader.state \in {"waiting", "wait_last_word", "write_4kb_padding"}
    => NextBlock(reader.add) = reader.tag.last
AlignInv == EBTypeOK /\ Chain /\ AtEnd

LEMMA LinkedAppend ==
  ASSUME NEW q \in Seq(Tag), NEW t \in Tag, NEW first, Linked(q, first, t.start)
  PROVE  Linked(q \o <<t>>, first, t.last)
<1> DEFINE p == q \o <<t>>
<1>1. <<t>> \in Seq(Tag) /\ Len(<<t>>) = 1 /\ <<t>>[1] = t
  OBVIOUS
<1>2. /\ p \in Seq(Tag) /\ Len(p) = Len(q) + 1 /\ Len(q) \in Nat
      /\ \A i \in 1..(Len(q) + 1) : p[i] = IF i <= Len(q) THEN q[i] ELSE <<t>>[i - Len(q)]
  BY <1>1, ConcatProperties, LenProperties
<1>3. /\ \A i \in 1..Len(q) : p[i] = q[i]
      /\ p[Len(q) + 1] = t
      /\ p # <<>> /\ (q = <<>> <=> Len(q) = 0)
  BY <1>1, <1>2, EmptySeq
<1> HIDE DEF p
<1>4. p[1].start = first
  <2>1. CASE q = <<>> BY <2>1, <1>2, <1>3 DEF Linked
  <2>2. CASE q # <<>>
    <3>1. p[1] = q[1] BY <2>2, <1>2, <1>3
    <3> QED BY <3>1, <2>2 DEF Linked
  <2> QED BY <2>1, <2>2
<1>5. ASSUME NEW i \in 1..(Len(p) - 1) PROVE p[i + 1].start = p[i].last
  <2>1. CASE i = Len(q)
    <3>1. p[i] = q[Len(q)] /\ p[i + 1] = t /\ q # <<>> BY <2>1, <1>2, <1>3
    <3> QED BY <3>1 DEF Linked
  <2>2. CASE i # Len(q)
    <3>1. i \in 1..(Len(q) - 1) /\ p[i] = q[i] /\ p[i + 1] = q[i + 1]
      BY <2>2, <1>2, <1>3
    <3> QED BY <3>1 DEF Linked
  <2> QED BY <2>1, <2>2
<1>6. Linked(p, first, t.last)
  BY <1>2, <1>3, <1>4, <1>5 DEF Linked
<1> QED BY <1>6 DEF p

LEMMA LinkedTail ==
  ASSUME NEW q \in Seq(Tag), NEW p \in Seq(Tag), NEW first, NEW last,
         q # <<>>, Len(p) = Len(q) - 1, \A i \in 1..Len(p) : p[i] = q[i + 1],
         Linked(q, first, last)
  PROVE  Linked(p, q[1].last, last)
<1>1. Len(q) \in Nat \ {0} /\ Len(p) \in Nat /\ (p = <<>> <=> Len(p) = 0)
  BY EmptySeq, LenProperties
<1>2. ASSUME p = <<>> PROVE q[1].last = last
  <2>1. Len(q) = 1 BY <1>1, <1>2
  <2> QED BY <2>1 DEF Linked
<1>3. ASSUME p # <<>> PROVE p[1].start = q[1].last /\ p[Len(p)].last = last
  <2>1. /\ 1 \in 1..(Len(q) - 1) /\ 1 \in 1..Len(p) /\ Len(p) \in 1..Len(p)
        /\ Len(p) + 1 = Len(q)
    BY <1>1, <1>3
  <2>2. p[1] = q[1 + 1] /\ p[Len(p)] = q[Len(q)]
    BY <2>1
  <2> QED BY <2>1, <2>2 DEF Linked
<1>4. ASSUME NEW i \in 1..(Len(p) - 1) PROVE p[i + 1].start = p[i].last
  <2>1. i \in 1..Len(p) /\ i + 1 \in 1..Len(p) /\ i + 1 \in 1..(Len(q) - 1)
    BY <1>1
  <2> QED BY <2>1 DEF Linked
<1> QED BY <1>2, <1>3, <1>4 DEF Linked

\* A clock of the writer leaves the upcoming event where it is, or puts it behind
\* the tag that it writes.
LEMMA WriterLinks ==
  ASSUME EBTypeOK, WriterStep
  PROVE  \/ fifo' = <<>> /\ Upcoming' = Upcoming
         \/ \E t \in Tag : fifo' = <<t>> /\ t.start = Upcoming /\ t.last = Upcoming'
<1>1. writer \in WriterRegisters
  BY DEF EBTypeOK
<1>2. CASE Pause
  BY <1>2 DEF Pause, WriteNothing, Upcoming, NextAddress
<1>3. CASE StartEvent
  <2>1. writer'.state = "header" /\ writer'.start = NextAddress /\ fifo' = <<>>
    BY <1>1, <1>3 DEF StartEvent, WriteNothing, WriterRegisters
  <2> QED BY <1>3, <2>1 DEF StartEvent, Upcoming
<1>4. CASE WriteHeader \/ WriteData \/ WriteCounters \/ Align
  <2>1. writer.state # "idle"
    BY <1>4 DEF WriteHeader, WriteData, WriteCounters, Align
  <2>2. PICK state \in {"header", "bank_data", "set_header_cnt", "set_algin_word",
                        "bank_set_length"},
             error \in BOOLEAN :
          AppendWord(state, error)
    <3>1. writer.error \in BOOLEAN BY <1>1 DEF WriterRegisters
    <3>2. CASE WriteHeader BY <3>1, <3>2 DEF WriteHeader
    <3>3. CASE WriteData
      <4>1. PICK eop \in BOOLEAN, err \in BOOLEAN :
              AppendWord(IF eop THEN "set_header_cnt" ELSE "bank_data", writer.error \/ err)
        BY <3>3 DEF WriteData
      <4>2. (writer.error \/ err) \in BOOLEAN BY <3>1
      <4> QED BY <4>1, <4>2
    <3>4. CASE WriteCounters BY <3>1, <3>4 DEF WriteCounters
    <3>5. CASE Align BY <3>1, <3>5 DEF Align
    <3> QED BY <1>4, <3>2, <3>3, <3>4, <3>5
  <2>3. writer'.state = state /\ writer'.start = writer.start /\ fifo' = <<>>
    BY <1>1, <2>2 DEF AppendWord, Write, WriterRegisters
  <2> QED BY <2>1, <2>3 DEF Upcoming
<1>5. CASE SetSizes
  <2>1. /\ writer.state # "idle" /\ writer'.state # "idle"
        /\ writer'.start = writer.start /\ fifo' = <<>>
    BY <1>1, <1>5 DEF SetSizes, Write, WriterRegisters
  <2> QED BY <2>1 DEF Upcoming
<1>6. CASE WriteTag
  <2> DEFINE t == [last |-> BlockOf(writer.next), error |-> writer.error,
                   start |-> BlockOf(writer.start)]
  <2>1. /\ writer.next \in Addresses /\ writer.start \in Addresses
        /\ writer.error \in BOOLEAN
    BY <1>1 DEF WriterRegisters
  <2>2. t \in Tag
    BY <2>1, WordFacts DEF Tag
  <2>3. fifo' = <<t>> /\ t.start = Upcoming
    BY <1>6 DEF WriteTag, Upcoming
  <2>4. writer'.state = "idle" /\ writer'.add = BeforeDummy
    BY <1>1, <1>6 DEF WriteTag, WriterRegisters
  <2>5. Upcoming' = BlockOf(Wrap(BeforeDummy + 1))
    BY <2>4 DEF Upcoming, NextAddress, BlockOf, Wrap, Words
  <2>6. Upcoming' = BlockOf(writer.next)
    BY <2>1, <2>5, BackAndForth DEF BeforeDummy
  <2> QED BY <2>2, <2>3, <2>6
<1> QED BY <1>2, <1>3, <1>4, <1>5, <1>6 DEF WriterStep

\* A clock of the reader takes the first tag, or keeps the one it has; between
\* events it is one block in front of the next.
LEMMA ReaderLinks ==
  ASSUME EBTypeOK, AtEnd, ReaderStep
  PROVE  /\ \/ tags' = tags \o fifo /\ reader'.tag.last = reader.tag.last
            \/ /\ tags # <<>> /\ tags' = Tail(tags) \o fifo
               /\ reader'.tag = Head(tags)
         /\ AtEnd'
<1>1. /\ reader \in ReaderRegisters /\ Idled \in ReaderRegisters
      /\ Idled.state = reader.state /\ Idled.add = reader.add /\ Idled.tag = reader.tag
  BY IdledTypes DEF EBTypeOK
<1>2. ASSUME reader'.state \in {"get_data", "skip_event"}, reader'.tag = Head(tags),
             tags # <<>>, tags' = Tail(tags) \o fifo
      PROVE  /\ tags # <<>> /\ tags' = Tail(tags) \o fifo
             /\ reader'.tag = Head(tags) /\ AtEnd'
  BY <1>2 DEF AtEnd
<1>3. CASE SendEvent
  <2>1. /\ reader'.state = "get_data" /\ reader'.tag = Head(tags)
        /\ tags # <<>> /\ tags' = Tail(tags) \o fifo
    BY <1>1, <1>3 DEF SendEvent, TakeEvent, ReaderRegisters
  <2> QED BY <2>1, <1>2
<1>4. CASE SkipEvent
  <2>1. /\ reader'.state = "skip_event" /\ reader'.tag = Head(tags)
        /\ tags # <<>> /\ tags' = Tail(tags) \o fifo
    BY <1>1, <1>4 DEF SkipEvent, TakeEvent, ReaderRegisters
  <2> QED BY <2>1, <1>2
<1>5. CASE Wait
  BY <1>1, <1>5 DEF Wait, Read, AtEnd, NextBlock
<1>6. CASE GetData
  BY <1>1, <1>6 DEF GetData, Read, AtEnd, ReaderRegisters
<1>7. CASE SendBlock
  BY <1>1, <1>7 DEF SendBlock, Read, AtEnd, AtLast, NextBlock, ReaderRegisters
<1>8. CASE SkipBlock
  BY <1>1, <1>8 DEF SkipBlock, Read, AtEnd, AtLast, NextBlock, ReaderRegisters
<1>9. CASE EndOfEvent
  BY <1>1, <1>9 DEF EndOfEvent, Read, AtEnd, NextBlock, ReaderRegisters
<1>10. CASE Pad
  <2>1. /\ reader'.tag.last = reader.tag.last /\ reader'.add = reader.add
        /\ tags' = tags \o fifo
    <3>1. CASE reader' = [Idled EXCEPT !.tag.error = FALSE]
      <4>1. reader'.tag = [Idled.tag EXCEPT !.error = FALSE] /\ reader'.add = Idled.add
        BY <1>1, <3>1 DEF ReaderRegisters
      <4>2. Idled.tag \in Tag BY <1>1 DEF ReaderRegisters
      <4> QED BY <1>1, <1>10, <4>1, <4>2 DEF Tag, Pad, Read
    <3>2. CASE \/ reader' = [Idled EXCEPT !.pad = @ + 1]
              \/ reader' = [Idled EXCEPT !.state = "waiting", !.done = TRUE]
      BY <1>1, <1>10, <3>2 DEF ReaderRegisters, Pad, Read
    <3> QED BY <1>10, <3>1, <3>2 DEF Pad, Read
  <2> QED BY <1>10, <2>1 DEF Pad, AtEnd, NextBlock
<1> QED BY <1>3, <1>4, <1>5, <1>6, <1>7, <1>8, <1>9, <1>10 DEF ReaderStep

\* The first tag is taken out, the others move up.
LEMMA QueueTail ==
  ASSUME tags \in Seq(Tag), fifo \in Seq(Tag), tags # <<>>,
         NEW p, p = Tail(tags) \o fifo, NEW q, q = tags \o fifo
  PROVE  /\ p \in Seq(Tag) /\ q \in Seq(Tag)
         /\ q # <<>> /\ q[1] = Head(tags) /\ Len(p) = Len(q) - 1
         /\ \A i \in 1..Len(p) : p[i] = q[i + 1]
<1>1. /\ Len(tags) \in Nat \ {0} /\ Len(fifo) \in Nat /\ Tail(tags) \in Seq(Tag)
      /\ Len(Tail(tags)) = Len(tags) - 1
      /\ \A i \in 1..Len(Tail(tags)) : Tail(tags)[i] = tags[i + 1]
  BY HeadTailProperties, EmptySeq, LenProperties
<1>2. /\ q \in Seq(Tag) /\ Len(q) = Len(tags) + Len(fifo)
      /\ \A i \in 1..(Len(tags) + Len(fifo)) :
           q[i] = IF i <= Len(tags) THEN tags[i] ELSE fifo[i - Len(tags)]
  BY ConcatProperties
<1>3. /\ p \in Seq(Tag) /\ Len(p) = Len(tags) - 1 + Len(fifo)
      /\ \A i \in 1..Len(p) :
           p[i] = IF i <= Len(tags) - 1 THEN Tail(tags)[i] ELSE fifo[i - (Len(tags) - 1)]
  BY <1>1, ConcatProperties
<1>4. q[1] = Head(tags) /\ q # <<>> /\ Len(p) = Len(q) - 1
  <2>1. q[1] = tags[1] BY <1>1, <1>2
  <2>2. Head(tags) = tags[1] OBVIOUS
  <2> QED BY <2>1, <2>2, <1>1, <1>2, <1>3, EmptySeq
<1>5. ASSUME NEW i \in 1..Len(p) PROVE p[i] = q[i + 1]
  <2>1. i \in 1..(Len(tags) - 1 + Len(fifo)) /\ i + 1 \in 1..(Len(tags) + Len(fifo))
    BY <1>1, <1>3
  <2>2. CASE i <= Len(tags) - 1
    BY <1>1, <1>2, <1>3, <2>1, <2>2
  <2>3. CASE ~(i <= Len(tags) - 1)
    <3>1. i - (Len(tags) - 1) = i + 1 - Len(tags) BY <1>1
    <3> QED BY <1>1, <1>2, <1>3, <2>1, <2>3, <3>1
  <2> QED BY <2>2, <2>3
<1> QED BY <1>2, <1>3, <1>4, <1>5

LEMMA AlignStep ==
  ASSUME AlignInv, WriterStep, ReaderStep
  PROVE  Chain' /\ AtEnd'
<1>1. /\ tags \in Seq(Tag) /\ fifo \in Seq(Tag) /\ EBTypeOK /\ AtEnd
      /\ Linked(tags \o fifo, reader.tag.last, Upcoming)
  BY FifoType DEF AlignInv, EBTypeOK, Chain
<1> DEFINE q == tags \o fifo
<1>2. q \in Seq(Tag) /\ tags' \in Seq(Tag)
  BY <1>1, ConcatProperties, TagTypes
<1>3. Linked(tags', reader'.tag.last, Upcoming)
  <2>1. CASE tags' = tags \o fifo /\ reader'.tag.last = reader.tag.last
    BY <1>1, <2>1
  <2>2. CASE tags # <<>> /\ tags' = Tail(tags) \o fifo /\ reader'.tag = Head(tags)
    <3>1. /\ tags' \in Seq(Tag) /\ q # <<>> /\ q[1] = Head(tags) /\ Len(tags') = Len(q) - 1
          /\ \A i \in 1..Len(tags') : tags'[i] = q[i + 1]
      BY <1>1, <2>2, QueueTail
    <3> HIDE DEF q
    <3>2. Linked(tags', q[1].last, Upcoming)
      BY <1>1, <1>2, <3>1, LinkedTail DEF q
    <3> QED BY <2>2, <3>1, <3>2
  <2> QED BY <1>1, <2>1, <2>2, ReaderLinks
<1>4. CASE fifo' = <<>> /\ Upcoming' = Upcoming
  <2>1. tags' \o fifo' = tags' BY <1>2, <1>4, ConcatEmptySeq
  <2> QED BY <1>1, <1>3, <1>4, <2>1, ReaderLinks DEF Chain
<1>5. CASE \E t \in Tag : fifo' = <<t>> /\ t.start = Upcoming /\ t.last = Upcoming'
  <2>1. PICK t \in Tag : fifo' = <<t>> /\ t.start = Upcoming /\ t.last = Upcoming'
    BY <1>5
  <2>2. Linked(tags' \o <<t>>, reader'.tag.last, t.last)
    BY <1>2, <1>3, <2>1, LinkedAppend
  <2> QED BY <1>1, <2>1, <2>2, ReaderLinks DEF Chain
<1> QED BY <1>1, <1>4, <1>5, WriterLinks

LEMMA AlignedInv == EBSpec => []AlignInv
<1>1. EBInit => Chain /\ AtEnd
  <2> SUFFICES ASSUME EBInit PROVE Chain /\ AtEnd OBVIOUS
  <2>1. Words \in Nat /\ Words > 0 /\ RamBlocks \in Nat /\ RamBlocks > 0
    BY WordFacts
  <2>2. Wrap(Words - 1 + 1) = 0 /\ NextBlock(RamBlocks - 1) = 0
    BY <2>1 DEF Wrap, NextBlock
  <2>3. Upcoming = 0
    BY <2>2 DEF EBInit, Upcoming, NextAddress, BlockOf, Block
  <2>4. tags \o fifo = <<>>
    BY EmptySeq, ConcatEmptySeq DEF EBInit
  <2>5. Linked(<<>>, 0, 0)
    BY DEF Linked
  <2> QED BY <2>2, <2>3, <2>4, <2>5 DEF EBInit, Chain, AtEnd
<1>2. AlignInv /\ [EBNext]_vars => Chain' /\ AtEnd'
  <2> SUFFICES ASSUME AlignInv, [EBNext]_vars PROVE Chain' /\ AtEnd' OBVIOUS
  <2>1. CASE EBNext BY <2>1, AlignStep DEF EBNext, Clock
  <2>2. CASE UNCHANGED vars
    BY <2>2 DEF AlignInv, vars, Chain, AtEnd, Upcoming, NextAddress
  <2> QED BY <2>1, <2>2
<1> QED BY <1>1, <1>2, TypeCorrect, PTL DEF EBSpec, AlignInv

\* After any number of events, sent, skipped or cut short by the software, the
\* reader is one block in front of the next event in the tagging FIFO.
THEOREM Aligned == EBSpec => []ReaderAligned
<1>1. AlignInv => ReaderAligned
  <2> SUFFICES ASSUME AlignInv, reader.state = "waiting", tags # <<>>
               PROVE  NextBlock(reader.add) = Head(tags).start
    BY DEF ReaderAligned
  <2>1. tags \in Seq(Tag) /\ fifo \in Seq(Tag)
    BY FifoType DEF AlignInv, EBTypeOK
  <2>2. Len(tags) \in Nat \ {0} /\ Len(fifo) \in Nat
    BY <2>1, EmptySeq, LenProperties
  <2>3. Len(tags \o fifo) = Len(tags) + Len(fifo) /\ (tags \o fifo)[1] = tags[1]
    BY <2>1, <2>2, ConcatProperties
  <2>4. tags \o fifo # <<>>
    BY <2>2, <2>3, EmptySeq
  <2>5. tags[1].start = reader.tag.last
    BY <2>3, <2>4 DEF AlignInv, Chain, Linked
  <2>6. Head(tags) = tags[1] BY <2>1
  <2> QED BY <2>5, <2>6 DEF AlignInv, AtEnd
<1> QED BY <1>1, AlignedInv, PTL

-----------------------------------------------------------------------------
(***************************************************************************)
(* How much a buffer takes.  Every tag names an event of two blocks at     *)
(* least and MaxBlocks at most (ProperTags), because the writer keeps its  *)
(* address and its word count together (WriterPlace); the reader is inside *)
(* the event that it sends (ReaderPlace); and blocks that were sent and    *)
(* blocks that are still to come add up to what was asked for, as long as  *)
(* the counter has not stopped (Budget).                                   *)
(***************************************************************************)
Offset(first, b) == (b + RamBlocks - first) % RamBlocks
Proper(t) == Offset(t.start, t.last) \in 2..MaxBlocks
Aligned8(a) == a = Block * BlockOf(a)
Appending == {"header", "bank_data", "set_header_cnt", "set_algin_word"}

\* The addresses and the word count of the writer's registers w.
PlaceOf(w) ==
  /\ Aligned8(w.start)
  /\ w.state = "idle" => Aligned8(Wrap(w.add + 1))
  /\ w.state \in Appending => Wrap(w.add + 1) = Wrap(w.start + w.words)
  /\ w.state = "header" => w.words < Header
  /\ w.state = "bank_data" => w.words \in Header..(Header + MaxData - 1)
  /\ w.state = "set_header_cnt" => w.words \in (Header + 2)..(Header + MaxData)
  /\ w.state = "set_algin_word" => w.words \in (Header + 3)..(Block * MaxBlocks)
  /\ w.state \notin Appending \cup {"idle"} =>
       \E m \in 2..MaxBlocks :
         /\ w.words = Block * m + 1
         /\ Wrap(w.start + Block * m) = IF w.state = "bank_set_length" THEN w.add ELSE w.next
WriterPlace == PlaceOf(writer)

ProperTags ==
  /\ fifo # <<>> => Proper(fifo[1])
  /\ \A i \in 1..Len(tags) : Proper(tags[i])

Place == Offset(reader.tag.start, reader.add)
Engaged == Sends \/ reader.state = "skip_event"
ReaderPlace ==
  Engaged => /\ Proper(reader.tag)
             /\ Place < Offset(reader.tag.start, reader.tag.last)
             /\ reader.state = "get_data" => Place = 0

Between == reader.state \in {"waiting", "skip_event"}

\* Since the DMA was enabled, nothing was sent.
Untouched ==
  /\ ~reader.written /\ Between /\ ~reader.done
  /\ buffer.blocks = 0 /\ ~buffer.error

\* A buffer into which events were sent; n blocks of its padding are out.
Ended(n) ==
  /\ buffer.blocks <= request + MaxBlocks + n
  /\ buffer.error \/ buffer.blocks > request + n
Budget ==
  /\ reader.written
  /\ reader.done => Between /\ Ended(Padding)
  /\ Between /\ ~reader.done => buffer.blocks + reader.counter = request
  /\ Sends => /\ reader.counter > 0 => buffer.blocks + reader.counter = request
              /\ reader.counter = 0 => buffer.blocks \in request..(request + Place)
  /\ reader.state = "wait_last_word" =>
       /\ reader.pad = 0 /\ buffer.blocks <= request + MaxBlocks
       /\ reader.tag.error \/ buffer.blocks > request
  /\ reader.state = "write_4kb_padding" => Ended(reader.pad)

BufferInv == buffer.clean => Untouched \/ Budget

LEMMA RamFacts ==
  /\ RamBlocks \in Nat /\ MaxBlocks \in Nat /\ MaxData \in Nat /\ MaxData > 1
  /\ MaxBlocks >= 2 /\ 2 * MaxBlocks < RamBlocks /\ Words = 8 * RamBlocks
  /\ Header + MaxData + 1 <= 8 * MaxBlocks
  /\ Padding \in Nat /\ Padding > 0
<1>1. RamBlocks \in Nat /\ MaxData \in Nat /\ MaxData > 1 /\ Padding \in Nat /\ Padding > 0
  BY EventBuilderAssumption
<1>2. MaxBlocks \in Nat /\ MaxBlocks >= 2 /\ Header + MaxData + 1 <= 8 * MaxBlocks
  BY <1>1 DEF MaxBlocks, Header, Block
<1> QED BY <1>1, <1>2, EventBuilderAssumption DEF Words, Block

LEMMA WrapCases ==
  \A a \in Nat : a < 2 * Words => Wrap(a) = IF a < Words THEN a ELSE a - Words
  BY WordFacts DEF Wrap

LEMMA OffsetCases ==
  ASSUME NEW first \in Blocks, NEW b \in Blocks
  PROVE  Offset(first, b) = IF b >= first THEN b - first ELSE b + RamBlocks - first
  BY WordFacts DEF Offset, Blocks

LEMMA NextBlockCases ==
  ASSUME NEW b \in Blocks
  PROVE  NextBlock(b) = IF b = RamBlocks - 1 THEN 0 ELSE b + 1
  BY WordFacts DEF NextBlock, Blocks

\* A block further is a block further from the first.
LEMMA OffsetNext ==
  ASSUME NEW first \in Blocks, NEW b \in Blocks
  PROVE  /\ Offset(first, b) \in 0..(RamBlocks - 1) /\ Offset(first, first) = 0
         /\ Offset(first, b) + 1 < RamBlocks =>
              Offset(first, NextBlock(b)) = Offset(first, b) + 1
<1>1. NextBlock(b) \in Blocks BY WordFacts
<1>2. RamBlocks \in Nat /\ first \in 0..(RamBlocks - 1) /\ b \in 0..(RamBlocks - 1)
  BY WordFacts DEF Blocks
<1> QED BY <1>1, <1>2, OffsetCases, NextBlockCases

LEMMA AlignedBlock ==
  ASSUME NEW a \in Addresses, Aligned8(a), NEW m \in Nat, m < RamBlocks
  PROVE  /\ Offset(BlockOf(a), BlockOf(Wrap(a + Block * m))) = m
         /\ Aligned8(Wrap(a + Block * m))
<1> DEFINE s == BlockOf(a)
           w == Wrap(a + Block * m)
<1>1. s \in Blocks /\ a = 8 * s /\ RamBlocks \in Nat /\ Words = 8 * RamBlocks /\ s < RamBlocks
      /\ s \in Nat
  BY WordFacts, RamFacts DEF Aligned8, Block, Blocks
<1>2. w = IF s + m < RamBlocks THEN 8 * (s + m) ELSE 8 * (s + m - RamBlocks)
  <2>1. a + Block * m = 8 * (s + m) /\ 8 * (s + m) \in Nat /\ 8 * (s + m) < 2 * Words
    BY <1>1 DEF Block
  <2> QED BY <1>1, <2>1, WrapCases
<1> DEFINE e == IF s + m < RamBlocks THEN s + m ELSE s + m - RamBlocks
<1>3. e \in Blocks /\ w = 8 * e
  BY <1>1, <1>2 DEF Blocks
<1>4. BlockOf(w) = e
  <2>1. \A x \in Nat : (8 * x) \div 8 = x OBVIOUS
  <2> QED BY <1>3, <2>1 DEF BlockOf, Block, Blocks
<1>5. Offset(s, e) = m
  BY <1>1, <1>3, OffsetCases DEF Blocks
<1> QED BY <1>3, <1>4, <1>5 DEF Aligned8, Block

LEMMA AppendPlace ==
  ASSUME EBTypeOK, WriterPlace, writer.state \in Appending, writer.words <= Block * MaxBlocks,
         NEW state, NEW error, AppendWord(state, error)
  PROVE  /\ writer'.state = state /\ writer'.words = writer.words + 1
         /\ writer'.start = writer.start /\ fifo' = <<>>
         /\ writer'.add = Wrap(writer.start + writer.words)
         /\ Wrap(writer'.add + 1) = Wrap(writer'.start + writer'.words)
<1>1. /\ writer \in WriterRegisters /\ writer.start \in Addresses /\ writer.words \in Nat
      /\ NextAddress = Wrap(writer.start + writer.words)
  BY DEF EBTypeOK, WriterRegisters, WriterPlace, PlaceOf, NextAddress
<1>2. /\ writer'.state = state /\ writer'.words = writer.words + 1
      /\ writer'.start = writer.start /\ fifo' = <<>> /\ writer'.add = NextAddress
  BY <1>1 DEF AppendWord, Write, WriterRegisters
<1>3. Wrap(Wrap(writer.start + writer.words) + 1) = Wrap(writer.start + (writer.words + 1))
  <2> DEFINE a == writer.start
             n == writer.words
  <2>1. a \in Nat /\ a < Words /\ n \in Nat /\ n + 1 < Words /\ Words \in Nat
    BY <1>1, RamFacts DEF Addresses, Block
  <2> HIDE DEF a, n
  <2>2. /\ Wrap(a + n) = IF a + n < Words THEN a + n ELSE a + n - Words
        /\ Wrap(a + (n + 1)) = IF a + (n + 1) < Words THEN a + (n + 1) ELSE a + (n + 1) - Words
    BY <2>1, WrapCases
  <2>3. PICK b \in Nat : b = Wrap(a + n) /\ b + 1 < 2 * Words
    BY <2>1, <2>2
  <2>4. Wrap(b + 1) = IF b + 1 < Words THEN b + 1 ELSE b + 1 - Words
    BY <2>1, <2>3, WrapCases
  <2>5. Wrap(b + 1) = Wrap(a + (n + 1))
    BY <2>1, <2>2, <2>3, <2>4
  <2> QED BY <2>3, <2>5 DEF a, n
<1> QED BY <1>1, <1>2, <1>3

\* A clock of the writer, and the tag that it may leave.
LEMMA WriterPlaceStep ==
  ASSUME EBTypeOK, WriterPlace, WriterStep
  PROVE  WriterPlace' /\ (fifo' # <<>> => Proper(fifo'[1]))
<1>1. /\ writer \in WriterRegisters /\ writer.start \in Addresses /\ writer.add \in Addresses
      /\ writer.next \in Addresses /\ writer.words \in Nat /\ writer.error \in BOOLEAN
  BY DEF EBTypeOK, WriterRegisters
<1>2. /\ MaxBlocks \in Nat /\ MaxData \in Nat /\ Block * MaxBlocks = 8 * MaxBlocks
      /\ Header + MaxData + 1 <= 8 * MaxBlocks
  BY RamFacts DEF Block
<1> SUFFICES PlaceOf(writer') /\ (fifo' # <<>> => Proper(fifo'[1]))
  BY DEF WriterPlace
<1>3. CASE Pause
  <2>1. writer' = writer /\ fifo' = <<>> BY <1>3 DEF Pause, WriteNothing
  <2> QED BY <2>1 DEF WriterPlace
<1>4. CASE StartEvent
  <2>1. /\ writer'.state = "header" /\ writer'.start = NextAddress /\ writer'.words = 0
        /\ writer'.add = writer.add /\ fifo' = <<>> /\ Aligned8(NextAddress)
        /\ NextAddress \in Addresses
    BY <1>1, <1>4, WrapType
    DEF StartEvent, WriteNothing, WriterRegisters, WriterPlace, PlaceOf, NextAddress
  <2>2. Wrap(NextAddress + 0) = NextAddress
    BY <2>1, WrapCases, WordFacts DEF Addresses
  <2> QED BY <2>1, <2>2 DEF PlaceOf, Appending, Header, NextAddress
<1>5. CASE WriteHeader
  <2> DEFINE st == IF writer.words + 1 = Header THEN "bank_data" ELSE "header"
  <2>1. AppendWord(st, writer.error) /\ writer.state = "header" BY <1>5 DEF WriteHeader
  <2>2. writer.words < Header BY <2>1 DEF WriterPlace, PlaceOf
  <2>3. writer.words <= Block * MaxBlocks BY <1>1, <1>2, <2>2 DEF Header
  <2>4. /\ writer'.state = st /\ writer'.words = writer.words + 1
        /\ writer'.start = writer.start /\ fifo' = <<>>
        /\ Wrap(writer'.add + 1) = Wrap(writer'.start + writer'.words)
    BY <2>1, <2>3, AppendPlace DEF Appending
  <2>5. Aligned8(writer'.start) BY <2>4 DEF WriterPlace, PlaceOf
  <2>6. CASE writer.words + 1 = Header
    <3>1. writer'.state = "bank_data" /\ writer'.words = Header BY <2>4, <2>6
    <3>2. Header \in Header..(Header + MaxData - 1) BY <1>2, EventBuilderAssumption DEF Header
    <3> QED BY <2>4, <2>5, <3>1, <3>2 DEF PlaceOf, Appending
  <2>7. CASE writer.words + 1 # Header
    <3>1. writer'.state = "header" /\ writer'.words < Header
      BY <1>1, <2>2, <2>4, <2>7 DEF Header
    <3> QED BY <2>4, <2>5, <3>1 DEF PlaceOf, Appending
  <2> QED BY <2>6, <2>7
<1>6. CASE WriteData
  <2>1. PICK eop \in BOOLEAN, err \in BOOLEAN :
          /\ IF eop THEN writer.words > Header ELSE writer.words < Header + MaxData - 1
          /\ AppendWord(IF eop THEN "set_header_cnt" ELSE "bank_data", writer.error \/ err)
    BY <1>6 DEF WriteData
  <2>2. writer.state = "bank_data" /\ writer.words \in Header..(Header + MaxData - 1)
    BY <1>6 DEF WriteData, WriterPlace, PlaceOf
  <2>3. writer.words <= Block * MaxBlocks BY <1>1, <1>2, <2>2 DEF Header
  <2>4. /\ writer'.state = (IF eop THEN "set_header_cnt" ELSE "bank_data")
        /\ writer'.words = writer.words + 1
        /\ writer'.start = writer.start /\ fifo' = <<>>
        /\ Wrap(writer'.add + 1) = Wrap(writer'.start + writer'.words)
    BY <2>1, <2>2, <2>3, AppendPlace DEF Appending
  <2> QED BY <1>1, <1>2, <2>1, <2>2, <2>4 DEF WriterPlace, PlaceOf, Appending, Header
<1>7. CASE WriteCounters
  <2>1. /\ AppendWord("set_algin_word", writer.error) /\ writer.state = "set_header_cnt"
        /\ writer.words \in (Header + 2)..(Header + MaxData)
    BY <1>7 DEF WriteCounters, WriterPlace, PlaceOf
  <2>2. writer.words <= Block * MaxBlocks BY <1>1, <1>2, <2>1 DEF Header
  <2>3. /\ writer'.state = "set_algin_word" /\ writer'.words = writer.words + 1
        /\ writer'.start = writer.start /\ fifo' = <<>>
        /\ Wrap(writer'.add + 1) = Wrap(writer'.start + writer'.words)
    BY <2>1, <2>2, AppendPlace DEF Appending
  <2> QED BY <1>1, <1>2, <2>1, <2>3 DEF WriterPlace, PlaceOf, Appending, Header
<1>8. CASE Align
  <2> DEFINE st == IF AlignDone THEN "bank_set_length" ELSE "set_algin_word"
  <2>1. /\ AppendWord(st, writer.error) /\ writer.state = "set_algin_word"
        /\ writer.words \in (Header + 3)..(Block * MaxBlocks)
    BY <1>8 DEF Align, WriterPlace, PlaceOf
  <2>2. writer.words <= Block * MaxBlocks BY <1>1, <1>2, <2>1
  <2>3. /\ writer'.state = st /\ writer'.words = writer.words + 1
        /\ writer'.start = writer.start /\ fifo' = <<>>
        /\ writer'.add = Wrap(writer.start + writer.words)
        /\ Wrap(writer'.add + 1) = Wrap(writer'.start + writer'.words)
    BY <2>1, <2>2, AppendPlace DEF Appending
  <2>4. CASE AlignDone
    <3>1. PICK m \in 2..MaxBlocks : writer.words = Block * m
      <4>1. writer.words % 8 = 0 /\ writer.words >= 13 /\ writer.words <= 8 * MaxBlocks
        BY <1>1, <1>2, <2>1, <2>4 DEF AlignDone, Block, Header
      <4>2. writer.words = 8 * (writer.words \div 8) /\ writer.words \div 8 \in Nat
        BY <1>1, <4>1
      <4>3. writer.words \div 8 \in 2..MaxBlocks
        BY <1>1, <1>2, <4>1, <4>2
      <4> QED BY <4>2, <4>3 DEF Block
    <3> QED BY <2>3, <2>4, <3>1 DEF WriterPlace, PlaceOf, Appending
  <2>5. CASE ~AlignDone
    <3>1. writer.words # 8 * MaxBlocks
      BY <1>2, <2>5 DEF AlignDone, Block
    <3>2. writer.words + 1 \in (Header + 3)..(Block * MaxBlocks)
      BY <1>1, <1>2, <2>1, <3>1 DEF Header
    <3> QED BY <2>3, <2>5, <3>2 DEF WriterPlace, PlaceOf, Appending
  <2> QED BY <2>4, <2>5
<1>9. CASE SetSizes
  <2>1. /\ writer'.start = writer.start /\ fifo' = <<>>
        /\ writer'.state \in {"event_set_size", "bank_set_size", "write_tagging_fifo"}
        /\ writer'.next = IF writer.state = "bank_set_length" THEN writer.add ELSE writer.next
        /\ writer'.words = writer.words
        /\ writer.state \notin Appending \cup {"idle"}
    BY <1>1, <1>9 DEF SetSizes, Write, WriterRegisters, Appending
  <2> QED BY <2>1 DEF WriterPlace, PlaceOf, Appending
<1>10. CASE WriteTag
  <2>1. PICK m \in 2..MaxBlocks : Wrap(writer.start + Block * m) = writer.next
    BY <1>10 DEF WriteTag, WriterPlace, PlaceOf, Appending
  <2>2. m \in Nat /\ m < RamBlocks
    BY <2>1, RamFacts
  <2>3. /\ Offset(BlockOf(writer.start), BlockOf(writer.next)) = m
        /\ Aligned8(writer.next) /\ Aligned8(writer.start)
    BY <1>1, <2>1, <2>2, AlignedBlock DEF WriterPlace, PlaceOf
  <2>4. /\ writer'.state = "idle" /\ writer'.add = BeforeDummy /\ writer'.start = writer.start
        /\ fifo' = <<[last |-> BlockOf(writer.next), error |-> writer.error,
                      start |-> BlockOf(writer.start)]>>
    BY <1>1, <1>10 DEF WriteTag, WriterRegisters
  <2>5. Wrap(writer'.add + 1) = writer.next
    BY <1>1, <2>4, BackAndForth DEF BeforeDummy
  <2>6. Proper(fifo'[1])
    BY <2>1, <2>3, <2>4 DEF Proper
  <2> QED BY <2>3, <2>4, <2>5, <2>6 DEF PlaceOf, Appending
<1> QED BY <1>3, <1>4, <1>5, <1>6, <1>7, <1>8, <1>9, <1>10 DEF WriterStep

-----------------------------------------------------------------------------
LEMMA ProperTagsStep ==
  ASSUME EBTypeOK, ProperTags, WriterPlace, WriterStep, ReaderStep
  PROVE  ProperTags'
<1>1. tags \in Seq(Tag) /\ fifo \in Seq(Tag) /\ Len(fifo) \in 0..1 /\ (Len(fifo) = 1 => fifo # <<>>)
  <2>1. CASE fifo = <<>> BY <2>1, FifoType DEF EBTypeOK
  <2>2. CASE \E t \in Tag : fifo = <<t>>
    <3>1. PICK t \in Tag : fifo = <<t>> BY <2>2
    <3>2. Len(<<t>>) = 1 /\ <<t>> # <<>> OBVIOUS
    <3> QED BY <3>1, <3>2, FifoType DEF EBTypeOK
  <2> QED BY <2>1, <2>2, FifoType
<1>2. ASSUME NEW q \in Seq(Tag), \A i \in 1..Len(q) : Proper(q[i])
      PROVE  \A i \in 1..Len(q \o fifo) : Proper((q \o fifo)[i])
  <2>1. /\ Len(q \o fifo) = Len(q) + Len(fifo) /\ Len(q) \in Nat
        /\ \A i \in 1..(Len(q) + Len(fifo)) :
             (q \o fifo)[i] = IF i <= Len(q) THEN q[i] ELSE fifo[i - Len(q)]
    BY <1>1, ConcatProperties
  <2>2. TAKE i \in 1..Len(q \o fifo)
  <2>3. CASE i <= Len(q) BY <1>2, <2>1, <2>3
  <2>4. CASE ~(i <= Len(q))
    <3>1. i - Len(q) = 1 /\ fifo # <<>> BY <1>1, <2>1, <2>4
    <3> QED BY <2>1, <2>4, <3>1 DEF ProperTags
  <2> QED BY <2>3, <2>4
<1>3. tags' = tags \o fifo \/ (tags # <<>> /\ tags' = Tail(tags) \o fifo)
  BY DEF ReaderStep, Wait, SendEvent, SkipEvent, GetData, SendBlock, SkipBlock,
         EndOfEvent, Pad, Read, TakeEvent
<1>4. tags # <<>> => /\ Tail(tags) \in Seq(Tag)
                     /\ \A i \in 1..Len(Tail(tags)) : Proper(Tail(tags)[i])
  <2>1. HAVE tags # <<>>
  <2>2. /\ Tail(tags) \in Seq(Tag) /\ Len(Tail(tags)) = Len(tags) - 1 /\ Len(tags) \in Nat
        /\ \A i \in 1..Len(Tail(tags)) : Tail(tags)[i] = tags[i + 1]
    BY <1>1, <2>1, HeadTailProperties, LenProperties
  <2>3. \A i \in 1..Len(Tail(tags)) : i + 1 \in 1..Len(tags) BY <2>2
  <2> QED BY <2>2, <2>3 DEF ProperTags
<1>5. \A i \in 1..Len(tags') : Proper(tags'[i])
  BY <1>1, <1>2, <1>3, <1>4 DEF ProperTags
<1> QED BY <1>5, WriterPlaceStep DEF ProperTags

\* The reader takes the event that it stands in front of, and stops at its last
\* block, since it meets every block between.
LEMMA ReaderPlaceStep ==
  ASSUME AlignInv, ReaderAligned, ProperTags, ReaderPlace, ReaderStep
  PROVE  /\ ReaderPlace'
         /\ GetData \/ ((SendBlock \/ SkipBlock) /\ ~AtLast) => Place' = Place + 1
         /\ reader.state = "waiting" /\ Engaged' => Place' = 0
<1>1. /\ reader \in ReaderRegisters /\ Idled \in ReaderRegisters
      /\ Idled.state = reader.state /\ Idled.add = reader.add /\ Idled.tag = reader.tag
      /\ tags \in Seq(Tag)
  BY IdledTypes DEF EBTypeOK, AlignInv
<1>2. /\ reader.add \in Blocks /\ reader.tag.start \in Blocks /\ reader.tag.last \in Blocks
      /\ reader.tag \in Tag /\ NextBlock(reader.add) \in Blocks
  BY <1>1, WordFacts DEF ReaderRegisters, Tag
<1>3. RamBlocks \in Nat /\ MaxBlocks \in Nat /\ MaxBlocks < RamBlocks
  BY RamFacts
<1>4. CASE SendEvent \/ SkipEvent
  <2>1. /\ reader'.state \in {"get_data", "skip_event"} /\ reader'.tag = Head(tags)
        /\ reader'.add = NextBlock(reader.add) /\ tags # <<>> /\ reader.state = "waiting"
    BY <1>1, <1>4 DEF SendEvent, SkipEvent, TakeEvent, ReaderRegisters
  <2>2. Head(tags) = tags[1] /\ 1 \in 1..Len(tags) /\ Head(tags) \in Tag
    BY <1>1, <2>1, EmptySeq, LenProperties
  <2>3. reader'.add = reader'.tag.start /\ Proper(reader'.tag) /\ reader'.tag.start \in Blocks
    BY <2>1, <2>2 DEF ReaderAligned, ProperTags, Tag
  <2>4. Offset(reader'.tag.start, reader'.add) = 0
    BY <2>3, OffsetNext
  <2>5. Offset(reader'.tag.start, reader'.tag.last) > 0
    BY <2>3, <1>3 DEF Proper
  <2>6. Place' = 0 BY <2>4 DEF Place
  <2> QED BY <1>4, <2>1, <2>3, <2>5, <2>6
          DEF ReaderPlace, Place, GetData, SendBlock, SkipBlock
<1>5. ASSUME Engaged, NextBlock(reader.add) # reader.tag.last \/ reader.state = "get_data",
             reader'.add = NextBlock(reader.add), reader'.tag = reader.tag,
             reader'.state # "get_data"
      PROVE  ReaderPlace' /\ Place' = Place + 1
  <2>1. /\ Proper(reader.tag) /\ Place < Offset(reader.tag.start, reader.tag.last)
        /\ reader.state = "get_data" => Place = 0
        /\ Offset(reader.tag.start, reader.tag.last) \in 2..MaxBlocks
    BY <1>5 DEF ReaderPlace, Proper
  <2>2. Place \in Nat /\ Place + 1 < RamBlocks
    BY <1>2, <1>3, <2>1, OffsetNext DEF Place
  <2>3. Offset(reader.tag.start, NextBlock(reader.add)) = Place + 1
    BY <1>2, <2>2, OffsetNext DEF Place
  <2>4. Place + 1 # Offset(reader.tag.start, reader.tag.last)
    <3>1. CASE reader.state = "get_data" BY <2>1, <3>1
    <3>2. CASE NextBlock(reader.add) # reader.tag.last
      <4>1. reader.tag.start \in 0..(RamBlocks - 1) /\ reader.tag.last \in 0..(RamBlocks - 1)
            /\ NextBlock(reader.add) \in 0..(RamBlocks - 1)
        BY <1>2 DEF Blocks
      <4>2. Offset(reader.tag.start, NextBlock(reader.add))
              # Offset(reader.tag.start, reader.tag.last)
        BY <1>2, <1>3, <3>2, <4>1, OffsetCases
      <4> QED BY <2>3, <4>2
    <3> QED BY <1>5, <3>1, <3>2
  <2>5. Place + 1 < Offset(reader.tag.start, reader.tag.last)
    BY <2>1, <2>2, <2>4, <1>3
  <2>6. Place' = Place + 1
    BY <1>5, <2>3 DEF Place
  <2> QED BY <1>5, <2>1, <2>5, <2>6 DEF ReaderPlace
<1>6. CASE GetData
  <2>1. /\ reader.state = "get_data" /\ reader'.state = "set_serial_number"
        /\ reader'.add = NextBlock(reader.add) /\ reader'.tag = reader.tag
    BY <1>1, <1>6 DEF GetData, Read, ReaderRegisters
  <2> QED BY <1>5, <2>1 DEF Engaged, Sends
<1>7. CASE (SendBlock \/ SkipBlock) /\ ~AtLast
  <2>1. /\ Engaged /\ reader'.state \in {"runing", "skip_event"} /\ reader.state # "waiting"
        /\ reader'.add = NextBlock(reader.add) /\ reader'.tag = reader.tag
    BY <1>1, <1>7 DEF SendBlock, SkipBlock, Read, ReaderRegisters, Engaged, Sends
  <2> QED BY <1>5, <1>7, <2>1 DEF AtLast
<1>8. CASE Wait \/ ((SendBlock \/ SkipBlock) /\ AtLast) \/ EndOfEvent \/ Pad
  <2>1. reader'.state \in {"waiting", "wait_last_word", "write_4kb_padding"}
    BY <1>1, <1>8 DEF Wait, SendBlock, SkipBlock, EndOfEvent, Pad, Read, ReaderRegisters
  <2>2. ~GetData
    BY <1>8 DEF GetData, Wait, SendBlock, SkipBlock, EndOfEvent, Pad
  <2>3. ~((SendBlock \/ SkipBlock) /\ ~AtLast)
    BY <1>8 DEF GetData, Wait, SendBlock, SkipBlock, EndOfEvent, Pad
  <2> QED BY <2>1, <2>2, <2>3 DEF ReaderPlace, Engaged, Sends
<1> QED BY <1>4, <1>6, <1>7, <1>8 DEF ReaderStep

-----------------------------------------------------------------------------
\* Without the DMA the observer starts again, with nothing sent.
LEMMA IdleBudget ==
  ASSUME EBTypeOK, ReaderStep, Observe, ~wen
  PROVE  BufferInv'
<1>1. buffer' = [blocks |-> 0, error |-> FALSE,
                 clean |-> reader'.state \in {"waiting", "skip_event"} /\ ~reader'.done]
  BY DEF Observe
<1>2. ~reader'.written
  <2>1. /\ reader \in ReaderRegisters
        /\ Idled = [reader EXCEPT !.counter = 0, !.done = FALSE, !.written = FALSE]
    BY DEF EBTypeOK, Idled
  <2>2. Idled.written = FALSE /\ Idled \in ReaderRegisters
    BY <2>1, IdledTypes DEF ReaderRegisters
  <2> HIDE DEF Idled
  <2>3. ~SendEvent BY DEF SendEvent
  <2> QED BY <2>2, <2>3 DEF ReaderStep, Wait, SkipEvent, GetData, SendBlock, SkipBlock,
              EndOfEvent, Pad, Read, TakeEvent, ReaderRegisters
<1> QED BY <1>1, <1>2 DEF BufferInv, Untouched, Between

\* With the DMA enabled, the counter and the blocks sent keep their balance.
LEMMA RunningBudget ==
  ASSUME AlignInv, ReaderAligned, ProperTags, ReaderPlace, BufferInv, ReaderStep, Observe,
         wen, request' = request
  PROVE  BufferInv'
<1>1. /\ reader \in ReaderRegisters /\ request \in Nat /\ buffer.blocks \in Nat
      /\ reader.counter \in Nat /\ buffer.error \in BOOLEAN /\ reader.tag.error \in BOOLEAN
      /\ buffer \in [blocks : Nat, clean : BOOLEAN, error : BOOLEAN]
      /\ MaxBlocks \in Nat /\ Padding \in Nat /\ reader.pad \in 0..(Padding - 1)
      /\ reader.tag \in Tag
  BY RamFacts, EventBuilderAssumption DEF AlignInv, EBTypeOK, ReaderRegisters, Tag
<1>2. Idled = reader
  BY DEF Idled
<1>3. /\ buffer'.clean = buffer.clean
      /\ buffer'.blocks = IF Given THEN buffer.blocks + 1 ELSE buffer.blocks
      /\ buffer'.error <=> buffer.error \/ (reader.state = "wait_last_word" /\ reader.tag.error)
  BY <1>1 DEF Observe
<1> SUFFICES ASSUME buffer.clean PROVE Untouched' \/ Budget'
  BY <1>3 DEF BufferInv
<1>4. Untouched \/ Budget
  BY DEF BufferInv
<1>5. /\ Place \in Nat /\ Place' \in Nat
      /\ Sends => Place + 1 <= MaxBlocks
  <2>1. reader.tag.start \in Blocks /\ reader.add \in Blocks /\ reader.tag.last \in Blocks
        /\ reader'.tag.start \in Blocks /\ reader'.add \in Blocks
    BY ReaderTypes DEF AlignInv, EBTypeOK, ReaderRegisters, Tag
  <2>2. Place \in Nat /\ Place' \in Nat
    BY <2>1, OffsetNext DEF Place
  <2>3. Sends => /\ Place < Offset(reader.tag.start, reader.tag.last)
                 /\ Offset(reader.tag.start, reader.tag.last) \in 2..MaxBlocks
    BY DEF ReaderPlace, Proper, Engaged
  <2> QED BY <2>2, <2>3, <1>1
<1>6. GetData \/ (SendBlock /\ ~AtLast) => Place' = Place + 1
  BY ReaderPlaceStep
<1>7. CASE Wait
  <2>1. reader' = reader /\ reader.state = "waiting" BY <1>2, <1>7 DEF Wait, Read
  <2>2. buffer'.blocks = buffer.blocks /\ (buffer'.error <=> buffer.error)
    BY <1>3, <2>1 DEF Given, Sends
  <2> QED BY <1>4, <2>1, <2>2 DEF Untouched, Budget, Ended, Between, Sends
<1>8. CASE SendEvent
  <2>1. /\ reader.state = "waiting" /\ request # 0 /\ ~reader.done
        /\ reader'.state = "get_data" /\ reader'.written = TRUE /\ reader'.done = reader.done
        /\ reader'.counter = IF FirstEvent THEN request ELSE reader.counter
    BY <1>1, <1>8 DEF SendEvent, TakeEvent, ReaderRegisters
  <2>2. buffer'.blocks = buffer.blocks /\ (buffer'.error <=> buffer.error)
    BY <1>3, <2>1 DEF Given, Sends
  <2>3. buffer.blocks + reader'.counter = request
    BY <1>1, <1>4, <2>1 DEF Untouched, Budget, Between, FirstEvent
  <2>4. reader'.counter \in Nat
    BY <1>1, <2>1
  <2>5. reader'.counter = 0 => buffer.blocks \in request..(request + Place')
    BY <1>1, <1>5, <2>3
  <2> QED BY <2>1, <2>2, <2>3, <2>5 DEF Budget, Between, Sends
<1>9. CASE SkipEvent
  <2>1. /\ reader.state = "waiting" /\ reader'.state = "skip_event"
        /\ reader'.written = reader.written /\ reader'.done = reader.done
        /\ reader'.counter = reader.counter
    BY <1>1, <1>2, <1>9 DEF SkipEvent, TakeEvent, ReaderRegisters
  <2>2. buffer'.blocks = buffer.blocks /\ (buffer'.error <=> buffer.error)
    BY <1>3, <2>1 DEF Given, Sends
  <2> QED BY <1>4, <2>1, <2>2 DEF Untouched, Budget, Ended, Between, Sends
<1>10. ASSUME Sends
       PROVE  /\ Budget /\ ~reader.done /\ buffer'.blocks = buffer.blocks + 1
              /\ buffer'.error <=> buffer.error
              /\ Counted = IF reader.counter # 0 THEN reader.counter - 1 ELSE 0
  <2>1. Budget /\ ~reader.done
    BY <1>4, <1>10 DEF Untouched, Budget, Between, Sends
  <2>2. buffer'.blocks = buffer.blocks + 1
    BY <1>3, <1>10 DEF Given
  <2>3. buffer'.error <=> buffer.error
    BY <1>3, <1>10 DEF Sends
  <2>4. Counted = IF reader.counter # 0 THEN reader.counter - 1 ELSE 0
    BY <1>1, <1>2 DEF Counted
  <2> QED BY <2>1, <2>2, <2>3, <2>4
<1>11. ASSUME Sends, Place' = Place + 1, reader'.counter = Counted,
              reader'.state \in {"set_serial_number", "runing"},
              reader'.written = reader.written, reader'.done = reader.done
       PROVE  Budget'
  <2>1. CASE reader.counter = 0
    <3>1. reader'.counter = 0 /\ buffer'.blocks \in request..(request + Place')
      BY <1>1, <1>5, <1>10, <1>11, <2>1 DEF Budget
    <3> QED BY <1>10, <1>11, <3>1 DEF Budget, Between, Sends
  <2>2. CASE reader.counter # 0
    <3>1. buffer'.blocks + reader'.counter = request /\ reader'.counter \in Nat
      BY <1>1, <1>10, <1>11, <2>2 DEF Budget
    <3>2. reader'.counter = 0 => buffer'.blocks \in request..(request + Place')
      <4>1. buffer'.blocks \in Nat /\ request \in Nat /\ Place' \in Nat BY <1>1, <1>5, <1>10, <1>11
      <4> QED BY <3>1, <4>1
    <3> QED BY <1>10, <1>11, <3>1, <3>2 DEF Budget, Between, Sends
  <2> QED BY <2>1, <2>2
<1>12. CASE GetData
  <2>1. /\ Sends /\ reader'.counter = Counted /\ reader'.state = "set_serial_number"
        /\ reader'.written = reader.written /\ reader'.done = reader.done
    BY <1>1, <1>2, <1>12 DEF GetData, Read, ReaderRegisters, Sends
  <2> QED BY <1>6, <1>11, <1>12, <2>1
<1>13. CASE SendBlock
  <2>1. Sends BY <1>13 DEF SendBlock, Sends
  <2>2. CASE ~AtLast
    <3>1. /\ reader'.counter = Counted /\ reader'.state = "runing"
          /\ reader'.written = reader.written /\ reader'.done = reader.done
      BY <1>1, <1>2, <1>13, <2>2 DEF SendBlock, Read, ReaderRegisters
    <3> QED BY <1>6, <1>11, <1>13, <2>1, <2>2, <3>1
  <2>3. CASE AtLast /\ (reader.tag.error \/ Full)
    <3>1. /\ reader'.state = "wait_last_word" /\ reader'.pad = 0 /\ reader'.tag = reader.tag
          /\ reader'.written = reader.written /\ reader'.done = reader.done
      BY <1>1, <1>2, <1>13, <2>3 DEF SendBlock, Read, ReaderRegisters
    <3>2. buffer'.blocks <= request + MaxBlocks
      BY <1>1, <1>5, <1>10, <2>1 DEF Budget
    <3>3. reader.tag.error \/ buffer'.blocks > request
      BY <1>1, <1>5, <1>10, <2>1, <2>3 DEF Budget, Full
    <3> QED BY <1>10, <2>1, <3>1, <3>2, <3>3 DEF Budget, Between, Sends
  <2>4. CASE AtLast /\ ~(reader.tag.error \/ Full)
    <3>1. /\ reader'.counter = Counted /\ reader'.state = "waiting"
          /\ reader'.written = reader.written /\ reader'.done = reader.done
      BY <1>1, <1>2, <1>13, <2>4 DEF SendBlock, Read, ReaderRegisters
    <3>2. buffer'.blocks + reader'.counter = request
      BY <1>1, <1>10, <2>1, <2>4, <3>1 DEF Budget, Full
    <3> QED BY <1>10, <2>1, <3>1, <3>2 DEF Budget, Between, Sends
  <2> QED BY <2>2, <2>3, <2>4
<1>14. CASE SkipBlock
  <2>1. /\ reader.state = "skip_event" /\ reader'.state \in {"waiting", "skip_event"}
        /\ reader'.written = reader.written /\ reader'.done = reader.done
        /\ reader'.counter = reader.counter
    BY <1>1, <1>2, <1>14 DEF SkipBlock, Read, ReaderRegisters
  <2>2. buffer'.blocks = buffer.blocks /\ (buffer'.error <=> buffer.error)
    BY <1>3, <2>1 DEF Given, Sends
  <2> QED BY <1>4, <2>1, <2>2 DEF Untouched, Budget, Ended, Between, Sends
<1>15. CASE EndOfEvent
  <2>1. /\ reader.state = "wait_last_word" /\ reader'.state = "write_4kb_padding"
        /\ reader'.written = reader.written /\ reader'.done = reader.done
        /\ reader'.pad = reader.pad
    BY <1>1, <1>2, <1>15 DEF EndOfEvent, Read, ReaderRegisters
  <2>2. /\ buffer'.blocks = buffer.blocks
        /\ buffer'.error <=> buffer.error \/ reader.tag.error
    BY <1>3, <1>1, <2>1 DEF Given, Sends
  <2>3. /\ Budget /\ reader.pad = 0 /\ buffer.blocks <= request + MaxBlocks /\ ~reader.done
        /\ reader.tag.error \/ buffer.blocks > request
    BY <1>4, <2>1 DEF Untouched, Budget, Between
  <2> QED BY <1>1, <2>1, <2>2, <2>3 DEF Budget, Ended, Between, Sends
<1>16. CASE Pad
  <2>1. reader.state = "write_4kb_padding"
    BY <1>16 DEF Pad
  <2>5. Budget /\ Ended(reader.pad) /\ ~reader.done
    BY <1>4, <2>1 DEF Untouched, Budget, Between
  <2>6. buffer'.error <=> buffer.error
    BY <1>3, <2>1
  <2>2. CASE reader.tag.error
    <3>1. reader' = [reader EXCEPT !.tag.error = FALSE]
      BY <1>2, <1>16, <2>2 DEF Pad, Read
    <3>2. /\ reader'.state = reader.state /\ reader'.pad = reader.pad
          /\ reader'.written = reader.written /\ reader'.done = reader.done
      BY <1>1, <3>1 DEF ReaderRegisters
    <3>3. buffer'.blocks = buffer.blocks
      BY <1>3, <2>1, <2>2 DEF Given, Sends
    <3> QED BY <2>1, <2>5, <2>6, <3>2, <3>3 DEF Budget, Ended, Between, Sends
  <2>3. CASE ~reader.tag.error /\ reader.pad # Padding - 1
    <3>1. /\ reader'.state = reader.state /\ reader'.pad = reader.pad + 1
          /\ reader'.written = reader.written /\ reader'.done = reader.done
      BY <1>1, <1>2, <1>16, <2>3 DEF Pad, Read, ReaderRegisters
    <3>2. buffer'.blocks = buffer.blocks + 1
      BY <1>3, <2>1, <2>3 DEF Given
    <3>4. Ended(reader.pad)'
      BY <1>1, <2>5, <2>6, <3>1, <3>2 DEF Ended
    <3> QED BY <2>1, <2>5, <3>1, <3>4 DEF Budget, Between, Sends
  <2>4. CASE ~reader.tag.error /\ reader.pad = Padding - 1
    <3>1. /\ reader'.state = "waiting" /\ reader'.done = TRUE
          /\ reader'.written = reader.written
      BY <1>1, <1>2, <1>16, <2>4 DEF Pad, Read, ReaderRegisters
    <3>2. buffer'.blocks = buffer.blocks + 1
      BY <1>3, <2>1, <2>4 DEF Given
    <3>3. Ended(Padding)'
      BY <1>1, <2>4, <2>5, <2>6, <3>2 DEF Ended
    <3> QED BY <2>5, <3>1, <3>3 DEF Budget, Between, Sends
  <2> QED BY <2>2, <2>3, <2>4
<1> QED BY <1>7, <1>8, <1>9, <1>12, <1>13, <1>14, <1>15, <1>16 DEF ReaderStep

-----------------------------------------------------------------------------
\* All of it, for the two theorems below.
EventInv == AlignInv /\ WriterPlace /\ ProperTags /\ ReaderPlace /\ BufferInv

LEMMA EventsWhole == EBSpec => []EventInv
<1>1. EBInit => WriterPlace /\ ProperTags /\ ReaderPlace /\ BufferInv
  <2> SUFFICES ASSUME EBInit PROVE WriterPlace /\ ProperTags /\ ReaderPlace /\ BufferInv
    OBVIOUS
  <2>1. Words \in Nat /\ Words > 0 /\ Wrap(Words - 1 + 1) = 0
    BY WordFacts DEF Wrap
  <2>2. Aligned8(0) BY DEF Aligned8, BlockOf, Block
  <2>3. WriterPlace
    BY <2>1, <2>2 DEF EBInit, WriterPlace, PlaceOf, Appending
  <2>4. ProperTags BY DEF EBInit, ProperTags
  <2>5. ReaderPlace /\ BufferInv
    BY DEF EBInit, ReaderPlace, Engaged, Sends, BufferInv, Untouched, Between
  <2> QED BY <2>3, <2>4, <2>5
<1>2. AlignInv /\ ReaderAligned /\ WriterPlace /\ ProperTags /\ ReaderPlace /\ BufferInv
        /\ [EBNext]_vars
      => WriterPlace' /\ ProperTags' /\ ReaderPlace' /\ BufferInv'
  <2> SUFFICES ASSUME AlignInv, ReaderAligned, WriterPlace, ProperTags, ReaderPlace, BufferInv,
                      [EBNext]_vars
               PROVE  WriterPlace' /\ ProperTags' /\ ReaderPlace' /\ BufferInv'
    OBVIOUS
  <2>1. CASE EBNext
    <3>1. WriterStep /\ ReaderStep /\ Observe /\ Software BY <2>1 DEF EBNext, Clock
    <3>2. WriterPlace' /\ ProperTags' /\ ReaderPlace'
      BY <3>1, WriterPlaceStep, ProperTagsStep, ReaderPlaceStep DEF AlignInv
    <3>3. wen => request' = request
      BY <3>1 DEF Software, Enable, Disable
    <3> QED BY <3>1, <3>2, <3>3, IdleBudget, RunningBudget DEF AlignInv
  <2>2. CASE UNCHANGED vars
    BY <2>2 DEF vars, WriterPlace, ProperTags, ReaderPlace, Place, Engaged, Sends, BufferInv, Untouched,
                Budget, Between, Ended
  <2> QED BY <2>1, <2>2
<1> QED BY <1>1, <1>2, AlignedInv, Aligned, PTL DEF EBSpec, EventInv
-----------------------------------------------------------------------------
\* Whatever the packets and the software do, a buffer that was enabled between
\* two events never takes more than was asked for, one event and the padding,
\* so half of the DMA buffer is enough of a reserve for the other half.
THEOREM BufferIsEnough == EBSpec => []BufferFits
<1>1. EventInv => BufferFits
  <2> SUFFICES ASSUME EventInv, buffer.clean
               PROVE  buffer.blocks <= request + MaxBlocks + Padding
    BY DEF BufferFits
  <2>1. /\ request \in Nat /\ buffer.blocks \in Nat /\ MaxBlocks \in Nat /\ Padding \in Nat
        /\ reader.counter \in Nat /\ reader.pad \in Nat /\ reader.pad <= Padding
    BY RamFacts, EventBuilderAssumption DEF EventInv, AlignInv, EBTypeOK, ReaderRegisters
  <2>2. CASE Untouched
    BY <2>1, <2>2 DEF Untouched
  <2>3. CASE Budget
    <3>1. CASE Between
      <4>1. CASE reader.done BY <2>1, <2>3, <3>1, <4>1 DEF Budget, Ended
      <4>2. CASE ~reader.done BY <2>1, <2>3, <3>1, <4>2 DEF Budget
      <4> QED BY <4>1, <4>2
    <3>2. CASE Sends
      <4>1. Place \in Nat /\ Place <= MaxBlocks
        <5>1. reader.tag.start \in Blocks /\ reader.add \in Blocks
          BY DEF EventInv, AlignInv, EBTypeOK, ReaderRegisters, Tag
        <5>2. Place \in Nat BY <5>1, OffsetNext DEF Place
        <5>3. /\ Place < Offset(reader.tag.start, reader.tag.last)
              /\ Offset(reader.tag.start, reader.tag.last) \in 2..MaxBlocks
          BY <3>2 DEF EventInv, ReaderPlace, Engaged, Proper
        <5> QED BY <2>1, <5>2, <5>3
      <4>2. \/ buffer.blocks + reader.counter = request
            \/ buffer.blocks \in request..(request + Place)
        BY <2>1, <2>3, <3>2 DEF Budget
      <4> QED BY <2>1, <4>1, <4>2
    <3>3. CASE reader.state = "wait_last_word"
      BY <2>1, <2>3, <3>3 DEF Budget
    <3>4. CASE reader.state = "write_4kb_padding"
      BY <2>1, <2>3, <3>4 DEF Budget, Ended
    <3> QED BY <3>1, <3>2, <3>3, <3>4
            DEF EventInv, AlignInv, EBTypeOK, ReaderRegisters, Between, Sends
  <2> QED BY <2>2, <2>3 DEF EventInv, BufferInv
<1> QED BY <1>1, EventsWhole, PTL

\* A buffer that is reported as done holds more than was asked for and the whole
\* padding, unless an event with an error has ended it.
THEOREM DoneIsFull == EBSpec => []DoneMeansFull
<1>1. EventInv => DoneMeansFull
  BY DEF EventInv, BufferInv, DoneMeansFull, Untouched, Budget, Ended
<1> QED BY <1>1, EventsWhole, PTL

-----------------------------------------------------------------------------
-----------------------------------------------------------------------------
(***************************************************************************)
(* Blocks are sent before they are written over.  What lies in the RAM     *)
(* from the event of the reader (First) to the one of the writer, in       *)
(* order, belongs to its events (HeldInv).  The writer writes a word in a  *)
(* clock and the reader takes eight, so the reader only falls behind while *)
(* it pads; how far is LoadInv.  It pads once in a buffer, but an error    *)
(* may end a buffer after one event: the software must not enable the DMA  *)
(* again before the reader, which skips events then, has caught up.        *)
(***************************************************************************)
First == IF Engaged THEN reader.tag.start ELSE reader.tag.last
\* Words of the event that is written, and of all from First on.
Written == IF writer.state = "idle" THEN 0 ELSE writer.words
Load == Block * Offset(First, Upcoming) + Written

\* The words that may be there when an event is begun to be sent, so that there
\* is room for those that come while it is sent and padded.
Spare == Words - Padding - MaxBlocks - 3
RamSuffices == Block * MaxBlocks + 2 <= Spare
\* The software does not enable the DMA while the RAM is still fuller than that.
Patient == ~wen /\ wen' => Load < Spare

Owned(o, t) == \A b \in Blocks : Offset(t.start, b) < Offset(t.start, t.last) => o[b] = t.start
Ordered(f, u, t) ==
  /\ Offset(f, t.start) < Offset(f, t.last)
  /\ Offset(f, t.last) <= Offset(f, u)
\* The events of the tags in q, in a RAM with owners o, between f and u.
InLine(q, f, u, o) ==
  /\ \A i \in 1..Len(q) : Ordered(f, u, q[i]) /\ Owned(o, q[i])
  /\ \A i, j \in 1..Len(q) : i < j => Offset(f, q[i].last) <= Offset(f, q[j].start)
Leads(t, q, f, u, o) ==
  /\ Ordered(f, u, t) /\ Owned(o, t)
  /\ \A i \in 1..Len(q) : Offset(f, t.last) <= Offset(f, q[i].start)
HeldInv ==
  /\ InLine(tags \o fifo, First, Upcoming, owner)
  /\ Engaged => Leads(reader.tag, tags \o fifo, First, Upcoming, owner)

\* The blocks of the event that is written.
Begun(o, w, u) ==
  w.state # "idle" =>
    \A b \in Blocks : Block * Offset(u, b) < w.words => o[b] = u
WrittenInv == Begun(owner, writer, Upcoming) /\ (fifo # <<>> => writer.state = "idle")

Limit == IF wen /\ ~reader.done THEN Spare ELSE Spare + Padding
LoadInv ==
  /\ reader.state = "waiting" => Load <= Limit
  /\ Sends => Load <= Spare + 1 + Place
  /\ reader.state = "skip_event" => Load <= Limit + 1 + Place
  /\ reader.state = "wait_last_word" => Load + 2 <= Spare
  /\ reader.state = "write_4kb_padding" =>
       Load + (IF reader.tag.error THEN 1 ELSE 0) <= Spare + reader.pad

\* Offsets from one block and from another one behind it.
LEMMA OffsetShift ==
  ASSUME NEW f \in Blocks, NEW g \in Blocks, NEW b \in Blocks
  PROVE  /\ Offset(f, b) \in 0..(RamBlocks - 1) /\ RamBlocks \in Nat
         /\ Offset(f, g) <= Offset(f, b) => Offset(g, b) = Offset(f, b) - Offset(f, g)
         /\ Offset(f, g) + Offset(g, b) < RamBlocks => Offset(f, b) = Offset(f, g) + Offset(g, b)
<1>1. /\ RamBlocks \in Nat /\ f \in 0..(RamBlocks - 1) /\ g \in 0..(RamBlocks - 1)
      /\ b \in 0..(RamBlocks - 1)
  BY WordFacts DEF Blocks
<1> QED BY <1>1, OffsetCases

\* The block of the k-th word behind an aligned address.
LEMMA WordBlock ==
  ASSUME NEW a \in Addresses, Aligned8(a), NEW k \in Nat, k < Words
  PROVE  /\ BlockOf(Wrap(a + k)) \in Blocks
         /\ Offset(BlockOf(a), BlockOf(Wrap(a + k))) = k \div 8
<1> DEFINE s == BlockOf(a)
           e == k \div 8
           r == k % 8
<1>1. s \in Nat /\ s < RamBlocks /\ a = 8 * s /\ RamBlocks \in Nat /\ Words = 8 * RamBlocks
  BY WordFacts, RamFacts DEF Aligned8, Block, Blocks
<1>2. k = 8 * e + r /\ e \in Nat /\ r \in 0..7 /\ e < RamBlocks
  BY <1>1
<1> HIDE DEF s, e, r
<1>3. Wrap(a + k) = IF s + e < RamBlocks THEN 8 * (s + e) + r ELSE 8 * (s + e - RamBlocks) + r
  <2>1. a + k = 8 * (s + e) + r /\ a + k \in Nat /\ a + k < 2 * Words
    BY <1>1, <1>2
  <2> QED BY <1>1, <1>2, <2>1, WrapCases
<1> DEFINE d == IF s + e < RamBlocks THEN s + e ELSE s + e - RamBlocks
<1>4. d \in Blocks /\ Wrap(a + k) = 8 * d + r
  BY <1>1, <1>2, <1>3 DEF Blocks
<1>5. BlockOf(Wrap(a + k)) = d
  <2>1. d \in Nat BY <1>4, WordFacts DEF Blocks
  <2> HIDE DEF d
  <2>2. (8 * d + r) \div 8 = d BY <1>2, <2>1
  <2> QED BY <1>4, <2>2 DEF BlockOf, Block
<1>6. s \in Blocks BY <1>1 DEF Blocks
<1>7. Offset(s, d) = e
  BY <1>1, <1>2, <1>4, <1>6, OffsetCases
<1> QED BY <1>4, <1>5, <1>7 DEF s, e

\* A word into a block that does not come before u.
LEMMA RamWrite ==
  ASSUME owner \in [Blocks -> Blocks], NEW f \in Blocks, NEW u \in Blocks, NEW c \in Blocks,
         Offset(f, u) + Offset(u, c) < RamBlocks, owner' = [owner EXCEPT ![c] = u]
  PROVE  /\ \A b \in Blocks : Offset(f, b) < Offset(f, u) => owner'[b] = owner[b]
         /\ owner'[c] = u
         /\ \A b \in Blocks : owner[b] = u => owner'[b] = u
<1>1. Offset(f, c) = Offset(f, u) + Offset(u, c) /\ Offset(u, c) \in Nat /\ Offset(f, u) \in Nat
  BY OffsetShift
<1>2. ASSUME NEW b \in Blocks, Offset(f, b) < Offset(f, u) PROVE b # c
  BY <1>1, <1>2
<1> QED BY <1>2

\* What a clock of the writer does to the RAM, seen from f: at most a word more,
\* and none in what was there.
Wrote(f) ==
  /\ Block * Offset(f, Upcoming') + Written' <= Block * Offset(f, Upcoming) + Written + 1
  /\ Offset(f, Upcoming) <= Offset(f, Upcoming')
  /\ \A b \in Blocks : Offset(f, b) < Offset(f, Upcoming) => owner'[b] = owner[b]
  /\ WrittenInv'
  /\ \A t : fifo' = <<t>> => /\ t.start = Upcoming /\ t.last = Upcoming'
                             /\ Offset(f, t.start) < Offset(f, t.last) /\ Owned(owner', t)

LEMMA UpcomingBlock == EBTypeOK => Upcoming \in Blocks
<1> SUFFICES ASSUME EBTypeOK PROVE Upcoming \in Blocks OBVIOUS
<1>1. writer.start \in Addresses /\ NextAddress \in Addresses
  BY WrapType DEF EBTypeOK, WriterRegisters, NextAddress
<1> QED BY <1>1, WordFacts DEF Upcoming

LEMMA AppendRam ==
  ASSUME EBTypeOK, WriterPlace, WrittenInv, writer.state \in Appending,
         writer.words <= Block * MaxBlocks, NEW error,
         NEW state, state # "idle", AppendWord(state, error),
         NEW f \in Blocks, Block * Offset(f, Upcoming) + Written < Words
  PROVE  Wrote(f)
<1>1. /\ writer.start \in Addresses /\ writer.words \in Nat /\ writer.state # "idle"
      /\ owner \in [Blocks -> Blocks] /\ Aligned8(writer.start)
  BY DEF EBTypeOK, WriterRegisters, WriterPlace, PlaceOf, Appending
<1>2. /\ writer'.state = state /\ writer'.words = writer.words + 1
      /\ writer'.start = writer.start /\ fifo' = <<>>
      /\ writer'.add = Wrap(writer.start + writer.words)
  BY AppendPlace
<1> DEFINE u == BlockOf(writer.start)
           c == BlockOf(Wrap(writer.start + writer.words))
           k == writer.words
<1>3. Upcoming = u /\ Upcoming' = u /\ Written = k /\ Written' = k + 1
  BY <1>1, <1>2 DEF Upcoming, Written
<1>4. u \in Blocks BY <1>1, WordFacts
<1>5. k < Words /\ Words = 8 * RamBlocks /\ RamBlocks \in Nat
  BY <1>1, RamFacts DEF Block
<1>6. c \in Blocks /\ Offset(u, c) = k \div 8
  BY <1>1, <1>5, WordBlock
<1>7. owner' = [owner EXCEPT ![c] = u]
  <2>1. NextAddress = Wrap(writer.start + writer.words)
    BY DEF WriterPlace, PlaceOf, NextAddress
  <2> QED BY <2>1 DEF AppendWord, Write
<1>8. Offset(f, u) \in Nat /\ 8 * Offset(f, u) + k < 8 * RamBlocks
  BY <1>3, <1>4, <1>5, OffsetShift DEF Block
<1> HIDE DEF u, c, k
<1>9. /\ \A b \in Blocks : Offset(f, b) < Offset(f, u) => owner'[b] = owner[b]
      /\ owner'[c] = u /\ \A b \in Blocks : owner[b] = u => owner'[b] = u
  <2>1. Offset(f, u) + Offset(u, c) < RamBlocks
    <3>1. k \in Nat /\ k = 8 * (k \div 8) + (k % 8) /\ k \div 8 \in Nat /\ k % 8 \in 0..7
      BY <1>1 DEF k
    <3> QED BY <1>5, <1>6, <1>8, <3>1
  <2> QED BY <1>1, <1>4, <1>6, <1>7, <2>1, RamWrite
<1>10. ASSUME NEW b \in Blocks, Block * Offset(u, b) < k + 1 PROVE owner'[b] = u
  <2>1. Offset(u, b) \in Nat /\ Offset(u, c) \in Nat /\ k \in Nat
    BY <1>1, <1>4, <1>6, OffsetShift DEF k
  <2>2. CASE Block * Offset(u, b) < k
    <3>1. owner[b] = u BY <1>1, <1>3, <2>2 DEF WrittenInv, Begun, k
    <3> QED BY <1>9, <3>1
  <2>3. CASE Block * Offset(u, b) = k
    <3>1. Offset(u, b) = Offset(u, c) BY <1>6, <2>1, <2>3 DEF Block
    <3>2. b = c
      <4>1. b \in 0..(RamBlocks - 1) /\ c \in 0..(RamBlocks - 1) /\ u \in 0..(RamBlocks - 1)
        BY <1>4, <1>6 DEF Blocks
      <4> QED BY <1>4, <1>5, <1>6, <3>1, <4>1, OffsetCases
    <3> QED BY <1>9, <3>2
  <2> QED BY <1>10, <2>1, <2>2, <2>3 DEF Block
<1>11. WrittenInv'
  BY <1>2, <1>3, <1>10 DEF WrittenInv, Begun, k
<1>12. /\ Block * Offset(f, u) + (k + 1) <= Block * Offset(f, u) + k + 1
       /\ Offset(f, u) <= Offset(f, u)
  BY <1>1, <1>8 DEF k, Block
<1>13. \A t : fifo' # <<t>> BY <1>2
<1> QED BY <1>3, <1>9, <1>11, <1>12, <1>13 DEF Wrote

LEMMA WriterRam ==
  ASSUME EBTypeOK, WriterPlace, WrittenInv, WriterStep,
         NEW f \in Blocks, Block * Offset(f, Upcoming) + Written < Words
  PROVE  Wrote(f)
<1>1. /\ writer \in WriterRegisters /\ writer.start \in Addresses /\ writer.words \in Nat
      /\ writer.next \in Addresses /\ owner \in [Blocks -> Blocks] /\ Upcoming \in Blocks
      /\ Offset(f, Upcoming) \in Nat /\ Written \in Nat
  BY UpcomingBlock, OffsetShift DEF EBTypeOK, WriterRegisters, Written
<1>2. /\ MaxBlocks \in Nat /\ MaxData \in Nat /\ Header + MaxData + 1 <= Block * MaxBlocks
      /\ RamBlocks \in Nat /\ Words = 8 * RamBlocks
  BY RamFacts DEF Block
<1>3. CASE Pause
  <2>1. writer' = writer /\ owner' = owner /\ fifo' = <<>> BY <1>3 DEF Pause, WriteNothing
  <2>2. Upcoming' = Upcoming /\ Written' = Written
    BY <2>1 DEF Upcoming, NextAddress, Written
  <2>3. WrittenInv' BY <2>1, <2>2 DEF WrittenInv, Begun
  <2>4. Block * Offset(f, Upcoming) \in Nat BY <1>1 DEF Block
  <2> QED BY <1>1, <2>1, <2>2, <2>3, <2>4 DEF Wrote
<1>4. CASE StartEvent
  <2>1. /\ writer.state = "idle" /\ writer'.state = "header" /\ writer'.start = NextAddress
        /\ writer'.words = 0 /\ owner' = owner /\ fifo' = <<>>
    BY <1>1, <1>4 DEF StartEvent, WriteNothing, WriterRegisters
  <2>2. Upcoming' = Upcoming /\ Written' = 0 /\ Written = 0
    BY <2>1 DEF Upcoming, Written
  <2>3. \A b \in Blocks : ~(Block * Offset(Upcoming, b) < 0)
    BY <1>1, OffsetShift DEF Block
  <2>4. WrittenInv' BY <2>1, <2>2, <2>3 DEF WrittenInv, Begun
  <2>5. Block * Offset(f, Upcoming) \in Nat BY <1>1 DEF Block
  <2> QED BY <1>1, <2>1, <2>2, <2>4, <2>5 DEF Wrote
<1>5. CASE WriteHeader
  <2>1. writer.state = "header" /\ writer.words < Header
    BY <1>5 DEF WriteHeader, WriterPlace, PlaceOf
  <2>2. writer.words <= Block * MaxBlocks BY <1>1, <1>2, <2>1 DEF Header, Block
  <2> QED BY <1>5, <2>1, <2>2, AppendRam DEF WriteHeader, Appending
<1>6. CASE WriteData
  <2>1. writer.state = "bank_data" /\ writer.words \in Header..(Header + MaxData - 1)
    BY <1>6 DEF WriteData, WriterPlace, PlaceOf
  <2>2. writer.words <= Block * MaxBlocks BY <1>1, <1>2, <2>1 DEF Header, Block
  <2> QED BY <1>6, <2>1, <2>2, AppendRam DEF WriteData, Appending
<1>7. CASE WriteCounters
  <2>1. writer.state = "set_header_cnt" /\ writer.words \in (Header + 2)..(Header + MaxData)
    BY <1>7 DEF WriteCounters, WriterPlace, PlaceOf
  <2>2. writer.words <= Block * MaxBlocks BY <1>1, <1>2, <2>1 DEF Header, Block
  <2> QED BY <1>7, <2>1, <2>2, AppendRam DEF WriteCounters, Appending
<1>8. CASE Align
  <2>1. writer.state = "set_algin_word" /\ writer.words \in (Header + 3)..(Block * MaxBlocks)
    BY <1>8 DEF Align, WriterPlace, PlaceOf
  <2>2. writer.words <= Block * MaxBlocks BY <1>1, <1>2, <2>1 DEF Header, Block
  <2> QED BY <1>8, <2>1, <2>2, AppendRam DEF Align, Appending
<1>9. ASSUME writer.state \notin Appending \cup {"idle"}
      PROVE  \E m \in 2..MaxBlocks :
               /\ writer.words = 8 * m + 1 /\ Aligned8(writer.start) /\ m < RamBlocks
               /\ Wrap(writer.start + Block * m)
                    = IF writer.state = "bank_set_length" THEN writer.add ELSE writer.next
               /\ Offset(f, Upcoming) + m < RamBlocks
  <2>1. PICK m \in 2..MaxBlocks :
          /\ writer.words = Block * m + 1
          /\ Wrap(writer.start + Block * m)
               = IF writer.state = "bank_set_length" THEN writer.add ELSE writer.next
    BY <1>9 DEF WriterPlace, PlaceOf
  <2>2. Aligned8(writer.start) /\ m < RamBlocks /\ m \in Nat
    BY <2>1, RamFacts DEF WriterPlace, PlaceOf
  <2>3. Written = writer.words BY <1>9 DEF Written
  <2>4. 8 * Offset(f, Upcoming) + (8 * m + 1) < 8 * RamBlocks
    BY <1>2, <2>1, <2>3 DEF Block
  <2>5. Offset(f, Upcoming) + m < RamBlocks
    BY <1>1, <1>2, <2>2, <2>4
  <2> QED BY <2>1, <2>2, <2>5 DEF Block
<1>10. CASE SetSizes
  <2>1. writer.state \in {"bank_set_length", "event_set_size", "bank_set_size"}
    BY <1>10 DEF SetSizes
  <2>2. PICK m \in 2..MaxBlocks : writer.words = 8 * m + 1 /\ Aligned8(writer.start)
                                  /\ Offset(f, Upcoming) + m < RamBlocks
    BY <1>9, <2>1 DEF Appending
  <2>3. PICK i \in {3, 4, 8} :
          /\ owner' = [owner EXCEPT ![BlockOf(HeaderWord(i))] = BlockOf(writer.start)]
          /\ writer'.start = writer.start /\ writer'.words = writer.words
          /\ writer'.state \in {"event_set_size", "bank_set_size", "write_tagging_fifo"}
          /\ fifo' = <<>>
    BY <1>1, <1>10 DEF SetSizes, Write, WriterRegisters
  <2> DEFINE c == BlockOf(HeaderWord(i))
  <2>4. /\ Upcoming = BlockOf(writer.start) /\ Upcoming' = Upcoming
        /\ Written' = Written /\ Written = writer.words
    BY <2>1, <2>3 DEF Upcoming, Written
  <2>5. c \in Blocks /\ Offset(Upcoming, c) = i \div 8
    <3>1. i \in Nat /\ i < Words BY RamFacts
    <3> QED BY <1>1, <2>2, <2>4, <3>1, WordBlock DEF HeaderWord
  <2>6. Offset(Upcoming, c) \in 0..1
    BY <2>5
  <2> HIDE DEF c
  <2>7. Offset(f, Upcoming) + Offset(Upcoming, c) < RamBlocks
    BY <1>1, <1>2, <2>2, <2>6
  <2>8. owner' = [owner EXCEPT ![c] = Upcoming] BY <2>3, <2>4 DEF c
  <2>9. /\ \A b \in Blocks : Offset(f, b) < Offset(f, Upcoming) => owner'[b] = owner[b]
        /\ \A b \in Blocks : owner[b] = Upcoming => owner'[b] = Upcoming
    BY <1>1, <2>5, <2>7, <2>8, RamWrite
  <2>10. WrittenInv'
    BY <2>1, <2>3, <2>4, <2>9 DEF WrittenInv, Begun
  <2>11. Block * Offset(f, Upcoming) \in Nat BY <1>1 DEF Block
  <2> QED BY <1>1, <2>3, <2>4, <2>9, <2>10, <2>11 DEF Wrote
<1>11. CASE WriteTag
  <2>1. writer.state = "write_tagging_fifo" BY <1>11 DEF WriteTag
  <2>2. PICK m \in 2..MaxBlocks :
          /\ writer.words = 8 * m + 1 /\ Aligned8(writer.start) /\ m < RamBlocks
          /\ Wrap(writer.start + Block * m) = writer.next
          /\ Offset(f, Upcoming) + m < RamBlocks
    BY <1>9, <2>1 DEF Appending
  <2>3. /\ writer'.state = "idle" /\ writer'.add = BeforeDummy /\ owner' = owner
        /\ fifo' = <<[last |-> BlockOf(writer.next), error |-> writer.error,
                      start |-> BlockOf(writer.start)]>>
    BY <1>1, <1>11 DEF WriteTag, WriterRegisters
  <2> DEFINE n == BlockOf(writer.next)
  <2>4. Upcoming = BlockOf(writer.start) /\ Upcoming' = n /\ n \in Blocks
        /\ Written = 8 * m + 1 /\ Written' = 0
    <3>1. Upcoming' = BlockOf(Wrap(BeforeDummy + 1))
      BY <2>3 DEF Upcoming, NextAddress, BlockOf, Wrap, Words
    <3>2. Upcoming' = n BY <1>1, <3>1, BackAndForth DEF BeforeDummy
    <3> QED BY <1>1, <2>1, <2>2, <2>3, <3>2, WordFacts DEF Upcoming, Written
  <2>5. Offset(Upcoming, n) = m
    BY <1>1, <2>2, <2>4, AlignedBlock
  <2> HIDE DEF n
  <2>6. Offset(f, n) = Offset(f, Upcoming) + m
    BY <1>1, <2>2, <2>4, <2>5, OffsetShift
  <2>7. Block * Offset(f, n) + 0 <= Block * Offset(f, Upcoming) + (8 * m + 1) + 1
    BY <1>1, <2>2, <2>6 DEF Block
  <2>8. Offset(f, Upcoming) < Offset(f, n)
    BY <1>1, <2>2, <2>6
  <2>9. ASSUME NEW b \in Blocks, Offset(Upcoming, b) < m PROVE owner[b] = Upcoming
    <3>1. Offset(Upcoming, b) \in Nat BY <1>1, OffsetShift
    <3>2. Block * Offset(Upcoming, b) < writer.words BY <2>2, <2>9, <3>1 DEF Block
    <3> QED BY <2>1, <3>2 DEF WrittenInv, Begun
  <2>10. WrittenInv' BY <2>3 DEF WrittenInv, Begun
  <2>11. ASSUME NEW t, fifo' = <<t>>
         PROVE  t.start = Upcoming /\ t.last = n /\ Owned(owner', t)
    <3>1. t.start = Upcoming /\ t.last = n BY <2>3, <2>4, <2>11 DEF n
    <3> QED BY <2>3, <2>5, <2>9, <3>1 DEF Owned
  <2>12. Offset(f, Upcoming) <= Offset(f, n)
    BY <1>1, <2>4, <2>8, OffsetShift
  <2> QED BY <2>3, <2>4, <2>7, <2>8, <2>10, <2>11, <2>12 DEF Wrote
<1> QED BY <1>3, <1>4, <1>5, <1>6, <1>7, <1>8, <1>10, <1>11 DEF WriterStep

-----------------------------------------------------------------------------
\* The reader goes on with what it is at, takes the next event, or is done with
\* the one that it had.
GoesOn == /\ tags' = tags \o fifo /\ (Engaged' <=> Engaged) /\ First' = First
          /\ Engaged => reader'.tag = reader.tag
Takes == /\ tags # <<>> /\ tags' = Tail(tags) \o fifo /\ reader'.tag = Head(tags)
         /\ ~Engaged /\ Engaged' /\ First' = First /\ Head(tags).start = First
Leaves == /\ tags' = tags \o fifo /\ Engaged /\ ~Engaged' /\ First' = reader.tag.last

LEMMA ReaderTurns ==
  ASSUME AlignInv, ReaderStep
  PROVE  /\ GoesOn \/ Takes \/ Leaves
         /\ SendEvent \/ SkipEvent => Takes
         /\ (SendBlock \/ SkipBlock) /\ AtLast => Leaves
<1>1. /\ reader \in ReaderRegisters /\ Idled \in ReaderRegisters /\ EBTypeOK
      /\ Idled.state = reader.state /\ Idled.add = reader.add /\ Idled.tag = reader.tag
      /\ tags \in Seq(Tag) /\ fifo \in Seq(Tag)
  BY IdledTypes, FifoType DEF AlignInv, EBTypeOK
<1>2. CASE SendEvent \/ SkipEvent
  <2>1. /\ reader.state = "waiting" /\ reader'.state \in {"get_data", "skip_event"}
        /\ reader'.tag = Head(tags) /\ tags # <<>> /\ tags' = Tail(tags) \o fifo
    BY <1>1, <1>2 DEF SendEvent, SkipEvent, TakeEvent, ReaderRegisters
  <2>2. ~Engaged /\ Engaged' BY <2>1 DEF Engaged, Sends
  <2> DEFINE q == tags \o fifo
             p == Tail(tags) \o fifo
  <2>3. q # <<>> /\ q[1] = Head(tags)
    BY <1>1, <2>1, QueueTail
  <2>4. Head(tags).start = reader.tag.last
    BY <2>3 DEF AlignInv, Chain, Linked
  <2>5. Takes BY <2>1, <2>2, <2>4 DEF Takes, First
  <2> QED BY <1>2, <2>1, <2>5 DEF SendBlock, SkipBlock
<1>3. CASE Wait \/ GetData \/ EndOfEvent \/ ((SendBlock \/ SkipBlock) /\ ~AtLast)
  <2>1. /\ tags' = tags \o fifo /\ reader'.tag = reader.tag
        /\ Engaged' <=> Engaged
    BY <1>1, <1>3 DEF Wait, GetData, EndOfEvent, SendBlock, SkipBlock, Read, ReaderRegisters,
                      Engaged, Sends
  <2>2. ~SendEvent /\ ~SkipEvent /\ ~((SendBlock \/ SkipBlock) /\ AtLast)
    <3>1. CASE Wait BY <1>1, <3>1 DEF Wait, SendEvent, SkipEvent, TakeEvent, SendBlock, SkipBlock
    <3>2. CASE GetData \/ EndOfEvent
      BY <3>2 DEF GetData, EndOfEvent, SendEvent, SkipEvent, TakeEvent, SendBlock, SkipBlock
    <3>3. CASE (SendBlock \/ SkipBlock) /\ ~AtLast
      BY <3>3 DEF SendEvent, SkipEvent, TakeEvent, SendBlock, SkipBlock
    <3> QED BY <1>3, <3>1, <3>2, <3>3
  <2> QED BY <2>1, <2>2 DEF GoesOn, First
<1>4. CASE (SendBlock \/ SkipBlock) /\ AtLast
  <2>1. /\ tags' = tags \o fifo /\ reader'.tag = reader.tag /\ Engaged /\ ~Engaged'
    BY <1>1, <1>4 DEF SendBlock, SkipBlock, Read, ReaderRegisters, Engaged, Sends
  <2>2. ~SendEvent /\ ~SkipEvent
    BY <1>4 DEF SendEvent, SkipEvent, TakeEvent, SendBlock, SkipBlock
  <2> QED BY <2>1, <2>2 DEF Leaves, First
<1>5. CASE Pad
  <2>1. /\ reader.state = "write_4kb_padding" /\ tags' = tags \o fifo
        /\ reader'.state \in {"waiting", "write_4kb_padding"}
    BY <1>1, <1>5 DEF Pad, Read, ReaderRegisters
  <2>2. ~Engaged /\ ~Engaged' BY <2>1 DEF Engaged, Sends
  <2>3. reader'.tag.last = reader.tag.last
    <3>1. CASE tags # <<>> /\ tags' = Tail(tags) \o fifo
      <4>1. Len(Tail(tags) \o fifo) = Len(tags \o fifo) - 1 /\ Len(tags \o fifo) \in Nat
        BY <1>1, <3>1, QueueTail, LenProperties
      <4> QED BY <2>1, <3>1, <4>1
    <3> QED BY <3>1, ReaderLinks DEF AlignInv
  <2>4. ~SendEvent /\ ~SkipEvent /\ ~SendBlock /\ ~SkipBlock
    BY <2>1 DEF SendEvent, SkipEvent, TakeEvent, SendBlock, SkipBlock
  <2> QED BY <2>1, <2>2, <2>3, <2>4 DEF GoesOn, First
<1> QED BY <1>2, <1>3, <1>4, <1>5 DEF ReaderStep

\* What a clock of the writer leaves as it is.
LEMMA KeepsHeld ==
  ASSUME EBTypeOK, NEW f \in Blocks, Wrote(f), Upcoming' \in Blocks, NEW t \in Tag,
         Ordered(f, Upcoming, t), Owned(owner, t)
  PROVE  Ordered(f, Upcoming', t) /\ Owned(owner', t)
<1>1. /\ t.start \in Blocks /\ t.last \in Blocks /\ Upcoming \in Blocks
      /\ Offset(f, t.start) \in Nat /\ Offset(f, t.last) \in 0..(RamBlocks - 1)
      /\ Offset(f, Upcoming) \in Nat /\ Offset(f, Upcoming') \in Nat /\ RamBlocks \in Nat
  BY UpcomingBlock, OffsetShift DEF Tag
<1>2. Ordered(f, Upcoming', t)
  BY <1>1 DEF Ordered, Wrote
<1>3. ASSUME NEW b \in Blocks, Offset(t.start, b) < Offset(t.start, t.last)
      PROVE  owner'[b] = t.start
  <2>1. /\ Offset(t.start, b) \in Nat
        /\ Offset(t.start, t.last) = Offset(f, t.last) - Offset(f, t.start)
    BY <1>1, OffsetShift DEF Ordered
  <2>2. Offset(f, t.start) + Offset(t.start, b) < Offset(f, t.last)
    BY <1>1, <1>3, <2>1
  <2>3. Offset(f, b) = Offset(f, t.start) + Offset(t.start, b)
    <3>1. Offset(f, t.start) + Offset(t.start, b) < RamBlocks
      BY <1>1, <2>1, <2>2
    <3> QED BY <1>1, <3>1, OffsetShift
  <2>4. Offset(f, b) < Offset(f, Upcoming)
    BY <1>1, <2>1, <2>2, <2>3 DEF Ordered
  <2> QED BY <1>3, <2>4 DEF Wrote, Owned
<1> QED BY <1>2, <1>3 DEF Owned

LEMMA QueueWrites ==
  ASSUME EBTypeOK, NEW f \in Blocks, Wrote(f), Upcoming' \in Blocks,
         NEW p \in Seq(Tag), InLine(p, f, Upcoming, owner),
         fifo' = <<>> \/ \E t \in Tag : fifo' = <<t>>
  PROVE  /\ InLine(p \o fifo', f, Upcoming', owner')
         /\ \A l \in Tag : Leads(l, p, f, Upcoming, owner)
              => Leads(l, p \o fifo', f, Upcoming', owner')
<1>1. ASSUME NEW i \in 1..Len(p) PROVE p[i] \in Tag
  BY ElementOfSeq
<1>2. InLine(p, f, Upcoming', owner')
  BY <1>1, KeepsHeld DEF InLine
<1>3. CASE fifo' = <<>>
  <2>1. p \o fifo' = p BY <1>3, ConcatEmptySeq
  <2> QED BY <1>2, <2>1, KeepsHeld DEF Leads
<1>4. CASE \E t \in Tag : fifo' = <<t>>
  <2>1. PICK t \in Tag : fifo' = <<t>> BY <1>4
  <2> DEFINE q == p \o <<t>>
  <2>2. <<t>> \in Seq(Tag) /\ Len(<<t>>) = 1 /\ <<t>>[1] = t OBVIOUS
  <2>3. /\ Len(q) = Len(p) + 1 /\ Len(p) \in Nat
        /\ \A i \in 1..(Len(p) + 1) : q[i] = IF i <= Len(p) THEN p[i] ELSE <<t>>[i - Len(p)]
    BY <2>2, ConcatProperties, LenProperties
  <2>4. /\ \A i \in 1..Len(p) : q[i] = p[i] /\ i \in 1..Len(q)
        /\ q[Len(p) + 1] = t
        /\ \A i \in 1..Len(q) : i \in 1..Len(p) \/ i = Len(p) + 1
    BY <2>2, <2>3
  <2> HIDE DEF q
  <2>5. /\ t.start = Upcoming /\ t.last = Upcoming' /\ Owned(owner', t)
        /\ Offset(f, t.start) < Offset(f, t.last)
    BY <2>1 DEF Wrote
  <2>6. /\ Upcoming \in Blocks /\ Offset(f, Upcoming) \in Nat /\ Offset(f, Upcoming') \in Nat
        /\ \A l \in Tag : Offset(f, l.start) \in Nat /\ Offset(f, l.last) \in Nat
    <3>1. \A b \in Blocks : Offset(f, b) \in Nat BY OffsetShift
    <3>2. \A l \in Tag : l.start \in Blocks /\ l.last \in Blocks BY DEF Tag
    <3> QED BY <3>1, <3>2, UpcomingBlock
  <2>7. Ordered(f, Upcoming', t)
    BY <2>5, <2>6 DEF Ordered
  <2>8. ASSUME NEW i \in 1..Len(q), NEW j \in 1..Len(q), i < j
        PROVE  Offset(f, q[i].last) <= Offset(f, q[j].start)
    <3>1. i \in 1..Len(p) BY <2>3, <2>4, <2>8
    <3>2. CASE j \in 1..Len(p) BY <1>2, <2>4, <2>8, <3>1, <3>2 DEF InLine
    <3>3. CASE j = Len(p) + 1
      <4>1. q[j] = t /\ q[i] = p[i] BY <2>4, <3>1, <3>3
      <4> QED BY <2>5, <3>1, <4>1 DEF InLine, Ordered
    <3> QED BY <2>4, <3>2, <3>3
  <2>9. InLine(q, f, Upcoming', owner')
    BY <1>2, <2>4, <2>5, <2>7, <2>8 DEF InLine
  <2>10. ASSUME NEW l \in Tag, Leads(l, p, f, Upcoming, owner)
         PROVE  Leads(l, q, f, Upcoming', owner')
    <3>1. Ordered(f, Upcoming', l) /\ Owned(owner', l)
      BY <2>10, KeepsHeld DEF Leads
    <3>2. ASSUME NEW i \in 1..Len(q) PROVE Offset(f, l.last) <= Offset(f, q[i].start)
      <4>1. CASE i \in 1..Len(p) BY <2>4, <2>10, <4>1 DEF Leads
      <4>2. CASE i = Len(p) + 1
        BY <2>4, <2>5, <2>10, <4>2 DEF Leads, Ordered
      <4> QED BY <2>4, <4>1, <4>2
    <3> QED BY <3>1, <3>2 DEF Leads
  <2> QED BY <2>1, <2>9, <2>10 DEF q
<1> QED BY <1>3, <1>4

\* The events behind g, seen from g.
LEMMA Shifted ==
  ASSUME NEW f \in Blocks, NEW g \in Blocks, NEW u \in Blocks, NEW o, NEW q \in Seq(Tag),
         InLine(q, f, u, o), \A i \in 1..Len(q) : Offset(f, g) <= Offset(f, q[i].start)
  PROVE  InLine(q, g, u, o)
<1>1. ASSUME NEW i \in 1..Len(q)
      PROVE  /\ Offset(g, q[i].start) = Offset(f, q[i].start) - Offset(f, g)
             /\ Offset(g, q[i].last) = Offset(f, q[i].last) - Offset(f, g)
             /\ Offset(g, u) = Offset(f, u) - Offset(f, g)
             /\ Offset(f, q[i].start) \in Nat /\ Offset(f, q[i].last) \in Nat
             /\ Offset(f, u) \in Nat /\ Offset(f, g) \in Nat
  <2>1. q[i] \in Tag BY ElementOfSeq
  <2>2. q[i].start \in Blocks /\ q[i].last \in Blocks BY <2>1 DEF Tag
  <2>3. /\ Offset(f, g) <= Offset(f, q[i].start)
        /\ Offset(f, q[i].start) < Offset(f, q[i].last) /\ Offset(f, q[i].last) <= Offset(f, u)
    BY DEF InLine, Ordered
  <2>4. /\ Offset(f, q[i].start) \in Nat /\ Offset(f, q[i].last) \in Nat
        /\ Offset(f, u) \in Nat /\ Offset(f, g) \in Nat
    <3>1. \A b \in Blocks : Offset(f, b) \in Nat BY OffsetShift
    <3> QED BY <2>2, <3>1
  <2>5. Offset(f, g) <= Offset(f, q[i].last) /\ Offset(f, g) <= Offset(f, u)
    BY <2>3, <2>4
  <2> QED BY <2>2, <2>3, <2>4, <2>5, OffsetShift
<1>2. ASSUME NEW i \in 1..Len(q) PROVE Ordered(g, u, q[i])
  BY <1>1 DEF InLine, Ordered
<1>3. ASSUME NEW i \in 1..Len(q), NEW j \in 1..Len(q), i < j
      PROVE  Offset(g, q[i].last) <= Offset(g, q[j].start)
  BY <1>1, <1>3 DEF InLine
<1> QED BY <1>2, <1>3 DEF InLine

LEMMA HeldStep ==
  ASSUME AlignInv, HeldInv, ReaderStep, Wrote(First), Upcoming' \in Blocks,
         fifo' = <<>> \/ \E t \in Tag : fifo' = <<t>>
  PROVE  HeldInv'
<1>1. /\ EBTypeOK /\ tags \in Seq(Tag) /\ fifo \in Seq(Tag) /\ tags \o fifo \in Seq(Tag)
      /\ reader.tag \in Tag /\ First \in Blocks /\ reader.tag.last \in Blocks
  <2>1. EBTypeOK /\ tags \in Seq(Tag) /\ fifo \in Seq(Tag) /\ reader.tag \in Tag
    BY FifoType DEF AlignInv, EBTypeOK, ReaderRegisters
  <2> QED BY <2>1, ConcatProperties DEF First, Tag
<1> DEFINE q == tags \o fifo
<1>2. InLine(q, First, Upcoming, owner)
  BY DEF HeldInv
<1> HIDE DEF q
<1>3. q \in Seq(Tag) BY <1>1 DEF q
<1>4. CASE GoesOn
  <2>1. tags' = q /\ First' = First /\ (Engaged' <=> Engaged)
        /\ (Engaged => reader'.tag = reader.tag)
    BY <1>4 DEF GoesOn, q
  <2>2. /\ InLine(q \o fifo', First, Upcoming', owner')
        /\ Engaged => Leads(reader.tag, q \o fifo', First, Upcoming', owner')
    BY <1>1, <1>2, <1>3, QueueWrites DEF HeldInv, q
  <2> QED BY <2>1, <2>2 DEF HeldInv
<1>5. CASE Takes
  <2> DEFINE p == Tail(tags) \o fifo
  <2>1. /\ p \in Seq(Tag) /\ q # <<>> /\ q[1] = Head(tags) /\ Len(p) = Len(q) - 1
        /\ \A i \in 1..Len(p) : p[i] = q[i + 1]
    BY <1>1, <1>5, QueueTail DEF Takes, q
  <2> HIDE DEF p
  <2>2. Len(q) \in Nat \ {0} /\ 1 \in 1..Len(q) /\ q[1] \in Tag
    BY <1>3, <2>1, EmptySeq, LenProperties, ElementOfSeq
  <2>3. ASSUME NEW i \in 1..Len(p) PROVE i + 1 \in 1..Len(q) /\ 1 < i + 1
    BY <2>1, <2>2
  <2>4. InLine(p, First, Upcoming, owner)
    <3>1. ASSUME NEW i \in 1..Len(p), NEW j \in 1..Len(p), i < j
          PROVE  Offset(First, p[i].last) <= Offset(First, p[j].start)
      <4>1. i + 1 < j + 1 BY <3>1
      <4> QED BY <1>2, <2>1, <2>3, <4>1 DEF InLine
    <3> QED BY <1>2, <2>1, <2>3, <3>1 DEF InLine
  <2>5. Leads(q[1], p, First, Upcoming, owner)
    BY <1>2, <2>1, <2>2, <2>3 DEF InLine, Leads
  <2>6. /\ InLine(p \o fifo', First, Upcoming', owner')
        /\ Leads(q[1], p \o fifo', First, Upcoming', owner')
    BY <1>1, <2>1, <2>2, <2>4, <2>5, QueueWrites
  <2>7. tags' = p /\ First' = First /\ reader'.tag = q[1]
    BY <1>5, <2>1 DEF Takes, p
  <2> QED BY <2>6, <2>7 DEF HeldInv
<1>6. CASE Leaves
  <2>1. tags' = q /\ First' = reader.tag.last /\ ~Engaged' /\ Engaged
    BY <1>6 DEF Leaves, q
  <2>2. Leads(reader.tag, q, First, Upcoming, owner)
    BY <2>1 DEF HeldInv, q
  <2>3. /\ InLine(q \o fifo', First, Upcoming', owner')
        /\ Leads(reader.tag, q \o fifo', First, Upcoming', owner')
    BY <1>1, <1>2, <1>3, <2>2, QueueWrites
  <2>4. q \o fifo' \in Seq(Tag)
    <3>1. fifo' \in Seq(Tag)
      <4>1. \A t \in Tag : <<t>> \in Seq(Tag) OBVIOUS
      <4> QED BY <4>1, EmptySeq
    <3> QED BY <1>3, <3>1, ConcatProperties
  <2>5. InLine(q \o fifo', reader.tag.last, Upcoming', owner')
    BY <1>1, <2>3, <2>4, Shifted DEF Leads
  <2> QED BY <2>1, <2>5 DEF HeldInv
<1> QED BY <1>4, <1>5, <1>6, ReaderTurns

-----------------------------------------------------------------------------
\* How far the reader is behind.
LEMMA LoadFacts ==
  ASSUME EBTypeOK, RamSuffices
  PROVE  /\ Load \in Nat /\ Written \in Nat /\ Offset(First, Upcoming) \in Nat
         /\ First \in Blocks /\ Place \in Nat
         /\ Spare \in Nat /\ Spare + Padding + MaxBlocks + 3 = Words
         /\ Limit \in {Spare, Spare + Padding} /\ Limit \in Nat
         /\ reader.pad \in 0..(Padding - 1)
<1>1. /\ Words \in Nat /\ MaxBlocks \in Nat /\ Padding \in Nat /\ MaxBlocks >= 2
  BY RamFacts, WordFacts
<1>2. /\ reader \in ReaderRegisters /\ reader.tag.start \in Blocks /\ reader.tag.last \in Blocks
      /\ reader.add \in Blocks /\ reader.pad \in 0..(Padding - 1) /\ writer.words \in Nat
  BY DEF EBTypeOK, ReaderRegisters, Tag, WriterRegisters
<1>3. Spare \in Nat /\ Spare + Padding + MaxBlocks + 3 = Words
  <2>1. Words - Padding - MaxBlocks - 3 >= 0 BY <1>1 DEF RamSuffices, Spare, Block
  <2> QED BY <1>1, <2>1 DEF Spare
<1>4. First \in Blocks BY <1>2 DEF First
<1>5. Offset(First, Upcoming) \in Nat BY <1>4, UpcomingBlock, OffsetShift
<1>6. Place \in Nat BY <1>2, OffsetShift DEF Place
<1>7. Written \in Nat BY <1>2 DEF Written
<1>8. Load \in Nat BY <1>5, <1>7 DEF Load, Block
<1>9. Limit \in {Spare, Spare + Padding} /\ Limit \in Nat
  BY <1>1, <1>3 DEF Limit
<1> QED BY <1>2, <1>3, <1>4, <1>5, <1>6, <1>7, <1>8, <1>9

LEMMA LoadFits ==
  ASSUME EBTypeOK, RamSuffices, ReaderPlace, LoadInv
  PROVE  Load < Words
<1>1. /\ Load \in Nat /\ Spare \in Nat /\ Spare + Padding + MaxBlocks + 3 = Words
      /\ Limit \in {Spare, Spare + Padding} /\ reader.pad \in 0..(Padding - 1) /\ Place \in Nat
      /\ Padding \in Nat /\ MaxBlocks \in Nat
  BY LoadFacts, RamFacts
<1>2. Engaged => Place < MaxBlocks
  <2>1. HAVE Engaged
  <2>2. /\ Place < Offset(reader.tag.start, reader.tag.last)
        /\ Offset(reader.tag.start, reader.tag.last) \in 2..MaxBlocks
    BY <2>1 DEF ReaderPlace, Proper
  <2> QED BY <1>1, <2>2
<1>3. CASE reader.state = "waiting" BY <1>1, <1>3 DEF LoadInv
<1>4. CASE Sends BY <1>1, <1>2, <1>4 DEF LoadInv, Engaged
<1>5. CASE reader.state = "skip_event" BY <1>1, <1>2, <1>5 DEF LoadInv, Engaged
<1>6. CASE reader.state = "wait_last_word" BY <1>1, <1>6 DEF LoadInv
<1>7. CASE reader.state = "write_4kb_padding" BY <1>1, <1>7 DEF LoadInv
<1> QED BY <1>3, <1>4, <1>5, <1>6, <1>7 DEF EBTypeOK, ReaderRegisters, Sends

\* A reader that finds no tag has caught up.
LEMMA CaughtUp ==
  ASSUME AlignInv, RamSuffices, ProperTags, WriterPlace, WrittenInv,
         reader.state = "waiting", tags = <<>>
  PROVE  Load <= Block * MaxBlocks + 1
<1>1. /\ EBTypeOK /\ writer \in WriterRegisters /\ writer.words \in Nat
      /\ MaxBlocks \in Nat /\ MaxData \in Nat /\ Header + MaxData + 1 <= 8 * MaxBlocks
      /\ Block * MaxBlocks = 8 * MaxBlocks
  BY RamFacts DEF AlignInv, EBTypeOK, WriterRegisters, Block
<1>2. First = reader.tag.last /\ First \in Blocks
  BY <1>1, LoadFacts DEF First, Engaged, Sends
<1>3. CASE fifo = <<>>
  <2>1. Upcoming = First
    <3>1. tags \o fifo = <<>> BY <1>3, EmptySeq, ConcatEmptySeq
    <3> QED BY <1>2, <3>1 DEF AlignInv, Chain, Linked
  <2>2. Offset(First, Upcoming) = 0
    BY <1>2, <2>1, OffsetNext
  <2>3. Written <= Block * MaxBlocks + 1
    <3>1. CASE writer.state = "idle" BY <1>1, <3>1 DEF Written
    <3>2. CASE writer.state \in Appending
      BY <1>1, <3>2 DEF Written, WriterPlace, PlaceOf, Appending, Header
    <3>3. CASE writer.state \notin Appending \cup {"idle"}
      <4>1. PICK m \in 2..MaxBlocks : writer.words = Block * m + 1
        BY <3>3 DEF WriterPlace, PlaceOf
      <4> QED BY <1>1, <3>3, <4>1 DEF Written, Block
    <3> QED BY <3>1, <3>2, <3>3
  <2> QED BY <1>1, <2>2, <2>3, LoadFacts DEF Load, Block
<1>4. CASE \E t \in Tag : fifo = <<t>>
  <2>1. PICK t \in Tag : fifo = <<t>> BY <1>4
  <2>2. <<t>> \in Seq(Tag) /\ Len(<<t>>) = 1 /\ <<t>>[1] = t /\ <<t>> # <<>> OBVIOUS
  <2>3. tags \o fifo = <<t>> BY <2>1, <2>2, ConcatEmptySeq
  <2>4. t.start = First /\ t.last = Upcoming
    BY <1>2, <2>2, <2>3 DEF AlignInv, Chain, Linked
  <2>5. Offset(First, Upcoming) \in 2..MaxBlocks
    BY <2>1, <2>2, <2>4 DEF ProperTags, Proper
  <2>6. Written = 0 BY <2>1, <2>2 DEF WrittenInv, Written
  <2> QED BY <1>1, <2>5, <2>6 DEF Load, Block
<1> QED BY <1>1, <1>3, <1>4 DEF EBTypeOK

\* In a clock the load grows by a word, or an event is done with.
LEMMA LoadGrows ==
  ASSUME AlignInv, HeldInv, ReaderPlace, RamSuffices, ReaderStep, Wrote(First),
         EBTypeOK', Upcoming' \in Blocks
  PROVE  /\ Load' \in Nat /\ Load' <= Load + 1
         /\ (SendBlock \/ SkipBlock) /\ AtLast => Load' + 15 + Place <= Load + 1
<1>1. /\ EBTypeOK /\ Load \in Nat /\ First \in Blocks /\ Upcoming' \in Blocks /\ Place \in Nat
      /\ Offset(First, Upcoming) \in Nat
  BY LoadFacts DEF AlignInv
<1>2. /\ Offset(First, Upcoming') \in Nat /\ Written' \in Nat
      /\ Block * Offset(First, Upcoming') + Written' <= Load + 1
  <2>1. Offset(First, Upcoming') \in Nat BY <1>1, OffsetShift
  <2>2. Written' \in Nat BY DEF EBTypeOK, WriterRegisters, Written
  <2> QED BY <2>1, <2>2 DEF Wrote, Load
<1>3. CASE GoesOn \/ Takes
  <2>1. First' = First /\ ~Leaves BY <1>3 DEF GoesOn, Takes, Leaves
  <2>2. Load' = Block * Offset(First, Upcoming') + Written' BY <2>1 DEF Load
  <2> QED BY <1>2, <2>1, <2>2, ReaderTurns DEF Block
<1>4. CASE Leaves
  <2> DEFINE n == Offset(reader.tag.start, reader.tag.last)
  <2>1. /\ First = reader.tag.start /\ First' = reader.tag.last /\ Engaged
        /\ reader.tag.start \in Blocks /\ reader.tag.last \in Blocks
    BY <1>1, <1>4 DEF Leaves, First, EBTypeOK, ReaderRegisters, Tag
  <2>2. n \in Nat /\ n >= 2 /\ n >= Place + 1
    <3>1. n \in 2..MaxBlocks /\ Place < n BY <2>1 DEF ReaderPlace, Proper
    <3> QED BY <1>1, <3>1, RamFacts
  <2>3. n <= Offset(First, Upcoming)
    BY <2>1 DEF HeldInv, Leads, Ordered
  <2>4. Offset(First', Upcoming') = Offset(First, Upcoming') - n
    <3>1. n <= Offset(First, Upcoming') BY <1>1, <1>2, <2>2, <2>3 DEF Wrote
    <3> QED BY <1>1, <2>1, <3>1, OffsetShift
  <2> HIDE DEF n
  <2>5. Load' = Block * (Offset(First, Upcoming') - n) + Written'
    BY <2>4 DEF Load
  <2>6. Offset(First', Upcoming') \in Nat
    BY <1>1, <2>1, OffsetShift
  <2>7. Load' \in Nat BY <1>2, <2>6 DEF Load, Block
  <2>8. Load' + 8 * n <= Load + 1
    BY <1>2, <2>2, <2>5 DEF Block
  <2>9. ASSUME NEW a \in Nat, NEW b \in Nat, NEW p \in Nat, b + 8 * n <= a + 1, n >= p + 1
        PROVE  b <= a + 1 /\ b + 15 + p <= a + 1
    BY <2>2, <2>9
  <2> QED BY <1>1, <2>2, <2>7, <2>8, <2>9
<1> QED BY <1>3, <1>4, ReaderTurns

\* The limit grows when the DMA is disabled, and when it is enabled the software
\* has waited.
LEMMA LimitKept ==
  ASSUME EBTypeOK, EBTypeOK', RamSuffices, Patient, Software, reader'.done = Idled.done
  PROVE  \/ Limit <= Limit'
         \/ Load < Spare /\ Limit' = Spare
<1>1. Spare \in Nat /\ Padding \in Nat /\ reader \in ReaderRegisters /\ reader.done \in BOOLEAN
      /\ wen \in BOOLEAN /\ wen' \in BOOLEAN
  BY LoadFacts, RamFacts DEF EBTypeOK, ReaderRegisters
<1>2. CASE wen
  <2>1. reader'.done = reader.done BY <1>2 DEF Idled
  <2>2. Limit' = IF wen' /\ ~reader'.done THEN Spare ELSE Spare + Padding
    BY DEF Limit, Spare
  <2> QED BY <1>1, <1>2, <2>1, <2>2 DEF Limit
<1>3. CASE ~wen /\ ~wen'
  <2>1. Limit' = Spare + Padding /\ Limit = Spare + Padding BY <1>3 DEF Limit, Spare
  <2> QED BY <1>1, <2>1
<1>4. CASE ~wen /\ wen'
  <2>1. Load < Spare BY <1>4 DEF Patient
  <2>2. ~reader'.done
    <3>1. Idled.done = FALSE BY <1>1, <1>4 DEF Idled, ReaderRegisters
    <3> QED BY <3>1
  <2>3. Limit' = Spare BY <1>4, <2>2 DEF Limit, Spare
  <2> QED BY <2>1, <2>3
<1> QED BY <1>1, <1>2, <1>3, <1>4

\* From a load a, a place p and a limit m to a load b, a place q and a limit n.
LEMMA LoadSums ==
  ASSUME NEW a \in Nat, NEW b \in Nat, NEW p \in Nat, NEW q \in Nat, NEW n \in Nat,
         NEW s \in Nat, b <= a + 1, s <= n
  PROVE  /\ a <= s + 1 + p /\ q = p + 1 => b <= s + 1 + q
         /\ a <= s + 1 + p /\ b + 15 + p <= a + 1 => b + 2 <= s /\ b <= n
OBVIOUS

LEMMA LimitSums ==
  ASSUME NEW a \in Nat, NEW b \in Nat, NEW p \in Nat, NEW q \in Nat, NEW m \in Nat,
         NEW n \in Nat, b <= a + 1, m <= n
  PROVE  /\ a <= m => b <= n + 1 + q
         /\ a <= m + 1 + p /\ b + 15 + p <= a + 1 => b <= n
OBVIOUS

\* How far the reader is behind, after a clock.
LEMMA LoadStep ==
  ASSUME AlignInv, ReaderAligned, WriterPlace, ProperTags, ReaderPlace,
         HeldInv, WrittenInv, LoadInv, RamSuffices,
         ReaderStep, Software, Patient, Wrote(First), EBTypeOK', Upcoming' \in Blocks
  PROVE  LoadInv'
<1>1. /\ EBTypeOK /\ Load \in Nat /\ Load' \in Nat /\ Load' <= Load + 1
      /\ Place \in Nat /\ Place' \in Nat /\ Padding \in Nat
      /\ Spare \in Nat
      /\ Limit \in Nat /\ Limit' \in Nat /\ Spare <= Limit'
      /\ reader.pad \in Nat /\ Spare' = Spare
  <2>1. Place' \in Nat
    <3>1. reader'.tag.start \in Blocks /\ reader'.add \in Blocks
      BY DEF EBTypeOK, ReaderRegisters, Tag
    <3> QED BY <3>1, OffsetShift DEF Place
  <2>2. Spare' = Spare BY DEF Spare, Words, MaxBlocks
  <2>3. Limit' \in {Spare, Spare + Padding} BY <2>2 DEF Limit
  <2>4. Load \in Nat /\ Spare \in Nat /\ Limit \in Nat /\ Place \in Nat /\ reader.pad \in Nat
    BY LoadFacts, RamFacts DEF AlignInv
  <2>5. Padding \in Nat BY RamFacts
  <2>6. Load' \in Nat /\ Load' <= Load + 1 BY LoadGrows
  <2>7. Limit' \in Nat /\ Spare <= Limit' BY <2>3, <2>4, <2>5
  <2> QED BY <2>1, <2>2, <2>4, <2>5, <2>6, <2>7 DEF AlignInv
<1>2. /\ reader \in ReaderRegisters /\ Idled \in ReaderRegisters
      /\ Idled.state = reader.state /\ Idled.tag = reader.tag /\ Idled.pad = reader.pad
  BY <1>1, IdledTypes DEF EBTypeOK
<1>3. reader'.done = Idled.done => \/ Limit <= Limit'
                                   \/ Load < Spare /\ Limit' = Spare
  BY <1>1, LimitKept
<1>4. /\ GetData \/ ((SendBlock \/ SkipBlock) /\ ~AtLast) => Place' = Place + 1
      /\ reader.state = "waiting" /\ Engaged' => Place' = 0
  BY ReaderPlaceStep
<1>13. ASSUME Load < Spare, Limit' = Spare PROVE Load' <= Limit' /\ Load' <= Limit' + 1 + Place'
  <2>1. Load' <= Limit' BY <1>1, <1>13
  <2>2. \A b, n, q \in Nat : b <= n => b <= n + 1 + q OBVIOUS
  <2> QED BY <1>1, <2>1, <2>2
<1>5. CASE Wait
  <2>1. reader'.state = "waiting" BY <1>2, <1>5 DEF Wait, Read
  <2>2. Load <= Block * MaxBlocks + 1 BY <1>5, CaughtUp DEF Wait
  <2>3. Block * MaxBlocks \in Nat /\ Block * MaxBlocks + 2 <= Spare
    BY RamFacts DEF Block, RamSuffices
  <2>4. Load' <= Limit' BY <1>1, <2>2, <2>3
  <2> QED BY <2>1, <2>4 DEF LoadInv, Sends
<1>6. CASE SendEvent
  <2>1. reader.state = "waiting" /\ reader'.state = "get_data"
    BY <1>2, <1>6 DEF SendEvent, TakeEvent, ReaderRegisters
  <2>2. Load <= Spare BY <1>6, <2>1 DEF LoadInv, SendEvent, Limit
  <2>3. Place' = 0 BY <1>4, <2>1 DEF Engaged, Sends
  <2>4. Load' <= Spare' + 1 + Place' BY <1>1, <2>2, <2>3
  <2> QED BY <2>1, <2>4 DEF LoadInv
<1>7. CASE SkipEvent
  <2>1. reader.state = "waiting" /\ reader'.state = "skip_event" /\ reader'.done = Idled.done
    BY <1>2, <1>7 DEF SkipEvent, TakeEvent, ReaderRegisters
  <2>2. Load <= Limit BY <2>1 DEF LoadInv
  <2>4. Limit <= Limit' \/ (Load < Spare /\ Limit' = Spare) BY <1>3, <2>1
  <2>3. Load' <= Limit' + 1 + Place' BY <1>1, <1>13, <2>2, <2>4, LimitSums
  <2> QED BY <2>1, <2>3 DEF LoadInv, Sends
<1>8. CASE GetData \/ (SendBlock /\ ~AtLast)
  <2>1. Sends /\ reader'.state \in {"set_serial_number", "runing"}
    BY <1>2, <1>8 DEF GetData, SendBlock, Read, ReaderRegisters, Sends
  <2>2. Load <= Spare + 1 + Place BY <2>1 DEF LoadInv
  <2>3. Place' = Place + 1 BY <1>4, <1>8
  <2>4. Load' <= Spare + 1 + Place' BY <1>1, <2>2, <2>3, LoadSums
  <2> QED BY <1>1, <2>1, <2>4 DEF LoadInv
<1>9. CASE SendBlock /\ AtLast
  <2>1. Sends /\ reader'.state \in {"waiting", "wait_last_word"}
    BY <1>2, <1>9 DEF SendBlock, Read, ReaderRegisters, Sends
  <2>2. Load <= Spare + 1 + Place BY <2>1 DEF LoadInv
  <2>3. Load' + 15 + Place <= Load + 1 BY <1>9, LoadGrows
  <2>4. Load' + 2 <= Spare /\ Load' <= Limit' BY <1>1, <2>2, <2>3, LoadSums
  <2> QED BY <1>1, <2>1, <2>4 DEF LoadInv, Sends
<1>10. CASE SkipBlock
  <2>1. /\ reader.state = "skip_event" /\ reader'.done = Idled.done
        /\ reader'.state = IF AtLast THEN "waiting" ELSE "skip_event"
    BY <1>2, <1>10 DEF SkipBlock, Read, ReaderRegisters
  <2>2. Load <= Limit + 1 + Place BY <2>1 DEF LoadInv
  <2>5. Limit <= Limit' \/ (Load < Spare /\ Limit' = Spare) BY <1>3, <2>1
  <2>3. CASE AtLast
    <3>1. Load' + 15 + Place <= Load + 1 BY <1>10, <2>3, LoadGrows
    <3>2. Load' <= Limit' BY <1>1, <1>13, <2>2, <2>5, <3>1, LimitSums
    <3> QED BY <2>1, <2>3, <3>2 DEF LoadInv, Sends
  <2>4. CASE ~AtLast
    <3>1. Place' = Place + 1 BY <1>4, <1>10, <2>4
    <3>2. \A a, b, p, m, n \in Nat :
             b <= a + 1 /\ a <= m + 1 + p /\ m <= n => b <= n + 1 + (p + 1)
      OBVIOUS
    <3>3. Limit <= Limit' => Load' <= Limit' + 1 + (Place + 1) BY <1>1, <2>2, <3>2
    <3>4. Load' <= Limit' + 1 + Place' BY <1>13, <2>5, <3>1, <3>3
    <3> QED BY <2>1, <2>4, <3>4 DEF LoadInv, Sends
  <2> QED BY <2>3, <2>4
<1>11. CASE EndOfEvent
  <2>1. /\ reader.state = "wait_last_word" /\ reader'.state = "write_4kb_padding"
        /\ reader'.pad = reader.pad
    BY <1>2, <1>11 DEF EndOfEvent, Read, ReaderRegisters
  <2>2. Load + 2 <= Spare BY <2>1 DEF LoadInv
  <2>3. Load' + 1 <= Spare' + reader'.pad /\ Load' <= Spare' + reader'.pad
    BY <1>1, <2>1, <2>2
  <2>4. Load' + (IF reader'.tag.error THEN 1 ELSE 0) <= Spare' + reader'.pad
    <3>1. CASE reader'.tag.error BY <2>3, <3>1
    <3>2. CASE ~reader'.tag.error
      <4>1. \A n \in Nat : n + 0 = n OBVIOUS
      <4> QED BY <1>1, <2>3, <3>2, <4>1
    <3> QED BY <3>1, <3>2
  <2> QED BY <2>1, <2>4 DEF LoadInv, Sends
<1>12. CASE Pad
  <2>1. reader.state = "write_4kb_padding" BY <1>12 DEF Pad
  <2>2. CASE reader.tag.error
    <3>1. reader' = [Idled EXCEPT !.tag.error = FALSE] BY <1>12, <2>2 DEF Pad, Read
    <3>2. reader'.state = reader.state /\ reader'.pad = reader.pad /\ ~reader'.tag.error
      BY <1>2, <3>1 DEF ReaderRegisters, Tag
    <3>3. Load + 1 <= Spare + reader.pad BY <2>1, <2>2 DEF LoadInv
    <3>4. Load' + 0 <= Spare' + reader'.pad BY <1>1, <3>2, <3>3
    <3> QED BY <2>1, <3>2, <3>4 DEF LoadInv, Sends
  <2>3. ASSUME ~reader.tag.error PROVE Load <= Spare + reader.pad
    <3>1. Load + 0 <= Spare + reader.pad BY <2>1, <2>3 DEF LoadInv
    <3> QED BY <1>1, <3>1
  <2>4. CASE ~reader.tag.error /\ reader.pad # Padding - 1
    <3>1. reader' = [Idled EXCEPT !.pad = @ + 1] BY <1>12, <2>4 DEF Pad, Read
    <3>2. /\ reader'.state = reader.state /\ reader'.pad = reader.pad + 1
          /\ ~reader'.tag.error
      BY <1>2, <2>4, <3>1 DEF ReaderRegisters
    <3>3. Load' + 0 <= Spare' + reader'.pad BY <1>1, <2>3, <2>4, <3>2
    <3> QED BY <2>1, <3>2, <3>3 DEF LoadInv, Sends
  <2>5. CASE ~reader.tag.error /\ reader.pad = Padding - 1
    <3>1. reader'.state = "waiting" /\ reader'.done = TRUE
      BY <1>2, <1>12, <2>5 DEF Pad, Read, ReaderRegisters
    <3>2. Limit' = Spare + Padding BY <1>1, <3>1 DEF Limit
    <3>3. Load' <= Limit' BY <1>1, <2>3, <2>5, <3>2
    <3> QED BY <3>1, <3>3 DEF LoadInv, Sends
  <2> QED BY <2>2, <2>4, <2>5
<1> QED BY <1>5, <1>6, <1>7, <1>8, <1>9, <1>10, <1>11, <1>12 DEF ReaderStep

-----------------------------------------------------------------------------
HeldAll == HeldInv /\ WrittenInv /\ LoadInv

LEMMA HeldAllStep ==
  ASSUME EventInv, EventInv', ReaderAligned, HeldAll, RamSuffices, EBNext, Patient
  PROVE  HeldAll'
<1>1. /\ WriterStep /\ ReaderStep /\ Software
      /\ AlignInv /\ WriterPlace /\ ProperTags /\ ReaderPlace
      /\ HeldInv /\ WrittenInv /\ LoadInv /\ EBTypeOK /\ EBTypeOK'
  BY DEF EventInv, AlignInv, HeldAll, EBNext, Clock
<1>2. First \in Blocks BY <1>1, LoadFacts
<1>3. Load < Words BY <1>1, LoadFits
<1>4. Wrote(First) BY <1>1, <1>2, <1>3, WriterRam DEF Load
<1>5. Upcoming' \in Blocks
  <2>1. /\ writer'.start \in Addresses /\ Wrap(writer'.add + 1) \in Addresses
    <3>1. writer' \in WriterRegisters BY <1>1 DEF EBTypeOK
    <3> QED BY <3>1, WrapType DEF WriterRegisters
  <2> QED BY <2>1, WordFacts DEF Upcoming, NextAddress
<1>6. fifo' = <<>> \/ \E t \in Tag : fifo' = <<t>>
  BY <1>1 DEF EBTypeOK
<1>7. HeldInv' BY <1>1, <1>4, <1>5, <1>6, HeldStep
<1>8. WrittenInv' BY <1>4 DEF Wrote
<1>9. LoadInv' BY <1>1, <1>4, <1>5, LoadStep
<1> QED BY <1>7, <1>8, <1>9 DEF HeldAll

LEMMA HeldAllInit == ASSUME EBInit, EBTypeOK, RamSuffices PROVE HeldAll
<1>1. /\ tags = <<>> /\ fifo = <<>> /\ writer.state = "idle" /\ reader.state = "waiting"
      /\ reader.tag.last = 0
  BY DEF EBInit
<1>2. ~Engaged BY <1>1 DEF Engaged, Sends
<1>3. tags \o fifo = <<>> BY <1>1, EmptySeq, ConcatEmptySeq
<1>4. HeldInv
  <2>1. \A f, u, o : InLine(<<>>, f, u, o) BY DEF InLine
  <2> QED BY <1>2, <1>3, <2>1 DEF HeldInv
<1>5. WrittenInv BY <1>1 DEF WrittenInv, Begun
<1>6. First = 0 BY <1>1, <1>2 DEF First
<1>7. Upcoming = 0
  <2>1. Wrap(Words - 1 + 1) = 0 BY WordFacts DEF Wrap
  <2> QED BY <2>1 DEF EBInit, Upcoming, NextAddress, BlockOf, Block
<1>8. Load = 0
  <2>1. Offset(0, 0) = 0
    <3>1. 0 \in Blocks BY WordFacts DEF Blocks
    <3> QED BY <3>1, OffsetNext
  <2> QED BY <1>1, <1>6, <1>7, <2>1 DEF Load, Written, Block
<1>9. LoadInv BY <1>1, <1>8, LoadFacts DEF LoadInv, Sends
<1> QED BY <1>4, <1>5, <1>9 DEF HeldAll

\* A software that enables the DMA only while the reader finds no tag is patient.
LEMMA DrainedIsPatient ==
  ASSUME EventInv, HeldAll, RamSuffices, ~wen /\ wen' => reader.state = "waiting" /\ tags = <<>>
  PROVE  Patient
<1>1. Block * MaxBlocks \in Nat /\ Spare \in Nat /\ Load \in Nat
      /\ Block * MaxBlocks + 2 <= Spare
  BY LoadFacts, RamFacts DEF EventInv, AlignInv, Block, RamSuffices
<1>2. ASSUME reader.state = "waiting", tags = <<>> PROVE Load < Spare
  <2>1. Load <= Block * MaxBlocks + 1 BY <1>2, CaughtUp DEF EventInv, HeldAll
  <2> QED BY <1>1, <2>1
<1> QED BY <1>2 DEF Patient

\* In a RAM with room for the longest event and for what comes while it is sent and
\* while a buffer is padded, and under a software that enables the DMA only when
\* the reader has caught up with the last padding, every block that is sent is one
\* of the event that the reader is at, as the writer left it, although nothing in
\* the hardware keeps the writer from the reader's blocks.
THEOREM BlocksStayIntact ==
  ASSUME RamSuffices
  PROVE  EBSpec /\ [][Patient]_vars => []BlocksIntact
<1>1. EBInit /\ EventInv => HeldAll
  BY HeldAllInit DEF EventInv, AlignInv
<1>2. EventInv /\ EventInv' /\ ReaderAligned /\ HeldAll /\ [EBNext]_vars /\ [Patient]_vars
        => HeldAll'
  <2> SUFFICES ASSUME EventInv, EventInv', ReaderAligned, HeldAll, [EBNext]_vars, [Patient]_vars
               PROVE  HeldAll'
    OBVIOUS
  <2>1. CASE EBNext /\ Patient BY <2>1, HeldAllStep
  <2>2. CASE UNCHANGED vars
    <3>1. Upcoming' = Upcoming /\ Engaged' = Engaged /\ Limit' = Limit /\ Place' = Place
          /\ Sends' = Sends
      BY <2>2 DEF vars, Upcoming, NextAddress, Engaged, Sends, Limit, Spare, Place
    <3>2. First' = First BY <2>2, <3>1 DEF vars, First
    <3>3. Load' = Load BY <2>2, <3>1, <3>2 DEF vars, Load, Written
    <3> QED BY <2>2, <3>1, <3>2, <3>3 DEF vars, HeldAll, HeldInv, WrittenInv, LoadInv, Spare
  <2> QED BY <2>1, <2>2
<1>3. EventInv /\ HeldAll => BlocksIntact
  <2> SUFFICES ASSUME EventInv, HeldAll, Sends
               PROVE  /\ owner[reader.add] = reader.tag.start
                      /\ (reader.add + RamBlocks - reader.tag.start) % RamBlocks
                           < (reader.tag.last + RamBlocks - reader.tag.start) % RamBlocks
    BY DEF BlocksIntact
  <2>1. Place < Offset(reader.tag.start, reader.tag.last)
    BY DEF EventInv, ReaderPlace, Engaged
  <2>2. Owned(owner, reader.tag) BY DEF HeldAll, HeldInv, Leads, Engaged
  <2>3. reader.add \in Blocks BY DEF EventInv, AlignInv, EBTypeOK, ReaderRegisters
  <2> QED BY <2>1, <2>2, <2>3 DEF Owned, Place, Offset
<1> QED BY <1>1, <1>2, <1>3, EventsWhole, Aligned, PTL DEF EBSpec
=============================================================================
