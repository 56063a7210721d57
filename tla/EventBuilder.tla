---------------------------- MODULE EventBuilder ----------------------------
(***************************************************************************)
(* The event builder of the switching board                                *)
(* (common/firmware/a10/swb/swb_midas_event_builder.vhd).  A writer wraps  *)
(* each packet of the merged stream into a MIDAS event in a circular RAM,  *)
(* word by word, and puts the end of the event into a tagging FIFO.  A     *)
(* reader takes the events in blocks of 256 bits, eight words, and sends   *)
(* them to the DMA or, while none is enabled, skips them.  Neither looks   *)
(* at where the other is in the RAM.                                       *)
(*                                                                         *)
(* One step is one clock of both, in which the software may also write its *)
(* register.  Addresses count modulo the RAM.                              *)
(***************************************************************************)
EXTENDS Naturals, Sequences

CONSTANTS
  RamBlocks,    \* blocks in the RAM (512)
  Padding,      \* blocks written after the last event of a buffer (128)
  MaxData,      \* words of the longest packet
  Requests      \* the values of GET_N_DMA_WORDS, in blocks

Block == 8
Header == 10    \* event header, bank header and bank name
\* Blocks of the longest event: header, packet and counters.
MaxBlocks == (Header + MaxData + 1 + Block - 1) \div Block

ASSUME EventBuilderAssumption ==
  /\ {RamBlocks, Padding, MaxData} \subseteq Nat \ {0} /\ MaxData > 1
  /\ Requests \subseteq Nat
  /\ 2 * MaxBlocks < RamBlocks

VARIABLES
  writer,   \* event_tagging_state, its addresses and is_error
  owner,    \* observer: the event, by its first block, that last wrote into a block
  fifo,     \* the tag on its way into the FIFO (w_fifo_en, w_fifo_data), or none
  tags,     \* the tagging FIFO
  reader,   \* event_counter_state and its registers; tag.error is is_error_q
  wen,      \* i_wen: the DMA is enabled
  request,  \* i_get_n_words
  buffer    \* observer: the blocks of the DMA buffer since it was enabled

vars == <<writer, owner, fifo, tags, reader, wen, request, buffer>>

Words == RamBlocks * Block
Wrap(a) == a % Words
BlockOf(a) == a \div Block
Addresses == 0..(Words - 1)
Blocks == 0..(RamBlocks - 1)
\* Where the next event starts, and the error flag; start is known to the
\* observer only.
Tag == [last : Blocks, error : BOOLEAN, start : Blocks]

EBInit ==
  /\ writer = [state |-> "idle", add |-> Words - 1, start |-> 0, words |-> 0,
               next |-> 0, error |-> FALSE]
  /\ owner = [b \in Blocks |-> 0]
  /\ fifo = <<>> /\ tags = <<>>
  /\ reader = [state |-> "waiting", add |-> RamBlocks - 1, counter |-> 0,
               written |-> FALSE, done |-> FALSE, pad |-> 0,
               tag |-> [last |-> 0, error |-> FALSE, start |-> 0]]
  /\ wen = FALSE /\ request = 0
  /\ buffer = [blocks |-> 0, clean |-> TRUE, error |-> FALSE]

-----------------------------------------------------------------------------
(***************************************************************************)
(* The writer.                                                             *)
(***************************************************************************)
NextAddress == Wrap(writer.add + 1)
\* The registers become w, and a word is written to address a, or none is.
Write(a, w) ==
  /\ writer' = w /\ fifo' = <<>>
  /\ owner' = [owner EXCEPT ![BlockOf(a)] = BlockOf(writer.start)]
WriteNothing(w) == writer' = w /\ fifo' = <<>> /\ UNCHANGED owner
\* One word more, behind the last one.
AppendWord(state, error) ==
  Write(NextAddress, [writer EXCEPT !.state = state, !.add = NextAddress,
                                    !.words = @ + 1, !.error = error])

\* In idle and in bank_data the stream may be empty.
Pause == writer.state \in {"idle", "bank_data"} /\ WriteNothing(writer)

StartEvent ==
  /\ writer.state = "idle"
  /\ WriteNothing([writer EXCEPT !.state = "header", !.start = NextAddress, !.words = 0])

\* event_head to bank_reserved, one word in each clock.
WriteHeader ==
  /\ writer.state = "header"
  /\ AppendWord(IF writer.words + 1 = Header THEN "bank_data" ELSE "header", writer.error)

\* bank_data copies the packet, which has a first and a last word; is_error is
\* set here and never cleared.
WriteData ==
  /\ writer.state = "bank_data"
  /\ \E eop, err \in BOOLEAN :
       /\ IF eop THEN writer.words > Header ELSE writer.words < Header + MaxData - 1
       /\ AppendWord(IF eop THEN "set_header_cnt" ELSE "bank_data", writer.error \/ err)

WriteCounters ==
  writer.state = "set_header_cnt" /\ AppendWord("set_algin_word", writer.error)

\* Dummy words up to, and with, the first word of the next block.
AlignDone == writer.words % Block = 0
Align ==
  /\ writer.state = "set_algin_word"
  /\ AppendWord(IF AlignDone THEN "bank_set_length" ELSE "set_algin_word", writer.error)

\* The sizes are written back into the header.  w_ram_add_reg keeps the address
\* of the last dummy word, at which the next event will start.
HeaderWord(i) == Wrap(writer.start + i)
SetSizes ==
  \/ /\ writer.state = "bank_set_length"
     /\ Write(HeaderWord(8), [writer EXCEPT !.state = "event_set_size", !.next = writer.add])
  \/ /\ writer.state = "event_set_size"
     /\ Write(HeaderWord(3), [writer EXCEPT !.state = "bank_set_size"])
  \/ /\ writer.state = "bank_set_size"
     /\ Write(HeaderWord(4), [writer EXCEPT !.state = "write_tagging_fifo"])

\* (mutant: the next event starts behind the last dummy word)
AfterDummy == writer.next
BeforeDummy == Wrap(writer.next + Words - 1)
WriteTag ==
  /\ writer.state = "write_tagging_fifo"
  /\ writer' = [writer EXCEPT !.state = "idle", !.add = BeforeDummy]
  /\ fifo' = <<[last |-> BlockOf(writer.next), error |-> writer.error,
                start |-> BlockOf(writer.start)]>>
  /\ UNCHANGED owner

WriterStep ==
  \/ Pause \/ StartEvent \/ WriteHeader \/ WriteData \/ WriteCounters
  \/ Align \/ SetSizes \/ WriteTag

-----------------------------------------------------------------------------
(***************************************************************************)
(* The reader.  It samples its registers as they were; what a state        *)
(* assigns wins over what the disabled DMA clears.  A tag leaves the FIFO  *)
(* when it is taken; r_fifo_en does so a clock later, still before the     *)
(* reader looks again.                                                     *)
(***************************************************************************)
Sends == reader.state \in {"get_data", "set_serial_number", "runing"}
NextBlock(a) == (a + 1) % RamBlocks
\* The block that is sent or skipped is the last of its event.
AtLastLate == reader.add = reader.tag.last        \* mutant: one block too far
AtLast == NextBlock(reader.add) = reader.tag.last

\* Registers when the DMA is disabled.
Idled == IF wen THEN reader
         ELSE [reader EXCEPT !.counter = 0, !.done = FALSE, !.written = FALSE]
Read(r) == reader' = r /\ tags' = tags \o fifo
TakeEvent(r) ==
  /\ reader.state = "waiting" /\ tags # <<>>
  /\ reader' = [r EXCEPT !.tag = Head(tags), !.add = NextBlock(reader.add)]
  /\ tags' = Tail(tags) \o fifo

\* (mutant: an event may be kept until the next one is there)
WaitForNext == reader.state = "waiting" /\ Len(tags) <= 1 /\ Read(Idled)
Wait == reader.state = "waiting" /\ tags = <<>> /\ Read(Idled)

\* (mutant: every event loads the counter again)
EachEvent == TRUE
FirstEvent == ~reader.written
SendEvent ==
  /\ wen /\ request # 0 /\ ~reader.done
  /\ TakeEvent([reader EXCEPT !.state = "get_data", !.written = TRUE,
                              !.counter = IF FirstEvent THEN request ELSE @])
\* i_dmamemhalffull is free, so that an event may be skipped at any time.
SkipEvent == TakeEvent([Idled EXCEPT !.state = "skip_event"])

\* (mutant: the counter goes below zero)
CountOn == reader.counter - 1
Counted == IF reader.counter # 0 THEN reader.counter - 1 ELSE Idled.counter

\* get_data never looks whether its block is the last one.
GetData ==
  /\ reader.state = "get_data"
  /\ Read([Idled EXCEPT !.state = "set_serial_number", !.counter = Counted,
                        !.add = NextBlock(reader.add)])

\* (mutant: the buffer ends as soon as one block is missing)
NearlyFull == reader.counter <= 1
Full == reader.counter = 0
SendBlock ==
  /\ reader.state \in {"set_serial_number", "runing"}
  /\ \/ /\ ~AtLast
        /\ Read([Idled EXCEPT !.state = "runing", !.counter = Counted,
                              !.add = NextBlock(reader.add)])
     \/ /\ AtLast /\ (reader.tag.error \/ Full)
        /\ Read([Idled EXCEPT !.state = "wait_last_word", !.counter = Counted, !.pad = 0])
     \/ /\ AtLast /\ ~(reader.tag.error \/ Full)
        /\ Read([Idled EXCEPT !.state = "waiting", !.counter = Counted])

SkipBlock ==
  /\ reader.state = "skip_event"
  /\ \/ ~AtLast /\ Read([Idled EXCEPT !.add = NextBlock(reader.add)])
     \/ AtLast /\ Read([Idled EXCEPT !.state = "waiting"])

EndOfEvent ==
  reader.state = "wait_last_word" /\ Read([Idled EXCEPT !.state = "write_4kb_padding"])

\* An error costs one clock more; done is set even if the DMA is disabled.
Pad ==
  /\ reader.state = "write_4kb_padding"
  /\ \/ reader.tag.error /\ Read([Idled EXCEPT !.tag.error = FALSE])
     \/ /\ ~reader.tag.error /\ reader.pad # Padding - 1
        /\ Read([Idled EXCEPT !.pad = @ + 1])
     \/ /\ ~reader.tag.error /\ reader.pad = Padding - 1
        /\ Read([Idled EXCEPT !.state = "waiting", !.done = TRUE])

ReaderStep ==
  \/ Wait \/ SendEvent \/ SkipEvent \/ GetData \/ SendBlock \/ SkipBlock
  \/ EndOfEvent \/ Pad

-----------------------------------------------------------------------------
\* The observer: blocks sent since the DMA was enabled, whether the reader was
\* at the start of an event then, and whether an error ended the buffer.
Given == Sends \/ (reader.state = "write_4kb_padding" /\ ~reader.tag.error)
Observe ==
  buffer' = IF wen
            THEN [buffer EXCEPT !.blocks = IF Given THEN @ + 1 ELSE @,
                                !.error = @ \/ (reader.state = "wait_last_word"
                                                /\ reader.tag.error)]
            ELSE [blocks |-> 0, error |-> FALSE,
                  clean |-> reader'.state \in {"waiting", "skip_event"} /\ ~reader'.done]

\* The readout thread asks for a number of blocks and enables the DMA, and it
\* disables it when it likes: it also does so after a timeout.  Either is seen
\* by a clock before the next access.
Enable == ~wen /\ wen' = TRUE /\ request' \in Requests
Disable == wen /\ wen' = FALSE /\ UNCHANGED request
Software == Enable \/ Disable \/ UNCHANGED <<wen, request>>

Clock == WriterStep /\ ReaderStep /\ Observe
EBNext == Clock /\ Software
EBSpec == EBInit /\ [][EBNext]_vars
\* The clock runs on.
EBFairSpec == EBSpec /\ WF_vars(EBNext)

-----------------------------------------------------------------------------
WriterRegisters ==
  [state : {"idle", "header", "bank_data", "set_header_cnt", "set_algin_word",
            "bank_set_length", "event_set_size", "bank_set_size", "write_tagging_fifo"},
   add : Addresses, start : Addresses, words : Nat, next : Addresses, error : BOOLEAN]
ReaderRegisters ==
  [state : {"waiting", "get_data", "set_serial_number", "runing", "skip_event",
            "wait_last_word", "write_4kb_padding"},
   add : Blocks, counter : Nat, written : BOOLEAN, done : BOOLEAN,
   pad : 0..(Padding - 1), tag : Tag]
\* The registers keep their ranges: no counter goes below zero or past its end.
EBTypeOK ==
  /\ writer \in WriterRegisters
  /\ owner \in [Blocks -> Blocks]
  /\ fifo \in {<<>>} \cup {<<t>> : t \in Tag}
  /\ tags \in Seq(Tag)
  /\ reader \in ReaderRegisters
  /\ wen \in BOOLEAN /\ request \in Requests \cup {0}
  /\ buffer \in [blocks : Nat, clean : BOOLEAN, error : BOOLEAN]

\* The block the reader sends belongs to the event it is at, and nothing was
\* written over it since: no dummy word, size or later event, although nobody
\* compares the addresses of the writer and the reader.
BlocksIntact ==
  Sends => /\ owner[reader.add] = reader.tag.start
           /\ (reader.add + RamBlocks - reader.tag.start) % RamBlocks
                < (reader.tag.last + RamBlocks - reader.tag.start) % RamBlocks

\* Between events the reader is one block in front of the next event, whether
\* the last one was sent or skipped, with or without error.
ReaderAligned ==
  reader.state = "waiting" /\ tags # <<>> => NextBlock(reader.add) = Head(tags).start

\* A buffer that was enabled between two events never takes more than what was
\* asked for, one event and the padding: ro_swb_fe asks for half of its buffer
\* and leaves the other half for these.
BufferFits ==
  buffer.clean => buffer.blocks <= request + MaxBlocks + Padding

\* And when it is reported as done it holds more than what was asked for, unless
\* an event with an error has ended it.
DoneMeansFull ==
  wen /\ buffer.clean /\ reader.done
    => buffer.error \/ buffer.blocks > request + Padding

\* The software enables the DMA before the events are out that came while the last
\* buffer was padded.
EnablesEarly == ~wen /\ wen' /\ tags # <<>>

\* The events that came while a buffer was padded are taken out, sent or skipped,
\* unless the software enables the DMA too early again and again: with is_error set
\* for ever each event then ends a buffer, and in the clocks of each padding, if
\* it is long, more events come than the reader gets rid of.
EventsTaken == ~[]<><<EnablesEarly>>_vars => (tags # <<>> ~> tags = <<>>)
=============================================================================
