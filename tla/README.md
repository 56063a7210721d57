# Formal model of the Mu3e online system

TLA+ specifications of the control and data flow of this repository, the TLC
configurations that check them on small instances, and proofs checked by TLAPS.
Paths are relative to the root of the repository. `PROJECT.json` lists the
runs, the lines each definition stands for, the hazards and the theorems.

    tlc -workers 2 -config MCSlowControl.cfg MCSlowControl     # one run
    tlapm StateControllerProofs.tla                            # one proof

## 1. The system

The experiment is read out by *front-end boards* (FEBs: `fe_board/`), each with
two optical links: the *reset link* from the clock board, one byte per clock,
and the *data link* to a *switching board* in a PC (`common/firmware/a10/swb`,
`switching_pc/`). The farm PCs (`farm_pc/`) come behind it. MIDAS frontends
control everything: `crfe` the clock board, `switch_fe` the switching board,
`ro_swb_fe` the readout.

                  crfe --IPbus--> clock board --reset link (broadcast)--> FEB
                   ^  ODB: Request Run Prepare                             |
                   |                                                       |
    MIDAS --> switch_fe <--PCIe--> switching board <--data link-- data merger
              (slow control)         sc_main, sc_secondary,      (data, replies,
              ro_swb_fe              run control, event builder   acknowledges)

| component | state | operations | what is hard about it | what makes it correct |
|---|---|---|---|---|
| state controller of a FEB (`state_controller.vhd`) | run state, payload and address counters, payload registers | one clock edge with one byte, hard reset | commands, payload and address bytes look alike; a termination comes at any clock | never takes payload for a command; shows only edges of the protocol |
| clock and reset frontend (`crfe.cpp`, `clockboard.cpp`) | ODB requests, bytes in the link FIFO | begin/end of run, prepare on request, manual commands | transitions of three programs and all boards interleave; timeouts; link loss | every active board has the run number, starts and ends the run; a confirmed stop is one |
| run control of the switching board (`run_control*.vhd`, `switch_fe.cpp`) | acknowledge and run-end bits | resets, polls with timeouts | stale bits of the last run | as above |
| data merger (`data_merger.vhd`, `overflow_check.vhd`) | merger state, two FIFOs, timeout counter | one clock | three sources share one link; the FIFO overflows; a source stops in a packet; the run state moves at any clock | packets stay whole, the run end comes last and always comes, room is enough |
| slow control (`FEBSlowcontrolInterface.cpp`, `swb_sc_main.vhd`, `swb_sc_secondary.vhd`, `sc_rx.vhd`) | transaction, deque, memories, link FIFOs | write, broadcast, read, resets | replies late, lost or cut; a reset in the middle of a reply | a transaction returns its own reply and leaves nothing behind; it ends |
| calls to the Nios of a FEB (`FEBsc_NiosRPC`, `sc.h`) | one register and the memory of the board, the locals of the call, the callback | write payload and command, poll, give up; callback; restart of the Nios | program and Nios write the same register; a call gives up while its command runs; a restart finds the command again | a call returns the status of its own command, which saw its payload and ran once |
| event builder (`swb_midas_event_builder.vhd`) and DMA (`dma_engine.vhd`) | event RAM, tags, block counter, error flags | one clock; enable, disable | a writer and a reader on one circular RAM that do not look at each other; events are skipped; a DMA disabled at any clock | blocks are sent whole and not written over; reader and writer agree where events start; a buffer ends in time |
| readout thread (`ro_swb_fe.cpp`) and DMA engine (`dma_engine.vhd`) | memory of the PC, enable and reset bits, length of the last buffer | read loop; begin, end, pause and resume of a run in another thread; pages sent | two threads and the board share registers and a memory without a lock; timeouts | what is copied was written since, belongs to one buffer and is the whole of it; a stopped run leaves the DMA off |
| Arria 10 reset link (`a10_reset_link.vhd`, `clockboard_a10.cpp`) | two registers, sequencer, selected outputs | register writes of a command, one clock | the two writes of a command are some clocks apart; the sequencer lets run commands through in its order only, and crfe prepares each run twice | sequencer and boards stay in step; the bytes of the run number reach every board |
| time merger, hit sorter, farm data path | trees of FIFOs, sorting memories, two DDR memories | one clock | order, overflow, back pressure | ordered output, no deadlock |
| other frontends and utilities | device settings | forward settings | retries | - |

The complete list, with what is not modelled and why, is in `PROJECT.json`
under `components`; section 7 repeats the reasons. By far the longest file of
the repository is `mhttpd/custom/manalyzer/jsroot.js` (109 023 lines), a copy of
the JSROOT library; the other web pages show entries of the database and change
settings. None of them is part of what is modelled here, which is written in
VHDL and C++.

## 2. The modules

| module | models | checked by | proved in |
|---|---|---|---|
| `RunStates` | what a run state may be followed by: the abstract specification of a board | `state_controller` (as a property) | |
| `StateController` | `state_controller.vhd`: transition process, address process, output process | `state_controller` | `StateControllerProofs` |
| `ClockBoard` | `crfe`, the frames of `clockboard.cpp`, MIDAS transitions of `switch_fe`, the listeners; extends `StateController`, whose boards read the line | `clock_board*` | `ClockBoardProofs` |
| `DataMerger` | `data_merger.vhd`, both FIFOs, each behind its `overflow_check.vhd`; the run state moves along the edges of `RunStates` | `data_merger*` | `DataMergerProofs` |
| `SlowControl` | transactions of `FEBSlowcontrolInterface`, `swb_sc_main`, the replies, `swb_sc_secondary` | `slow_control` | `SlowControlProofs` |
| `NiosRPC` | `FEBsc_NiosRPC`, the register `CMD_LEN`, the callback in `sc.h`, restarts of the Nios | `nios_rpc` | `NiosRPCProofs` |
| `EventBuilder` | `swb_midas_event_builder.vhd`: writer, tagging FIFO, reader; the enable bit as `ro_swb_fe` sets it | `event_builder` | `EventBuilderProofs` |
| `Readout` | the thread and the run transitions of `ro_swb_fe.cpp`, the end of a buffer in the event builder, `dma_engine.vhd` | `readout` | `ReadoutProofs` |
| `A10ResetLink` | `clockboard_a10.cpp`, the way of register writes to the link clock, `a10_reset_link.vhd`; extends `StateController` | `a10_reset_link` | `A10ResetLinkProofs` |

`RunStates` is the joint: `StateController` is shown to implement it, and
`DataMerger` uses its edges as the environment, so what the merger is checked
against is what a state controller can show. The boards of `ClockBoard` and
`A10ResetLink` are those of `StateController`, behind two different senders of
the same protocol. `NiosRPC` stands on `SlowControl`: its writes and reads do what
`AckMeansWritten` and `ReadOwnReply` say as long as all transactions ended well,
and what `SlowControl` shows of late, lost and old packets after that.

### StateController

`board[f]` holds the registers of a board; `Clocked` is one clock edge, all
processes reading the registers as they were. The transition process takes the
byte as payload or, via `Goto`, as a command of the current state; the address
process follows the same bytes on its own and skips frames of other boards. The
two versions of the entity (`is_full_version`) and the hard reset when the link
is lost are constants. Bytes are the numbers of `mudaq.vhd`.

### ClockBoard

`line` is what `clockboard.cpp` has written and no board has read; each symbol
carries, for the properties only, what it was meant to be and for whom, and, for
the proofs, how many symbols of its part of the frame follow (`left`). `Tick`
is a clock of all boards. MIDAS runs the transitions in the order of their
sequence numbers: on start switch_fe (400) before crfe (500), on stop crfe (100)
before switch_fe (600). `RequestRunPrepare`, `RequestReturns`,
`PrepareRunOnRequest`, `BeginOfRun` and `EndOfRun` are the handlers;
`StartCancelled` is a start that switch_fe refuses because it does not find crfe
in the ODB. `end_of_run` of switch_fe looks up to 50 times for the run ends:
`WaitForRunEnd` is the first look that misses one, `StopConfirmed` any look that
finds all, and `StopCancelled` the end of the wait, which also cancels when the
last look has found them (the code compares the count alone). After it MIDAS is
in the run again. `Press` is a command typed by an operator. An exception from
the MIDAS library in `begin_of_run` (`switch_fe.cpp:729`) is left out.

### DataMerger

One step is one clock of the link: the merger (`Merge`: one operator per run
state), both overflow checks, both FIFOs and their writers. A word is known by its
control bits. The detector writes packets of up to `PacketWords` words, which may
be more than the overflow check allows for, and, when the run terminates, its run
end marker or `can_terminate`. The slow control writes replies with pauses at any
word, within `ReplyTime` clocks, as `sc_rx` does while it waits for the memory; with
`Stalls` a reply may also break off. Two observers serve the properties: `open` is
the packet that the receiver of the link takes as open and how many of its words it
has seen, `lost` the FIFOs that a word was lost in.

### SlowControl

A reply is two pieces, "head" (its preamble) and "tail" (the rest up to the
trailer): that is enough to cut one, to reset the secondary in its middle and to
glue two together. The program's control is kept poll by poll: `FirstLook` and
`SecondLook` are the two calls in the condition of the loop of `FEB_write`, and
`LookForReply` one pass of the loop of `FEB_read`. `ReadPackets` is
`FEBsc_read_packets`, which reads the address of the secondary once and is
therefore one step. What the parser makes of a cut reply depends on what follows it
(`Seen`): it takes words of the next reply for data, or the pointer stays in the
middle until the secondary is reset (`Broken`), or it is moved on to the next packet
(`Passed`). Words that arrive corrupted are left out. Boards answer at any time; requests and
replies may be lost, `MaxLosses` times. `ResetSecondary` and `ResetMain` are the
buttons in the ODB.

### NiosRPC

`call` holds the locals of the call that runs: `WritePayload`, `WriteOffset`,
`WriteCommand`, `Poll` and `GiveUp` are its steps. `cmd_len` is the register with,
as an observer, the call whose command or status it holds; the upper half is only
told from 0. The callback runs while it is not 0 (`Callback`), takes as long as it
likes and writes its status over whatever is there (`CallbackEnds`). `Reboot` stops
the Nios anywhere; the firmware does not reset the register, but `main()` of the
scifi boards does before the interrupt is registered (`AfterBoot`), that of the
tile boards does not. A failed write is executed now, later, or never; after a
failure, reads may bring old values (`Stale`).

### EventBuilder

One step is a clock: the writer (`WriterStep`, one action per state of
`event_tagging_state`; the header and the three sizes are one action each) and
the reader (`ReaderStep`, one per state of `event_counter_state`; waiting has
three), both reading the registers as they were, and the software that may write its register in the same clock (`Software`). The RAM
holds no words: `owner` is an observer that says which event was the last to
write into a block, an event being named by the block it starts in. `buffer` is
an observer of what the DMA was given since it was enabled. The half-full signal
of the DMA, a stream that stops in the middle of a packet and the error flag are
free inputs. `fifo` is the register between the writer and the tagging FIFO.

### Readout

One action per call of the thread that others may come between (`Ask` writes the
request, `EnableContinuousReadout` the enable bit, and so on to `Copy`), one per
step of a transition. The board is `EventBuilder` as the DMA sees it, with events
of one block: events, the end of the last event, the padding, done. The engine
sends whole pages (`Page` blocks, as many as are padded) and writes the end of
event it holds behind the last of them; it clears its write address when it is
disabled and the end of event never. `dma_buf` says of each block of the memory
of the PC what it holds; "copied" is an event that MIDAS has got and nobody has
written again. The thread disables the DMA and may enable it again at once: the
engine may then still be at its pages and goes on at its address, or the event
builder at its padding, and `restarted` remembers that (not twice in a row, which is a
bound: each such buffer begins further on in the memory). `Settled` orders the begin
of a run, which the code puts milliseconds behind the last transfer, after steps of
the board that take microseconds; `DmaLags` is the choice whether the thread may see
done while pages are still on their way. A skipped event changes nothing here and is no step.

### A10ResetLink

One step is a clock of the link, in which at most one register write arrives
(`TickWithWrite`). `writes` are the writes of a call on their way, `spacing` the
fewest clocks between them: the FIFO between the clocks keeps their order, not
their distance. `Order` is the table of the run commands the sequencer lets
through; `Immediate` are all others. crfe calls milliseconds after its last call
(`Settled`), also when an operator aborts or crfe is started again (`Disturb`).
`BeginUnprepared` is a start in which switch_fe gave up waiting before crfe had
prepared the run.

## 3. The runs

| run | bounds | shows |
|---|---|---|
| `state_controller` | 1 board, full version, link loss, 16 byte values: all 14 commands of the reset protocol, the address command and 0; the payload registers hold at most one byte that is not 0 | types, `FramingOK`, refinement of `RunStates` |
| `clock_board` | 2 boards on 2 switching boards, 2 runs; the run numbers consist of command bytes; undisturbed, or up to 2 aborts of an operator, addressed or not, or up to 2 losses of a reset link at any time | `FramingKept` (payload is never obeyed, commands reach the boards they are for), `RunNumberHeld`, `StoppedMeansEnded`; `RunStarts`, `RunEnds` (a stop is confirmed in the end, unless the run was aborted) |
| `clock_board_timeout` | acknowledge timeout | **violation** of `RunNumberHeld` |
| `clock_board_abort` | 1 run, 1 abort | **violation** of `StopSucceeds` |
| `data_merger` | FIFO 8, `MAX_PAKET_SIZE` 5, packets of up to 4 words (3 are safe), timeout 7, 2 replies of any length with pauses within 5 clocks, all 9 run states | `NoWordLost`, `PacketsIntact`, `LinkFraming`, `SlowcontrolSent` (no reply is passed over), `RunEndLast` (the run end comes behind the data) |
| `data_merger_live` | FIFO 4, `MAX_PAKET_SIZE` 3, packets of up to 3 words, timeout 5, sources that pause for ever | `AckEventually`, `MarkerEndsRun` |
| `data_merger_marker` | a detector faster than the link | **violation** of `MarkerEndsRun` |
| `slow_control` | 2 links, 2 transactions of lengths 1 and 4, 2 polls each, 1 loss, resets at any time | see below |
| `nios_rpc` | 3 calls, payloads of up to 2 parts, 3 polls, 1 failed transaction, 2 restarts, both kinds of boards | `OwnStatus`, `PayloadWhole`, `RunsOnce` |
| `event_builder` | RAM of 7 blocks, packets of 2 to 6 words (events of 2 or 3 blocks), padding 2, requests of 0 and 2 blocks | see below |
| `readout` | pages of 2 blocks, requests of 1, a DMA that may lag and may be enabled again before it has stopped; runs that start, pause, resume and stop without end | `CopiesWholeBuffer`, `DmaOffWhenStopped`; `KeepsReading` |
| `a10_reset_link` | 2 boards on outputs 0 and 1, 2 runs with numbers of command bytes, writes 2 to 6 clocks apart, up to 2 aborts, restarts of crfe or starts without preparation | `CommandsObeyed`, `BytesArrive`; `RunStarts` |

Why the bounds are enough:

* Two boards are one that a command is for and one that it is not; two runs are
  a run and the one before it, whose acknowledge and run-end bits are stale. The
  byte values of `state_controller` are all that its decoder tells apart, and 0 for
  all others; so every run state is entered and left on every edge. What a payload
  register holds steers nothing, so one byte at a time is enough for each of its
  places to be written.
* The FIFOs hold more than one packet, so that they fill, are checked while a
  packet is inside, and throw. The longest packet of `data_merger` is one word
  more than the check has room for, so that both happen, a packet that fits and one
  that overflows. The timeout leaves a reply its time and one FIFO of waiting, as
  10000 clocks do for 1024 words, and is shorter than a run.
* Replies of lengths 1 and 4 differ by as much as a reply of length 1 is long in
  all, so that a cut reply of length 4 may take the next one for its data.
* Two transactions are one that leaves something behind and one that finds it.
  Two polls are one that finds nothing and the last one; a count of polls is
  compared with its end and used for nothing else.
* Three calls to the Nios are one that gives up, one that meets the end of its
  command, and one after that. One failed transaction is enough, since nothing
  is assumed of the slow control any more after it; two restarts are one while a
  command runs and one before the board has come up again.
* A page of two blocks lets an event end in the middle of a page and the padding
  reach into a page that holds events; a buffer may end with an error at its first
  event or when the request is full.
* Register writes 2 clocks apart are the closest that leave the sequencer a clock
  between them; from 5 on the number is out before the next write, and 6 stands
  for every greater distance. Output 0 is what the second write of a call
  selects, so one board is on it and one is not.
* Events of two and three blocks are the ones that end in `set_serial_number` and
  in `runing`; seven blocks are odd, so that events of two start everywhere, and
  more than two of the longest events, which is the assumption of the module
  (512 blocks in the code). Two blocks are filled by one event or by two.

`slow_control` checks: a read that returns OK got a reply of its length and, as
long as every transaction returned OK, its own (`ReadOwnReply`), a write was
executed (`AckMeansWritten`) and nothing is left behind (`NothingLeftBehind`);
the secondary only waits for ever on a link if a reset ended in the middle of a
reply (`BlockedOnlyByReset`); every transaction ends and, without a cut reply, the
link FIFOs drain (`NothingHangs`).

`nios_rpc` checks: as long as slow control works, a call returns the status of its
own command, unless the callback of an earlier one was running when it wrote the
register (`OwnStatus`; a restart that clears the register counts as status 0); a
command whose call waits for it sees the whole payload of this call and nothing
else (`PayloadWhole`); and no command is started twice but by a restart on a board
that does not clear the register, whatever fails (`RunsOnce`).

`event_builder` checks: a block is sent while it belongs to the event the reader
is at (`BlocksIntact`); between events the reader is one block in front of the
next one, sent or skipped (`ReaderAligned`); a buffer takes at most the request,
one event and the padding, and is reported as done when it holds more than the
request or an error ended it (`BufferFits`, `DoneMeansFull`, for buffers enabled
between two events); the tagging FIFO drains, unless the software enables the DMA
too early again and again (`EventsTaken`), which is why nothing is written over.
The padding of 2 is shorter than an event, so that even such software does no harm
here, and the run leaves it free. `MCEventBuilderPatient.cfg` has the proportions of
the code instead: in a padding of 48 blocks more than two events are written. There
`BlocksIntact` and `EventsTaken` hold for software that enables the DMA when the
reader has caught up (`PatientSpec`), and TLC finds `BlocksIntact` violated under
`EBSpec`.

### Findings

Three are runs, the others are shown by the configurations named; TLC finds each of
them violated.

1. `clock_board_timeout`: if `switch_fe` stops waiting before "Run Prepare" was
   sent on request, `begin_of_run` of crfe sends it with run number 0.
2. `clock_board_abort`: the boards' documentation leads every run through
   "terminating" (`FEB_common/README.md:15`), but an abort takes a board from
   `RUNNING` to `IDLE` at once and it sends no run end. `end_of_run` of switch_fe
   waits for one and cancels the stop, however often it is repeated
   (`switch_fe.cpp:747`). `RunEnds` says what holds then: the boards are idle.
3. `data_merger_marker`: the overflow check throws the run end marker away with
   the last packet, and the run never terminates.
4. `MCReadoutTimeout.cfg` (`CopiesWrittenWords`): when the readout thread gives up
   waiting, the length it reads (`ro_swb_fe.cpp:492`, "get written words from FPGA
   in bytes") is that of an earlier buffer, since `dma_engine.vhd:679` never forgets
   it, and the thread gives MIDAS events a second time.
5. `MCDataMergerLong.cfg` (`ThrownNotCorrupted`): `overflow_check.vhd:2` promises to
   throw a packet away "instead of corrupting it". It keeps room for 100 words
   (line 17, overridden nowhere), while a packet of a pixel board has four header
   words, a subheader for each of 128 blocks and a footer even without a hit
   (`sequencer_NG.vhd:298`). When one starts with just 100 words free, the FIFO
   overflows in its middle, and the receiver sees the rest of it run into the next.
6. `MCDataMergerTerminate.cfg` (`RunEndLast`): `mutrig_datapath.vhd:61` calls the
   signal behind `can_terminate` "all fifos empty, all data read", but it is about the
   FIFOs of the datapath. `data_merger.vhd:418` sends the run end on it while a packet
   waits in the FIFO of the merger, which is cleared in `IDLE`.
7. `MCA10RunNumber.cfg` (`RunNumberFromMidas`): the Arria 10 sends the low byte of
   the run number first (`a10_reset_link.vhd:117`); the boards, and the other clock
   board, have the high byte first. The boards then hold the number with its bytes
   reversed, which `resetsys.vhd:30` calls "run number from midas", and
   `switch_fe.cpp:719` reports it as wrong. `BytesArrive` says what holds.

### Observations that no run states

* `MERGER_TIMEOUT` never gets onto the link: `data_merger.vhd:229` assigns it
  before every branch of the state machine assigns the output again.
* "Abort Run" cuts the data packet that is being sent.
* If an operator aborts between the two "Run Prepare" of a start, the boards show
  `PREP` again with run number 0, which is what `begin_of_run` sends.
* "Stop Reset" and "Reset" have a payload in `reset_protocol.h:27` and none in
  the state controller, which decodes it as commands; the payload that `crfe`
  sends by default is harmless.
* The mask of a broadcast is 0 and not `FFFF` (`FEBSlowcontrolInterface.cpp:80`
  shifts by `FFFFFFFF`): `FEB_broadcast` returns OK and no board is sent anything.
* `FEB_write` calls `FEBsc_read_packets` twice in one pass (lines 116 and 118) and
  throws away what the second call brings, its own acknowledge if that is when
  it arrives. The write is then reported as timed out.
* After a late reply the deque of the slow control is one packet ahead: each
  read of the same length returns the reply to the one before, with status OK,
  and nothing sets it right, because the resets do not clear the deque.
* A read reply at the front of the deque is never removed by `FEB_write` as long
  as no packet arrives: the comparison looks at the count of new packets first.
* If a reset of the secondary ends in the middle of a reply, that link is dead
  until another reset; reads on it time out, and a timeout resets nothing.
* `end_of_run_received` is not cleared at the begin of a run: the listener obeys
  its reset only while the other one is not held. `StoppedMeansEnded` holds
  because the acknowledge clears the bit.
* `is_error` of the event builder is set by an event and cleared by the reset
  only: after one bad event each later event ends its DMA buffer, padding
  included.
* Nothing in the event builder keeps the writer out of the blocks that the reader has
  not sent. While the reader pads, 128 blocks of padding cost 128 clocks, in which the
  writer adds up to 16 blocks. An error ends a buffer after one event, so a
  software that enabled the DMA again at once, each time, would let the
  reader fall a padding behind with every event until the writer laps it: TLC shows it
  with 9 blocks, a padding of 48 and packets of 2 words. The theorem
  `BlocksStayIntact` has what the software does instead as a premise.
* A DMA that is disabled and enabled again while an event is being sent gets the
  rest of that event at the start of the new buffer, and may be reported as done
  at once. `BufferFits` and `DoneMeansFull` are about buffers enabled between
  events; `ro_swb_fe` disables in an event only after a timeout.
* `word_counter_endofevent` is cleared by the reset only, so the register
  `DMA_CNT_WORDS` counts over all buffers; the readout uses the address of the
  DMA engine instead.
* Nothing makes the readout thread wait until the DMA has stopped. If it enables it
  again before, the engine goes on where it was, and the new buffer does not begin
  at the start of the memory; `CopiesWholeBuffer` says so with `restarted`.
* The thread may see done, or a stop may, while the last pages are on their way;
  what is read as the length is then that of the page before. `CopiesWholeBuffer`
  says so with `late`.
* `end_of_run` and the thread poll the same bit. If `end_of_run` is first it
  resets it under the poll, and the thread waits for its timeout (10 s); a run
  started in that time clears the memory under the thread. With `use_timeout` off
  the thread waits until the next run has filled a buffer, and after a pause too.
* `pause_run` does not wait for the buffer: its events are lost or, after a
  timeout, an earlier buffer is copied again.
* `end_of_run` writes an error at the 100th of its polls although it goes on for
  twice the timeout of the thread.
* If a call to the Nios gives up and its command is still running, the end of that
  command overwrites the command of the next call, which returns the old status,
  and its own command never runs. `OwnStatus` has `quiet` as a premise because of
  this; without it TLC shows the behaviour. The old command also sees the payload
  of the new call written under it.
* A restart of the Nios of a scifi board while a call waits lets this call return
  0, which is success, and the command may not have run; a tile board runs it again.
* The register `nios_reboot` has no effect: `fe_block_v2.vhd` turns it into
  `nios_reboot_50`, which nothing uses.
* `CNT_READ` is called without a payload, for which `sc.h:64` hands the command a null
  pointer; `store_counters` (`smb_module.cpp:732`) writes through it, while the
  PC reads the counters at the start of the memory of the board.
* Of two register writes of `clockboard_a10.cpp` less than 5 clocks apart, the
  second selects output 0 while the number is still sent: all other outputs get
  commas for its last bytes. `BytesArrive` states exactly this.
* The payload that crfe has for "Reset" and "Start Link Test" is never sent by
  the Arria 10; the boards take commas for it.
* Commands of crfe to one board go to the base class, since
  `write_command(const char*, ...)` of `clockboard_a10` does not override the one
  with `std::string`; there is no IPbus behind it.
* Any command pressed in a run that is not in the sequencer's order sets it back
  to idle: the "End Run" of the stop is then dropped and the run does not end.

## 4. Fairness

* `ClockBoard`: the line is clocked, boards acknowledge and terminate, and
  MIDAS goes on with a transition it has begun; the wait of `end_of_run` ends after 50
  looks; an operator and link loss are not fair. MIDAS calls its handlers itself
  and waits for them, and a clock does not stop. That a stop which was cancelled is
  asked for again is not assumed of all behaviours: it is the premise of `RunEnds`
  (`StopsAgain`).
* `DataMerger`: the clock runs. A source may stop in a packet for ever
  (`Gaps`); the liveness properties are about the timeout that takes care of it.
  The step of the clock must change something, so that fairness never excludes
  a frozen board by itself.
* `SlowControl`: the thread of the program runs, the firmware of the switching
  board runs, and a board that has begun a reply goes on with it (its merger
  reads one FIFO until the end of the packet). That a board ever answers is not
  assumed, nor that replies are fast.
* `EventBuilder`: the clock runs. Packets may stop for ever, and the software
  need not ever enable or disable the DMA. `EventsTaken` has as its premise that it
  does not enable it too early for ever; `ro_swb_fe` copies a buffer in between,
  while the reader takes three clocks for an event that it skips.
* `Readout`: the board and the thread run, and MIDAS makes room in the ring
  buffer again and again (strong fairness of `GetSpace`, since the thread may
  find it full any number of times in between). Events need not come, and no
  transition of a run need ever be made.
* `A10ResetLink`: the clock runs, writes arrive, MIDAS goes on with a start, and
  a board that terminates reports the end. The operator is not fair.
* `NiosRPC`: none; its properties are safety. The Nios may never answer, which is
  what the timeout is for.

## 5. What is proved

For every value of the constants that satisfies the assumptions of the modules:

* `TypeCorrect`, `FramingCorrect` (`StateControllerProofs`): the registers keep
  their ranges, the payload counter points into the register of the current
  state, and the one address counter serves one purpose at a time. `BoardInv` is
  inductive for a board: `FramingOK` alone is not, since it says nothing of the
  address process while a payload is expected and nothing of `o_state`. The step
  splits into the transition process (`TransitionStep`), the address process
  (`AddressStep`) and the output (`ClockedStep`), as the entity does.
* `ImplementsRunStates`: every clock edge of all boards, with any bytes, any
  terminations and resets, is a step of `RunStates` or a stutter. The invariant
  adds `OneBehind`: the shown state is the decoded one, or one edge behind it
  while a payload is awaited.
* `RoomSuffices` (`DataMergerProofs`): until a packet of the run has more than
  `MaxPacket - 2` words, no word that the overflow check lets through meets a full
  FIFO, for all sizes and whatever the merger, the slow control and the run state do.
  There is no premise; `detector.long` remembers the first such packet, which
  finding 5 is about. `Room` counts what is in the FIFO, on its way and still to come
  of the packet; it has a second case for the end of the run, when the marker is
  written unchecked.
* `TypeCorrect`, `Framed`, `RepliesSent` (`DataMergerProofs`): all ranges; and, if
  replies are written in a time that leaves the timeout room for one FIFO
  (`Prompt`: `ReplyTime + Depth + 4 <= Timeout`, with any pauses), the framing of
  the replies and that none is passed over, until their FIFO has lost a word. One
  lemma per branch of the merger, by run state, says what it may send
  (`MergeGives`). `Ends` says that the FIFO, the word on its way into it and the
  writer make up replies one behind the other (`ScPipe`), `Reading` that words are
  read while a reply is sent and only then, and `Timely` that the words before the
  reply's end and the clocks until it is written still fit before the timeout.
* `RunEndComesLast` (`DataMergerProofs`): for a detector that ends its run with the
  marker (`CanTerminate` is FALSE; the other case is finding 6), the run end comes
  behind all data, whatever the sizes, also when words were lost. `Marker` says that
  nothing comes behind a run end marker.
* `PacketsArriveIntact` (`DataMergerProofs`): packets of any length arrive as they
  were written, with or without pauses, as long as no word of the run was lost and
  the timeout does not strike in one (`InTime`, which holds in `data_merger`; a
  detector that stops for longer has its packet cut, which is what the timeout is
  for). `Packets` takes the FIFO and the word on its way into it as one pipe: between
  the receiver, which is inside a packet or not, and the writer, which is or is not,
  packet follows packet.
* `TypeCorrect`, `Aligned` (`EventBuilderProofs`): the registers keep their
  ranges, and the reader is where the next event starts. `ReaderAligned` says
  nothing of the events behind the first, so it is not inductive; `Chain` adds
  that the tags form a chain from the event the reader is at to the one the
  writer is at, and `AtEnd` that a finished reader stands one block in front of
  the block its tag names. One lemma per process (`WriterLinks`, `ReaderLinks`)
  and two on chains (`LinkedAppend`, `LinkedTail`). No assumption on the speed
  of either process is needed, unlike for `BlocksStayIntact`.
* `BufferIsEnough`, `DoneIsFull` (`EventBuilderProofs`): whatever is requested and
  whatever events come, a buffer enabled between two events takes at most the
  request, one event of the greatest size and the padding, and is done only when
  it has more than the request or an error ended it. `EventInv` is the chain of
  tags and four parts more: address and word count of the writer belong together
  (`WriterPlace`), so each tag names an event of 2 to `MaxBlocks` blocks
  (`ProperTags`); the reader is inside the event it sends (`ReaderPlace`); and
  blocks sent and blocks still to come add up to the request until the counter
  stops at 0 (`Budget`, and `Ended` for what is sent then).
* `BlocksStayIntact` (`EventBuilderProofs`): every block that is sent is one of the
  event the reader is at, as the writer left it, for every RAM, packet and request.
  Between the event of the reader and that of the writer the RAM holds the events
  of the tags, in order (`HeldInv`), and behind them the beginning of the one that is
  written (`WrittenInv`); a clock of the writer adds one word to this row and changes
  none of it (`Wrote`). Then all depends on how many words the row has, since the
  RAM wraps. `LoadInv` bounds them: a reader takes eight words in a clock and
  catches up within any event, so it falls behind only while it pads, and the
  bound follows the padding counter. Two premises. `RamSuffices`: the RAM has room
  for the longest event and for the words that come while it is sent and while a
  buffer is padded (`9 * MaxBlocks + Padding + 5` words); with 512 blocks and a
  padding of 128 this holds for events of up to 440 blocks, and the assumption of
  the module allows 255 only. `Patient`: when the software enables the DMA, the
  reader has caught up with what came in while it padded; a software
  that enables it while the tagging FIFO is empty does (`DrainedIsPatient`). The
  code does not wait for this but has it: `ro_swb_fe.cpp` disables the DMA at line
  490 and copies the buffer before it enables it again at line 481, while the reader skips what is
  left in microseconds. Without `Patient` TLC finds the violation (section 3).
* `TypeCorrect`, `StoppedIsOff`, `WholeBuffers` (`ReadoutProofs`): for every page
  size and request, with and without a timeout, the board never writes more
  blocks than the memory has, a buffer included that was begun before the DMA had
  stopped; a stopped run leaves the DMA off; and a buffer seen done is copied whole,
  if the DMA had stopped before it was enabled for it (`restarted`) and no pages
  were under way when its length was read (`late`). The invariant `RInv` follows a buffer from its enable to
  its copy: what the event builder may be doing while the thread is where
  (`ThreadInv`, `BuilderInv`), which blocks of the memory are events, padding or
  of an earlier buffer, page by page (`PagesInv`), and that done means the end of
  event and the padding are out (`DoneInv`, `CopyInv`).
* `NothingLeft`, `OwnReply`, `WriteExecuted` (`SlowControlProofs`): as long as all
  transactions return OK, none leaves anything behind, a read returns its own
  reply and a write was executed. `NothingLeftBehind` speaks of ended transactions
  only and is not inductive; `CleanInv` says that at most one request or reply is
  under way and lists the places between the memory of `swb_sc_main` and the
  deque where it may be, whole, half sent or cut (`InMain`, `OnTheWay`, `Queued`,
  `HalfSent` to `InMemory`, `Cut`), all others being empty. No
  other assumption is made: any number of links, losses, polls and resets.
* `TypeCorrect`, `ReadsFit`: the packets that are parsed are whole replies, the
  loops end at their bounds, and a read that returns OK got a read reply of its
  length, also when earlier transactions failed.
* `BlockedByReset`: the secondary stands before a FIFO without a preamble only
  if the end of a reset cut a reply of that link. `FrameInv` says that a tail
  follows its head, in the FIFO or as the next piece to be copied, and that a
  board in the middle of a reply has its head last in the FIFO. One lemma says
  what a piece more does to this (`FrameAppend`), one what a piece less
  (`FrameTake`).

* `TypeCorrect`, `StartedOnce`, `StatusIsOwn`, `PayloadIsOwn` (`NiosRPCProofs`):
  the properties of `nios_rpc` for any number of calls, parts, polls, failures
  and restarts. `RunsOnce` counts what has been started; `OnceInv` adds where a
  command that can still be started may be: not yet written, under way, in the
  register, or held by the callback until the register is overwritten, and in one of these
  only. For the other two, `CleanInv` says that without a failure nothing is under
  way and relates the place of the call to the payload in the memory (`SentInv`),
  to the register (`PollInv`) and to what it got (`ResultInv`).

* `LinkTypeCorrect`, `BoardsKeepStep`, `RunBytesArrive` (`A10ResetLinkProofs`):
  the registers of the sequencer and of the boards keep their ranges; and for any
  boards on any outputs, any run numbers and any aborts or restarts, no board takes
  a byte for what it is not (`CommandsObeyed`), and the bytes of the number reach
  every board in the order they are sent, the lowest in the place that is awaited
  first (the wrong one, finding 7), but for those that a second write cuts off on
  the other outputs (`BytesArrive`). The last two have `WritesApart` as a premise: two writes of a
  call are more than one clock apart. It is needed: with a distance of 1 TLC shows
  a board that takes "Stop Reset" for the payload of "Reset". The FIFO between the
  two clocks leaves some clocks between writes that come over PCIe or IPbus.
  `LinkInv` says which command is held by the register, the FIFO or the sequencer
  (`Active`, `Pending`), that those still to come are in the order the sequencer
  asks for (`Orders`), and that each board stands where the sequencer left it
  (`BoardFollows`: one symbol behind). `RunInv` adds the number: what is in the
  register while it is sent (`NumberInv`), and which of its bytes a board has
  (`BoardRun`).
* `SystemTypeCorrect` (`ClockBoardProofs`): all ranges, without any premise beyond
  the assumptions of the module.
* `FramingAlwaysKept`, `RunNumberAlwaysHeld`, `StopEndsTheRun` (`ClockBoardProofs`):
  for any number of boards and switching boards, runs and aborts, and any run
  numbers and addresses, also when their bytes are those of commands:
  as long as no link is lost, a command finds exactly the boards that it is for and
  payload is never obeyed; without aborts a board that shows a state of the run
  holds its number; and a stop that MIDAS reports leaves no board running, however
  often it was cancelled and repeated and whenever an operator aborted. The last
  holds with any number of lost links too, while nobody aborts (below). None of the
  three is inductive. `SystemInv` joins what four programs know of each other:
  - `LineInv`: the line is a row of frames (`Shaped`; what follows a symbol depends
    on its role and `left` only), and each board is, for the first symbol of the
    line, where this symbol wants it to be (`Hears`: listening, at this byte of the
    payload, at this byte of the address, or deaf to the rest of the frame);
  - `StoppedInv`: while MIDAS is stopped, or starts and crfe has not yet sent
    "Run Prepare", only "End Run" and aborts are on the line and no board is in a
    run, so that they change nothing (`Quiet`);
  - `PreparedInv`: after the request, the one "Run Prepare" is still to come for
    all boards (`Coming`) or has been read by all (`Come`);
  - `BegunInv`: from `begin_of_run` on every board has been prepared, and behind the
    frames of `begin_of_run` there are only ends of the run;
  - `HandshakeInv`: an acknowledge or an end that the listeners hold is of this run;
    this is what makes the bits that no reset clears (section 3) harmless;
  - `NumberInv`: a board holds the bytes of the number that it has read, and has the
    whole of it when it leaves its payload.

  One lemma says what a board does with a symbol that it hears (`Took`), the same for
  all commands, and one per action of MIDAS, crfe or the operator carries
  the invariant over. The premise is `AsDeployed`: addresses are distinct; every
  board is in use, belongs to a switching board and is waited for; the operator
  aborts and types no other command; `switch_fe` does not give up waiting. The
  instance of the run `clock_board` satisfies it. Each part is needed: giving up is
  finding 1; a board outside the link mask hears the broadcasts although nobody
  waits for it, and when it has not ended its run it takes the next number for
  commands (TLC shows this with one abort); another
  command moves boards where the protocol does not expect them.

  When links are lost `SystemInv` is gone: a board that has just lost its link takes
  the next byte for a command, be it one of the run number, and waits for payload
  that was not meant for it. `LossInv` is what is left of it, and it is enough for
  the stop:
  - `RowInv`: the bytes of a run number on the line that are not 0 belong to one
    number, which ends 4 symbols behind its "Run Prepare" (`Row`). So a board that
    obeys one of them as "Run Prepare" takes the rest for payload, and a board
    further in the run has none before it (`Awaiting`): no byte of a number starts a run;
  - `CalmInv`: before crfe sends "Run Prepare", and once the run is stopped, no board
    is in a run and only ends of the run are on the line;
  - `PreparingInv`, `EndingInv`: before `begin_of_run` no command starts a run, and a
    board in `PREP` has all commands behind it; before "End Run" is sent no
    board begins to end a run, and an end that a listener holds is of a board that
    is out of the run for good;
  - `AnswerInv`: an acknowledge that a listener holds while MIDAS starts comes
    from behind "Run Prepare".

  One lemma says what a board does with a byte whatever its registers hold
  (`AnyStep`). With aborts and lost links in one behaviour the stop is not safe,
  hence `presses = 0 \/ losses = 0` in the theorem: nothing keeps the address of a
  board from having command bytes. With two addresses made of "Run Prepare" and of
  "Sync" and "Start Run", TLC finds a board that loses its link behind the
  "Address" of an abort and reads itself into a run with the next abort.

Each invariant was first checked by TLC on the instance of its run, those of
`ClockBoard` also with three aborts and with both boards on one switching board.
Assumptions are those of the modules (`ASSUME`), which TLC evaluates in the
runs, and the premises named above. Every safety property of a passing run is
stated by a theorem. What TLC alone shows: all liveness (`RunStarts`, `RunEnds`,
`AckEventually`, `MarkerEndsRun`, `NothingHangs`, `EventsTaken`, `KeepsReading`).
Liveness under fairness and facts about what recursive definitions compute are
out of the prover's reach.

## 6. What could follow

All modules that were planned at first are there, but for the time merger, the
hit sorter and the farm. What would add most next:

1. The bypass branch of `switch_fe` as a third sender for `StateController`.
2. One node of the time merger.

## 7. What is not modelled

* Timing: a delay is a choice of the environment, a poll interval is a step.
* Clock domain crossings and metastability (`state_phase_box`, synchronisers).
* Words: data, addresses and register contents only as far as control looks at
  them. An address wrap of the slow control memories is left out; both sides use
  the same width.
* The fill of FIFOs that the code leaves unchecked beyond what the modules name
  (the link FIFOs of the secondary, the FIFO of the register writes).
* A crash of a program between two register writes of one call.
* The run control word and settings callbacks of `switch_fe` beyond the run
  transitions; LinkMask changes during a run.
* Power, high voltage, crate, network and environment control: sequential
  programs that forward settings. Detector configuration and tuning: bit
  formatting. Web pages (`mhttpd/custom`, with its copy of JSROOT), scripts, the
  attic, test benches, IP of vendors and the ipbus core: not this system's logic.
* The time merger, the hit sorter and the farm data path: their control depends
  on the words themselves, from which the modules here abstract.
