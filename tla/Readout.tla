------------------------------ MODULE Readout ------------------------------
(***************************************************************************)
(* How events get from the event builder of a switching board into MIDAS:  *)
(* the readout thread of switching_pc/midas_fe/ro_swb_fe.cpp, the run      *)
(* transitions that the main thread of the same program runs at the same   *)
(* time, and the DMA engine (pcieapp/dma_engine.vhd) that writes the       *)
(* memory both of them use.  No lock is taken anywhere.                    *)
(*                                                                         *)
(* The event builder is the one of module EventBuilder as the DMA sees it: *)
(* events, here of one block each, then the end of the last event, then    *)
(* the padding, then done.                                                 *)
(***************************************************************************)
EXTENDS Naturals

CONSTANTS
  Page,         \* blocks the DMA sends at once (128: 4 kB); as many are padded
  Request,      \* blocks the thread asks for
  UseTimeout,   \* ODB use_timeout
  DmaLags       \* the DMA may be behind when the thread looks

ASSUME ReadoutAssumption ==
  /\ Page \in Nat \ {0} /\ Request \in Nat \ {0}
  /\ UseTimeout \in BOOLEAN /\ DmaLags \in BOOLEAN

VARIABLES
  midas,    \* where MIDAS and the transitions of the main thread are
  enabled,  \* readout_enabled(): set by MIDAS after begin, cleared before end
  pc,       \* where the readout thread is
  seen,     \* how its poll of the last buffer ended
  length,   \* size_dma_buf, in blocks
  late,     \* observer: pages were under way when it was read
  restarted,\* observer: the DMA was enabled again before it had stopped
  get_n,    \* GET_N_DMA_WORDS_REGISTER_W, in blocks
  enable,   \* DMA_REGISTER_W, its enable bit
  reset,    \* RESET_REGISTER_W holds the data path in reset
  builder,  \* event_counter_state of the event builder
  done,     \* EVENT_BUILD_STATUS_REGISTER_R, bit 0
  given,    \* events given to the DMA since it was enabled; word_counter counts them
  dma,      \* state of the DMA engine
  ram,      \* observer: the events among the blocks it has still to send
  written,  \* memwriteaddr: blocks it was given
  sent,     \* blocks it has sent to the PC
  eoe,      \* memwriteaddreoe_long: the end of event it holds
  dma_buf,  \* the memory of the PC: the blocks with an event not copied yet
  ctrl      \* _dmabuf_ctrl[0]: the end of event it wrote with its last page

main_vars == <<midas, enabled>>
thread_vars == <<seen, length, late, restarted>>
builder_vars == <<builder, done>>
engine_vars == <<dma, ram, written, sent, eoe>>
memory_vars == <<dma_buf, ctrl>>
board_vars == <<builder_vars, given, engine_vars, memory_vars>>
vars == <<main_vars, pc, thread_vars, get_n, enable, reset, board_vars>>

\* The last event of a buffer is the first that begins behind the request.
Buffer == Request + 1 + Page
\* The memory of the PC takes two of them: the thread asks for one half.
Size == Buffer + Buffer
ROTypeOK ==
  /\ midas \in {"stopped", "starting", "running", "paused", "stopping", "ending"}
  /\ enabled \in BOOLEAN /\ enable \in BOOLEAN /\ reset \in BOOLEAN
  /\ pc \in {"idle", "space", "ask", "enable", "poll", "disable", "length", "copy"}
  /\ seen \in {"done", "timeout"} /\ length \in 0..Size
  /\ late \in BOOLEAN /\ restarted \in BOOLEAN
  /\ get_n \in {0, Request}
  /\ builder \in {"waiting", "wait_last_word", "write_4kb_padding"} /\ done \in BOOLEAN
  /\ given \in 0..(Request + 1)
  /\ dma \in {"disabled", "waiting"}
  /\ written \in 0..Size /\ sent \in 0..Size /\ eoe \in 0..Size
  /\ ram \subseteq 1..Size /\ dma_buf \subseteq 1..Size /\ ctrl \in 0..Size

ROInit ==
  /\ midas = "stopped" /\ enabled = FALSE
  /\ pc = "idle" /\ seen = "done" /\ length = 0
  /\ late = FALSE /\ restarted = FALSE
  /\ get_n = 0 /\ enable = FALSE /\ reset = FALSE
  /\ builder = "waiting" /\ done = FALSE /\ given = 0
  /\ dma = "disabled" /\ written = 0 /\ sent = 0 /\ eoe = 0
  /\ ram = {} /\ dma_buf = {} /\ ctrl = 0

-----------------------------------------------------------------------------
(***************************************************************************)
(* The board.                                                              *)
(***************************************************************************)
\* (mutant: the word counter is loaded with one more than the request)
LastBlockLate == given > get_n
LastBlock == given >= get_n

(* An event that comes while the DMA is enabled and not half full is sent; *)
(* every other event is skipped, which changes nothing here.  A buffer     *)
(* ends with an event that has an error, or is the last.                   *)
SendEvent ==
  /\ ~reset /\ enable /\ get_n # 0 /\ ~done /\ builder = "waiting"
  /\ written' = written + 1
  /\ ram' = ram \cup {written + 1}
  /\ given' = given + 1
  /\ \E error \in BOOLEAN :
       builder' = IF error \/ LastBlock THEN "wait_last_word" ELSE "waiting"
  /\ UNCHANGED <<main_vars, pc, thread_vars, get_n, enable, reset, done,
                 dma, sent, eoe, memory_vars>>

(* wait_last_word: the DMA engine, unless it is disabled, keeps the end of *)
(* the last event.  It never forgets it.  (mutant: done without padding)   *)
KeepEndOfEvent == eoe' = IF dma = "waiting" THEN written ELSE eoe
EndOfEventDone ==
  /\ builder = "wait_last_word"
  /\ builder' = "waiting" /\ done' = enable
  /\ KeepEndOfEvent
  /\ UNCHANGED <<main_vars, pc, thread_vars, get_n, enable, reset, given,
                 dma, ram, written, sent, memory_vars>>
EndOfEvent ==
  /\ builder = "wait_last_word"
  /\ builder' = "write_4kb_padding"
  /\ KeepEndOfEvent
  /\ UNCHANGED <<main_vars, pc, thread_vars, get_n, enable, reset, done, given,
                 dma, ram, written, sent, memory_vars>>

Pad ==
  /\ builder = "write_4kb_padding"
  /\ builder' = "waiting" /\ done' = enable
  /\ written' = IF enable THEN written + Page ELSE written
  /\ UNCHANGED <<main_vars, pc, thread_vars, get_n, enable, reset, given,
                 dma, ram, sent, eoe, memory_vars>>

PageReady == written - sent >= Page
(* A full page goes to the PC, and with it the end of event held then.     *)
SendPage ==
  /\ dma = "waiting" /\ PageReady
  /\ sent' = sent + Page
  /\ LET page == (sent + 1)..(sent + Page) IN
        /\ dma_buf' = (dma_buf \ page) \cup (ram \cap page)
        /\ ram' = ram \ page
  /\ ctrl' = eoe
  /\ UNCHANGED <<main_vars, pc, thread_vars, get_n, enable, reset, builder_vars,
                 given, dma, written, eoe>>

(* A disabled DMA first sends the pages it has, then clears its addresses; *)
(* what is left of a page, and the end of event it holds, it does not.     *)
DmaStops ==
  /\ dma = "waiting" /\ ~enable /\ ~PageReady
  /\ dma' = "disabled" /\ written' = 0 /\ sent' = 0
  /\ ram' = {}
  /\ UNCHANGED <<main_vars, pc, thread_vars, get_n, enable, reset, builder_vars,
                 given, eoe, memory_vars>>

(* Nothing is under way on the board.                                      *)
Settled == builder = "waiting" /\ ~PageReady /\ (dma = "waiting" => enable)
-----------------------------------------------------------------------------
(***************************************************************************)
(* read_stream_thread, one action per call that others may come between.   *)
(***************************************************************************)
CheckEnabled ==
  /\ pc = "idle" /\ enabled
  /\ pc' = "space"
  /\ UNCHANGED <<main_vars, thread_vars, get_n, enable, reset, board_vars>>

GetSpace ==
  /\ pc = "space" /\ pc' = "ask"
  /\ UNCHANGED <<main_vars, thread_vars, get_n, enable, reset, board_vars>>

\* rb_get_wp: DB_TIMEOUT while MIDAS has not emptied the ring buffer.
NoSpace ==
  /\ pc = "space" /\ pc' = "idle"
  /\ UNCHANGED <<main_vars, thread_vars, get_n, enable, reset, board_vars>>

Ask ==
  /\ pc = "ask" /\ pc' = "enable"
  /\ get_n' = Request
  /\ UNCHANGED <<main_vars, thread_vars, enable, reset, board_vars>>

(* The thread does not sleep between two buffers: after a short copy the   *)
(* engine may still be at the pages of the last buffer, and goes on at its *)
(* address; or the event builder at its padding.  (Bound: not twice in a   *)
(* row, then the memory of the PC would be full.)                          *)
EnableContinuousReadout ==
  /\ pc = "enable" /\ pc' = "poll"
  /\ restarted' = ~(Settled /\ dma = "disabled")
  /\ ~(restarted /\ restarted')
  /\ enable' = TRUE
  /\ dma' = "waiting"
  /\ given' = 0
  /\ UNCHANGED <<main_vars, seen, length, late, get_n, reset, builder_vars,
                 ram, written, sent, eoe, memory_vars>>

SeesDone ==
  /\ pc = "poll" /\ done
  /\ DmaLags \/ Settled
  /\ pc' = "disable" /\ seen' = "done"
  /\ UNCHANGED <<main_vars, length, late, restarted, get_n, enable, reset, board_vars>>

\* (mutant: the loop counts only while the DMA is enabled)
CountsEnabled == UseTimeout /\ enable
Counts == UseTimeout
TimesOut ==
  /\ pc = "poll" /\ Counts /\ ~done
  /\ pc' = "disable" /\ seen' = "timeout"
  /\ UNCHANGED <<main_vars, length, late, restarted, get_n, enable, reset, board_vars>>

\* i_wen going low clears done, and the counter.
DisableDma ==
  /\ pc = "disable" /\ pc' = "length"
  /\ enable' = FALSE /\ done' = FALSE
  /\ UNCHANGED <<main_vars, thread_vars, get_n, reset, builder, given,
                 engine_vars, memory_vars>>

LastEndOfEvent ==
  /\ pc = "length" /\ pc' = "copy"
  /\ length' = ctrl /\ late' = PageReady
  /\ UNCHANGED <<main_vars, seen, restarted, get_n, enable, reset, board_vars>>

\* memcpy and rb_increment_wp; what the thread knows of the buffer is gone.
Copy ==
  /\ pc = "copy" /\ pc' = "idle"
  /\ seen' = "done" /\ length' = 0 /\ late' = FALSE
  /\ dma_buf' = dma_buf \ (1..length)
  /\ UNCHANGED <<main_vars, restarted, get_n, enable, reset, builder_vars,
                 given, engine_vars, ctrl>>
-----------------------------------------------------------------------------
(***************************************************************************)
(* The transitions, in the main thread.                                    *)
(***************************************************************************)
(* begin_of_run up to the release of the reset.  MIDAS does not start a    *)
(* run in the milliseconds in which the thread copies what it has polled.  *)
BeginOfRun ==
  /\ midas = "stopped" /\ pc \in {"idle", "poll"} /\ Settled
  /\ midas' = "starting"
  /\ reset' = TRUE
  /\ dma_buf' = {}
  /\ UNCHANGED <<enabled, pc, thread_vars, get_n, enable, builder_vars, given,
                 engine_vars, ctrl>>

ReleaseReset ==
  /\ midas = "starting"
  /\ midas' = "running" /\ enabled' = TRUE
  /\ reset' = FALSE
  /\ UNCHANGED <<pc, thread_vars, get_n, enable, board_vars>>

PauseRun ==
  /\ midas = "running"
  /\ midas' = "paused" /\ enabled' = FALSE
  /\ enable' = FALSE /\ done' = FALSE
  /\ UNCHANGED <<pc, thread_vars, get_n, reset, builder, given, engine_vars, memory_vars>>

ResumeRun ==
  /\ midas = "paused"
  /\ midas' = "running" /\ enabled' = TRUE
  /\ UNCHANGED <<pc, thread_vars, get_n, enable, reset, board_vars>>

StopRun ==
  /\ midas \in {"running", "paused"}
  /\ midas' = "stopping" /\ enabled' = FALSE
  /\ UNCHANGED <<pc, thread_vars, get_n, enable, reset, board_vars>>

\* (mutant: end_of_run does not wait for the DMA)
WaitsForDmaNot ==
  /\ midas = "stopping" /\ midas' = "ending"
  /\ UNCHANGED <<enabled, pc, thread_vars, get_n, enable, reset, board_vars>>
(* end_of_run waits for done, and twice as long as the thread does: by     *)
(* then the thread is through with its buffer, unless it has no timeout.   *)
WaitsForDma ==
  /\ midas = "stopping" /\ midas' = "ending"
  /\ done \/ pc = "idle" \/ (pc = "poll" /\ ~Counts)
  /\ UNCHANGED <<enabled, pc, thread_vars, get_n, enable, reset, board_vars>>

EndOfRun ==
  /\ midas = "ending" /\ midas' = "stopped"
  /\ enable' = FALSE /\ reset' = TRUE /\ get_n' = 0
  /\ builder' = "waiting" /\ done' = FALSE
  /\ UNCHANGED <<enabled, pc, thread_vars, given, engine_vars, memory_vars>>
-----------------------------------------------------------------------------
Board == SendEvent \/ EndOfEvent \/ Pad \/ SendPage \/ DmaStops
Thread ==
  \/ CheckEnabled \/ GetSpace \/ NoSpace \/ Ask \/ EnableContinuousReadout
  \/ SeesDone \/ TimesOut \/ DisableDma \/ LastEndOfEvent \/ Copy
Main ==
  \/ BeginOfRun \/ ReleaseReset \/ PauseRun \/ ResumeRun \/ StopRun
  \/ WaitsForDma \/ EndOfRun
RONext == Board \/ Thread \/ Main

(* The board and the thread run on, and MIDAS empties the ring buffer in   *)
(* time again and again.  Events need not come.                            *)
ROFairness ==
  /\ WF_vars(EndOfEvent) /\ WF_vars(Pad) /\ WF_vars(SendPage) /\ WF_vars(DmaStops)
  /\ WF_vars(CheckEnabled) /\ WF_vars(Ask) /\ WF_vars(EnableContinuousReadout)
  /\ WF_vars(TimesOut \/ SeesDone) /\ WF_vars(DisableDma)
  /\ WF_vars(LastEndOfEvent) /\ WF_vars(Copy)
  /\ SF_vars(GetSpace)

ROSpec == ROInit /\ [][RONext]_vars /\ ROFairness
-----------------------------------------------------------------------------
(* A buffer that the thread saw done is copied whole and with nothing else *)
(* (no event of an earlier buffer, no padding), whatever transitions came  *)
(* in between, if the DMA had stopped before it was enabled and had sent   *)
(* its pages when the length was read.  (Nothing in the code waits for     *)
(* either; otherwise the length may be that of an earlier buffer, or the   *)
(* memory begins with it.)                                                 *)
CopiesWholeBuffer ==
  pc = "copy" /\ seen = "done" /\ ~late /\ ~restarted =>
    /\ length = given
    /\ 1..given \subseteq dma_buf

(* The words it copies are events the board has written since the last     *)
(* copy, as "get written words from FPGA" says.                            *)
CopiesWrittenWords ==
  pc = "copy" => 1..length \subseteq dma_buf

(* A stopped run leaves the DMA off, although the thread enables it on its *)
(* own and may have been about to: no page comes behind the back of the    *)
(* next begin_of_run, which clears the memory.                             *)
DmaOffWhenStopped == midas \in {"stopped", "starting"} => ~enable

(* In a run that goes on the thread asks for buffers again and again, even *)
(* if a stop or a pause has disabled the DMA under its poll.               *)
KeepsReading == []<>(midas # "running" \/ pc = "ask")
=============================================================================
