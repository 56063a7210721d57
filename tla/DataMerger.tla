----------------------------- MODULE DataMerger -----------------------------
(***************************************************************************)
(* The data merger of a front-end board                                    *)
(* (fe_board/firmware/FEB_common/data_merger.vhd) with the overflow checks *)
(* in front of its FIFOs (overflow_check.vhd).  One optical link carries   *)
(* the detector data, the slow control replies and the run control words;  *)
(* what is sent when depends on the run state the board shows (RunStates). *)
(*                                                                         *)
(* One step is one clock of link 0, the one with the slow control: both    *)
(* FIFOs are written and read, the overflow checks and the merger advance, *)
(* all from the registers as they were, and the run state may move along   *)
(* an edge.                                                                *)
(***************************************************************************)
EXTENDS Naturals, Sequences

CONSTANTS
    Depth,          \* words in each FIFO, 2 ** FIFO_ADDR_WIDTH
    MaxPacket,      \* MAX_PAKET_SIZE of the overflow checks
    Timeout,        \* clocks until the merger gives up a packet (10000)
    PacketWords,    \* the longest packet the detector writes
    ReplyTime,      \* clocks from the first to the last word of a reply
    Stalls,         \* a reply may also stop for ever, and another one begin
    Replies,        \* bound: slow control replies in a behaviour
    States,         \* the run states the board can be in
    Permissions,    \* the values i_ack_run_prep_permission takes
    Aborts,         \* an operator may abort the run
    Gaps,           \* the detector may pause inside a packet
    CanTerminate,   \* the detector drives can_terminate (mutrig), or not (mupix)
    Burst           \* the detector writes packets faster than the link sends

ASSUME SizeAssumption ==
    /\ Depth \in Nat /\ MaxPacket \in 1..Depth /\ Timeout \in Nat \ {0}
    /\ {PacketWords, ReplyTime} \subseteq Nat \ {0, 1} /\ Replies \in Nat
ASSUME StatesAssumption == "IDLE" \in States
ASSUME ChoiceAssumption == Permissions \cup {Aborts, Gaps, Stalls, CanTerminate, Burst} \subseteq BOOLEAN

VARIABLES
    run_state,      \* the run state the board shows
    merger,         \* registers of the merger process
    data_fifo,      \* words in the data FIFO
    sc_fifo,        \* words in the slow control FIFO
    check,          \* registers of the overflow check of the data FIFO
    sc_check,       \* and of that of the slow control FIFO
    detector,       \* how far the detector is in its packet
    replier,        \* how long the slow control has been writing its reply
    out,            \* the word on the link
    open,           \* observer: the packet open on the link, and what it had
    lost            \* observer: the FIFOs that a word was lost in

vars == <<run_state, merger, data_fifo, sc_fifo, check, sc_check, detector, replier,
          out, open, lost>>

Run == INSTANCE RunStates WITH FEB <- {"feb"}, MayRestart <- FALSE,
                               shown <- [f \in {"feb"} |-> run_state]

(* Control bits of a FIFO word: 0010, 0000, 0011 and 0111.                 *)
Word == {"start", "data", "end", "run_end"}
IsEnd(w) == w \in {"end", "run_end"}            \* control bits XX11

MergerState == {"idle", "sending_data", "sending_slowcontrol", "wait_for_terminate"}
Merger == [state : MergerState, prev : MergerState, timer : 0..Timeout,
           sc_read : BOOLEAN, ack_sent : BOOLEAN, terminated : BOOLEAN,
           last : Word \cup {"none"}]

(* What the link carries: commas, run control words, headers, trailers,    *)
(* link test words, slow control words, and data words under the name of   *)
(* the control bits they had in the FIFO.                                  *)
Sent == {"comma", "ack", "run_end", "timeout", "data_header", "sc_header",
         "trailer", "sc_word", "override", "start", "data"}

DMInit ==
    /\ run_state = "IDLE"
    /\ merger = [state |-> "idle", prev |-> "idle", timer |-> 0, sc_read |-> FALSE,
                 ack_sent |-> FALSE, terminated |-> FALSE, last |-> "none"]
    /\ data_fifo = <<>> /\ sc_fifo = <<>>
    /\ check = [state |-> "forwarding", write |-> "none"]
    /\ sc_check = [state |-> "forwarding", write |-> "none"]
    /\ detector = [words |-> 0, ended |-> FALSE, long |-> FALSE]
    /\ replier = [age |-> 0, replies |-> Replies]
    /\ out = "comma"
    /\ open = [kind |-> "none", words |-> 0]
    /\ lost = [data |-> FALSE, sc |-> FALSE]
-----------------------------------------------------------------------------
(***************************************************************************)
(* The merger process.  m: its registers; each branch gives the registers  *)
(* and the word it sends.  The timeout comes first in the process: it ends *)
(* the packet, but every branch assigns the word on the link after it.     *)
(***************************************************************************)
TimedOut(m) == m.state = m.prev /\ m.state # "idle" /\ m.timer = Timeout

(* Mutant: the timeout only restarts its counter.                          *)
AfterTimeoutNever(m) ==
    [m EXCEPT !.prev = m.state,
              !.timer = IF m.state # m.prev \/ m.state = "idle" \/ TimedOut(m)
                        THEN 0 ELSE @ + 1]

AfterTimeout(m) ==
    [m EXCEPT !.prev = m.state,
              !.state = IF TimedOut(m) THEN "idle" ELSE @,
              !.sc_read = @ /\ ~TimedOut(m),
              !.timer = IF m.state # m.prev \/ m.state = "idle" \/ TimedOut(m)
                        THEN 0 ELSE @ + 1]

Result(m, word) == [registers |-> m, sends |-> word]

StartSlowcontrol(t) ==
    Result([t EXCEPT !.state = "sending_slowcontrol", !.sc_read = TRUE], "sc_header")

(* Mutant: the read request stays set behind the end of a packet.          *)
SendSlowcontrolOn(t) ==
    IF sc_fifo = <<>> THEN Result(t, "comma")
    ELSE IF IsEnd(Head(sc_fifo))
         THEN Result([t EXCEPT !.state = "idle"], "trailer")
         ELSE Result([t EXCEPT !.sc_read = TRUE], "sc_word")

SendSlowcontrol(t) ==
    IF sc_fifo = <<>> THEN Result(t, "comma")
    ELSE IF IsEnd(Head(sc_fifo))
         THEN Result([t EXCEPT !.state = "idle", !.sc_read = FALSE], "trailer")
         ELSE Result([t EXCEPT !.sc_read = TRUE], "sc_word")

GoIdle(t) == Result([t EXCEPT !.state = "idle"], "comma")

(* Link test: the override data replaces the packets.                      *)
InTest(m, t) ==
    LET override_req == run_state = "LINK_TEST"
    IN  CASE m.state = "idle" /\ override_req ->
                Result([t EXCEPT !.state = "sending_data"], "data_header")
          [] m.state = "idle" /\ ~override_req -> Result(t, "comma")
          [] m.state = "sending_slowcontrol" -> SendSlowcontrol(t)
          [] OTHER -> IF override_req THEN Result(t, "override")
                      ELSE Result([t EXCEPT !.state = "idle"], "trailer")

(* Mutant: SYNC and RESET do not let the slow control packet finish.       *)
InSyncOrResetCut(m, t) == GoIdle(t)

InSyncOrReset(m, t) ==
    IF m.state = "sending_slowcontrol" THEN SendSlowcontrol(t) ELSE GoIdle(t)

InIdle(m, t) ==
    LET c == [t EXCEPT !.terminated = FALSE, !.ack_sent = FALSE, !.last = "none"]
    IN  CASE m.state = "idle" /\ sc_fifo # <<>> -> StartSlowcontrol(c)
          [] m.state = "idle" /\ sc_fifo = <<>> ->
                Result([c EXCEPT !.sc_read = FALSE], "comma")
          [] m.state = "sending_slowcontrol" -> SendSlowcontrol(c)
          [] OTHER -> GoIdle(c)

InPrep(m, t, permission) ==
    LET c == [t EXCEPT !.terminated = FALSE]
    IN  CASE m.state = "idle" /\ ~m.ack_sent /\ permission ->
                Result([c EXCEPT !.ack_sent = TRUE], "ack")
          [] m.state = "idle" /\ (m.ack_sent \/ ~permission) /\ sc_fifo = <<>> ->
                Result([c EXCEPT !.sc_read = FALSE], "comma")
          [] m.state = "idle" /\ (m.ack_sent \/ ~permission) /\ sc_fifo # <<>> ->
                StartSlowcontrol(c)
          [] m.state = "sending_slowcontrol" -> SendSlowcontrol(c)
          [] OTHER -> GoIdle(c)

(* Mutant: the run end is sent without waiting for the end of a packet.    *)
RunEndDueEager(m, can_terminate) ==
    run_state = "TERMINATING" \/ can_terminate

(* The run ends with the marker in the data stream or, while terminating,  *)
(* when the detector says so.                                              *)
RunEndDue(m, can_terminate) ==
    \/ m.last = "run_end"
    \/ data_fifo # <<>> /\ Head(data_fifo) = "run_end"
    \/ run_state = "TERMINATING" /\ can_terminate

(* data_priority is '0': slow control goes before data.                    *)
BeginPacket(c, can_terminate) ==
    CASE RunEndDue(c, can_terminate) ->
            Result([c EXCEPT !.terminated = TRUE, !.state = "wait_for_terminate"], "run_end")
      [] ~RunEndDue(c, can_terminate) /\ sc_fifo # <<>> -> StartSlowcontrol(c)
      [] ~RunEndDue(c, can_terminate) /\ sc_fifo = <<>> /\ data_fifo # <<>> ->
            Result([c EXCEPT !.state = "sending_data"], "data_header")
      [] OTHER -> Result([c EXCEPT !.sc_read = FALSE], "comma")

(* Mutant: only the run end marker is taken for the end of a packet.       *)
SendDataOn(t) ==
    IF data_fifo = <<>> THEN Result(t, "comma")
    ELSE IF Head(data_fifo) = "run_end"
         THEN Result([t EXCEPT !.state = "idle", !.last = Head(data_fifo)], "trailer")
         ELSE Result(t, Head(data_fifo))

SendData(t) ==
    IF data_fifo = <<>> THEN Result(t, "comma")
    ELSE IF IsEnd(Head(data_fifo))
         THEN Result([t EXCEPT !.state = "idle", !.last = Head(data_fifo)], "trailer")
         ELSE Result(t, Head(data_fifo))

InRun(m, t, can_terminate) ==
    LET c == [t EXCEPT !.ack_sent = FALSE]
    IN  CASE m.state = "idle" -> BeginPacket(c, can_terminate)
          [] m.state = "wait_for_terminate" -> Result(c, "comma")
          [] m.state = "sending_data" -> SendData(c)
          [] m.state = "sending_slowcontrol" -> SendSlowcontrol(c)

Merge(permission, can_terminate) ==
    LET t == AfterTimeout(merger)
    IN  CASE run_state \in {"LINK_TEST", "SYNC_TEST"} -> InTest(merger, t)
          [] run_state \in {"SYNC", "RESET"} -> InSyncOrReset(merger, t)
          [] run_state \in {"IDLE", "OUT_OF_DAQ"} -> InIdle(merger, t)
          [] run_state = "PREP" -> InPrep(merger, t, permission)
          [] run_state \in {"RUNNING", "TERMINATING"} -> InRun(merger, t, can_terminate)
-----------------------------------------------------------------------------
(***************************************************************************)
(* An overflow check throws away packets that start while its FIFO is      *)
(* nearly full.  usedw has as many bits as the address: it is 0 when the   *)
(* FIFO is full.  The checked word is written one clock later.             *)
(***************************************************************************)
usedw(fifo) == Len(fifo) % Depth

(* Mutant: the overflow check lets every packet through.                   *)
CheckedNever(c, fifo, w) == [state |-> "forwarding", write |-> w]

Checked(c, fifo, w) ==
    LET forward == \/ w # "start" /\ c.state = "forwarding"
                   \/ w = "start" /\ c.state = "forwarding" /\ usedw(fifo) <= Depth - MaxPacket
                   \/ w = "start" /\ c.state = "throwing" /\ usedw(fifo) < Depth - MaxPacket
    IN  [state |-> IF forward THEN "forwarding" ELSE "throwing",
         write |-> IF forward THEN w ELSE "none"]

(* A FIFO ignores reads while it is empty and writes while it is full.     *)
Overflows(fifo, c) == c.write # "none" /\ Len(fifo) = Depth

NextFifo(fifo, read, c) ==
    LET rest == IF read /\ fifo # <<>> THEN Tail(fifo) ELSE fifo
    IN  IF c.write = "none" \/ Overflows(fifo, c) THEN rest ELSE Append(rest, c.write)

(* Mutant: the FIFO keeps what an aborted run left.                        *)
NextDataFifoKept ==
    NextFifo(data_fifo, run_state \in {"RUNNING", "TERMINATING"} /\ merger.state = "sending_data",
             check)

(* The data FIFO is cleared in IDLE.                                       *)
NextDataFifo ==
    IF run_state = "IDLE" THEN <<>>
    ELSE NextFifo(data_fifo,
                  run_state \in {"RUNNING", "TERMINATING"} /\ merger.state = "sending_data", check)

NextSCFifo == NextFifo(sc_fifo, merger.sc_read, sc_check)

(* The observer: has a word been lost?  IDLE clears the data FIFO.         *)
NextLost ==
    [data |-> run_state # "IDLE" /\ (lost.data \/ Overflows(data_fifo, check)),
     sc   |-> lost.sc \/ Overflows(sc_fifo, sc_check)]
-----------------------------------------------------------------------------
(***************************************************************************)
(* The writers.  The detector writes packets while the board is running or *)
(* terminating; the sorter sends the run end marker after the last packet. *)
(* It is reset between runs.  words: words of its open packet so far;      *)
(* long: a packet of the run has more than MaxPacket - 2 words.            *)
(***************************************************************************)
DetectorWrites ==
    IF run_state \notin {"RUNNING", "TERMINATING"} \/ detector.ended THEN {"none"}
    ELSE IF detector.words = 0
         THEN {"none"}
              \cup (IF Burst \/ (data_fifo = <<>> /\ check.write = "none") THEN {"start"} ELSE {})
              \cup (IF run_state = "TERMINATING" /\ ~CanTerminate THEN {"run_end"} ELSE {})
         ELSE (IF Gaps THEN {"none"} ELSE {})
              \cup (IF detector.words < PacketWords - 1 THEN {"data"} ELSE {})
              \cup (IF detector.words >= 1 THEN {"end"} ELSE {})

NextDetector(w) ==
    IF run_state \in {"IDLE", "PREP", "SYNC", "RESET", "OUT_OF_DAQ"}
    THEN [words |-> 0, ended |-> FALSE, long |-> FALSE]
    ELSE [words |-> IF w = "none" THEN detector.words
                    ELSE IF w \in {"start", "data"} THEN detector.words + 1 ELSE 0,
          ended |-> detector.ended \/ w = "run_end",
          long |-> \/ detector.long
                   \/ w \in {"start", "data", "end"} /\ detector.words + 3 > MaxPacket]

(* The slow control writes a reply when the address of a command comes in, *)
(* its length, the words it reads, and the end, with pauses between them:  *)
(* the memory takes its time, and the reply to a write ends when the last  *)
(* word of the command has come.  A command that breaks off leaves a reply *)
(* without an end, until the next one begins.                              *)
ReplierWrites ==
    IF replier.age = 0 THEN {"none"} \cup {w \in {"start"} : replier.replies > 0}
    ELSE (IF replier.age < ReplyTime - 1 THEN {"none", "data"} ELSE {w \in {"none"} : Stalls})
         \cup {"end"} \cup {w \in {"start"} : Stalls /\ replier.replies > 0}

NextReplier(s) ==
    [age |-> CASE s = "start" -> 1
               [] s = "end" -> 0
               [] s \in {"none", "data"} -> IF replier.age \in {0, ReplyTime - 1}
                                            THEN replier.age ELSE replier.age + 1,
     replies |-> IF s = "start" THEN replier.replies - 1 ELSE replier.replies]

(* The observer: the packet the receiver of the link takes as open, and    *)
(* how many of its words it has seen (2 stands for more).                  *)
NextOpen(word) ==
    [kind |-> CASE word = "data_header" -> "data"
                [] word = "sc_header" -> "slowcontrol"
                [] word = "trailer" -> "none"
                [] OTHER -> open.kind,
     words |-> CASE word \in {"data_header", "sc_header", "trailer"} -> 0
                 [] word \in {"start", "data"} -> IF open.words = 2 THEN 2 ELSE open.words + 1
                 [] OTHER -> open.words]

(* The state controller leaves TERMINATING when the merger has terminated; *)
(* its synchroniser takes a few clocks, far fewer than Timeout.            *)
MoveRunState ==
    /\ run_state' \in States /\ Run!Move
    /\ <<run_state, run_state'>> \in Run!AbortEdges => Aborts
    /\ run_state = "TERMINATING" /\ run_state' = "IDLE" => merger.terminated
    /\ run_state = "TERMINATING" /\ merger.terminated /\ merger.timer = Timeout - 1
          => run_state' # "TERMINATING"

(* can_terminate says that everything the detector has is written.         *)
Clock ==
    \E permission \in Permissions, can_terminate \in {FALSE, CanTerminate} :
    \E w \in DetectorWrites, s \in ReplierWrites :
        LET r == Merge(permission, can_terminate)
        IN  /\ can_terminate => detector.words = 0 /\ w = "none" /\ check.write = "none"
            /\ merger' = r.registers
            /\ out' = r.sends
            /\ open' = NextOpen(r.sends)
            /\ check' = Checked(check, data_fifo, w)
            /\ sc_check' = Checked(sc_check, sc_fifo, s)
            /\ data_fifo' = NextDataFifo
            /\ sc_fifo' = NextSCFifo
            /\ lost' = NextLost
            /\ detector' = NextDetector(w)
            /\ replier' = NextReplier(s)
            /\ MoveRunState

DMNext == Clock

DMSpec == DMInit /\ [][DMNext]_vars

(* The clock of the transceiver runs on.                                   *)
DMFairSpec == DMSpec /\ WF_vars(DMNext)
-----------------------------------------------------------------------------
(* Types and ranges of the registers, the FIFOs and the observers.         *)
Check == [state : {"forwarding", "throwing"}, write : Word \cup {"none"}]

DMTypeOK ==
    /\ run_state \in States
    /\ merger \in Merger
    /\ data_fifo \in Seq(Word) /\ Len(data_fifo) <= Depth
    /\ sc_fifo \in Seq(Word) /\ Len(sc_fifo) <= Depth
    /\ check \in Check /\ sc_check \in Check
    /\ detector \in [words : 0..(PacketWords - 1), ended : BOOLEAN, long : BOOLEAN]
    /\ replier \in [age : 0..(ReplyTime - 1), replies : 0..Replies]
    /\ out \in Sent
    /\ open \in [kind : {"none", "data", "slowcontrol"}, words : 0..2]
    /\ lost \in [data : BOOLEAN, sc : BOOLEAN]

(* As long as no packet of the run has more than MaxPacket - 2 words, each *)
(* word that the overflow check lets through finds room in the FIFO: the   *)
(* check looks at the room at the start of a packet only, one clock before *)
(* the word is written, and the run end marker is not checked at all.      *)
NoWordLost == Overflows(data_fifo, check) => detector.long

(* What comes between a data header and its trailer is one packet as the   *)
(* detector wrote it: the start word comes first, and there only.          *)
Intact == out' \in {"start", "data"} => (out' = "start" <=> open'.words = 1)

(* Unless a word was lost in the FIFO, what the link carries between a data*)
(* header and its trailer is one packet as the detector wrote it: neither  *)
(* throwing packets away nor an abort in the middle of one leaves a rest   *)
(* behind that a later packet is mixed with.                               *)
PacketsIntact == [][~lost.data => Intact]_vars

(* overflow_check.vhd:2-3 says that it throws packets away instead of      *)
(* corrupting them.                                                        *)
ThrownNotCorrupted == [][Intact]_vars

(* The receiver sees a packet of a kind open while the merger sends one.   *)
(* Whatever run state the board is taken to, a slow control packet that was*)
(* begun is sent to its end ("wait for slowcontrol to finish before"), so  *)
(* acknowledges, run ends and headers never come inside one - unless the   *)
(* slow control FIFO has lost the end.                                     *)
LinkFraming ==
    /\ merger.state = "sending_data" => open.kind = "data"
    /\ ~lost.sc => (merger.state = "sending_slowcontrol" <=> open.kind = "slowcontrol")

(* A slow control word leaves its FIFO only onto the link: the read request*)
(* is a register and is set one clock ahead of the word it is for.         *)
SlowcontrolSent ==
    [][~lost.sc /\ merger.sc_read /\ sc_fifo # <<>> => out' \in {"sc_word", "trailer"}]_vars

(* When the run end goes out, the data of the run are all on the link; what*)
(* is still in the FIFO is cleared in IDLE.                                *)
RunEndLast ==
    [][out' = "run_end" => /\ \/ data_fifo = <<>>
                              \/ Head(data_fifo) = "run_end" /\ Len(data_fifo) = 1
                           /\ check.write = "none"]_vars

(* A board that stays in PREP acknowledges: nothing that is in a packet    *)
(* when PREP comes can block the link for good.                            *)
AckEventually == run_state = "PREP" ~> (merger.ack_sent \/ run_state # "PREP")

(* Once the detector has written its run end marker, the run terminates.   *)
MarkerEndsRun == detector.ended ~> run_state # "TERMINATING"
=============================================================================
