---------------------------- MODULE SlowControl ----------------------------
(***************************************************************************)
(* The slow control of the switching board: the transactions of            *)
(* FEBSlowcontrolInterface in the frontend program, swb_sc_main that sends *)
(* their requests to the front-end boards, the boards that execute and     *)
(* answer them, and swb_sc_secondary that collects the replies of all      *)
(* links in one memory from which the program parses them.                 *)
(*                                                                         *)
(* The program has one thread, so one transaction runs at a time.  The     *)
(* boards answer when they like: a reply waits behind data packets, and    *)
(* the program gives up after a number of polls.  A reply is two pieces,   *)
(* its preamble ("head") and the words up to the trailer ("tail").         *)
(***************************************************************************)
EXTENDS Naturals, Sequences

CONSTANTS
  Links,        \* links of the switching board with a front-end board
  Lengths,      \* lengths a read may ask for
  DonePolls,    \* polls of SC_MAIN_STATUS in FEB_write (10 in the code)
  WritePolls,   \* polls for the acknowledge in FEB_write (20)
  ReadPolls,    \* polls for the reply in FEB_read (10)
  MaxOps,       \* bound: transactions
  MaxLosses     \* bound: requests and replies lost on the optical links

ASSUME SlowControlAssumption ==
  /\ Links \subseteq Nat /\ Lengths \subseteq Nat
  /\ DonePolls \in Nat \ {0} /\ WritePolls \in Nat \ {0} /\ ReadPolls \in Nat \ {0}
  /\ MaxOps \in Nat /\ MaxLosses \in Nat

VARIABLES
  sw,         \* the transaction the program is in, or the last one
  deque,      \* sc_packet_deque
  main,       \* swb_sc_main and the request in its memory
  inq,        \* requests on the way to each board
  executed,   \* the writes each board has executed
  out,        \* replies each board has still to send
  half,       \* the head of the first of them has been sent
  fifo,       \* the link FIFOs of swb_sc_secondary: pieces of replies
  secondary,  \* swb_sc_secondary
  ring,       \* replies in its memory that the program has not yet read
  losses,     \* requests and replies lost so far
  straddled   \* links on which the end of a reset fell into a reply

vars == <<sw, deque, main, inq, executed, out, half, fifo, secondary, ring,
          losses, straddled>>
board == <<inq, executed, out>>
firmware == <<out, half, fifo, secondary, ring, straddled>>

Ids == 0..MaxOps
Op == {"read", "write", "broadcast"}
Reply == [op : {"read", "write"}, id : Ids, len : Lengths \cup {0}]
None == [op |-> "write", id |-> 0, len |-> 0]
\* What the parser finds of a cut reply: no trailer where its length says.  The
\* pointer is left inside the words, where it stays, or at the packet behind.
Broken == [op |-> "broken", id |-> 0, len |-> 0]
Passed == [op |-> "passed", id |-> 0, len |-> 0]
Piece == [part : {"head", "tail"}, reply : Reply]
Code == {"none", "OK", "FPGA_BUSY", "FPGA_TIMEOUT", "BAD_PACKET", "WRONG_SIZE"}

-----------------------------------------------------------------------------
\* Nothing is under way between the program and the boards.
Quiet ==
  /\ ~main.busy /\ deque = <<>> /\ ring = <<>> /\ secondary.state = "waiting"
  /\ \A l \in Links : inq[l] = <<>> /\ out[l] = <<>> /\ fifo[l] = <<>>

SCInit ==
  /\ sw = [pc |-> "idle", op |-> "read", id |-> 0, link |-> 0, len |-> 0, polls |-> 0,
           got |-> None, clean |-> TRUE, result |-> "none"]
  /\ deque = <<>> /\ ring = <<>>
  /\ main = [busy |-> FALSE, to |-> {}, request |-> None]
  /\ inq = [l \in Links |-> <<>>] /\ out = [l \in Links |-> <<>>]
  /\ fifo = [l \in Links |-> <<>>] /\ half = [l \in Links |-> FALSE]
  /\ executed = {} /\ straddled = {} /\ losses = 0
  /\ secondary = [state |-> "waiting", link |-> 0, copied |-> <<>>]

-----------------------------------------------------------------------------
\* (uint16_t)(1UL << FPGA_ID).  A broadcast shifts by 0xFFFFFFFF, which is
\* undefined; the shift instruction takes it modulo 64 and a compiler that
\* folds it gives 0: either way the 16 bits that are left are zero.
MaskOfNext(op, l) == {l + 1}   \* mutant: the next board
MaskOf(op, l) == IF op = "broadcast" THEN {} ELSE {l}

\* FEB_write, FEB_broadcast and FEB_read up to the start of swb_sc_main.
Begin(op, l, len) ==
  /\ sw.pc = "idle" /\ sw.id < MaxOps
  /\ LET id == sw.id + 1
         next == [pc |-> IF op = "read" THEN "read" ELSE "done?", op |-> op,
                  id |-> id, link |-> l, len |-> len, polls |-> 0, got |-> None,
                  clean |-> sw.clean /\ sw.result \in {"none", "OK"},
                  result |-> "none"]
         request == [op |-> IF op = "read" THEN "read" ELSE "write",
                     id |-> id, len |-> len]
     IN  \/ /\ main.busy
            /\ sw' = [next EXCEPT !.pc = "idle", !.result = "FPGA_BUSY"]
            /\ UNCHANGED main
         \/ /\ ~main.busy
            /\ sw' = next
            /\ main' = [busy |-> TRUE, to |-> MaskOf(op, l), request |-> request]
  /\ UNCHANGED <<deque, board, half, fifo, secondary, ring, losses, straddled>>

Return(code) == sw' = [sw EXCEPT !.pc = "idle", !.result = code]
Poll(last, pc) ==
  IF sw.polls + 1 = last
    THEN Return("FPGA_TIMEOUT")
    ELSE sw' = [sw EXCEPT !.pc = pc, !.polls = @ + 1]

\* FEB_write waits until swb_sc_main is done; a broadcast then returns.
WaitDone ==
  /\ sw.pc = "done?"
  /\ IF main.busy THEN Poll(DonePolls, "done?")
     ELSE IF sw.op = "broadcast" THEN Return("OK")
     ELSE sw' = [sw EXCEPT !.pc = "first", !.polls = 0]
  /\ UNCHANGED <<deque, main, inq, executed, firmware, losses>>

-----------------------------------------------------------------------------
\* FEBsc_read_packets pushes the packets before the first broken one and returns
\* their number, or -1 at a broken one.
Faulty(packet) == packet \in {Broken, Passed}
Parsed == IF \E i \in DOMAIN ring : Faulty(ring[i])
            THEN SubSeq(ring, 1, (CHOOSE i \in DOMAIN ring :
                   Faulty(ring[i]) /\ \A j \in 1..i-1 : ~Faulty(ring[j])) - 1)
            ELSE ring
Failed == Parsed # ring
\* What is at the pointer afterwards.
Unparsed == LET rest == SubSeq(ring, Len(Parsed) + 1, Len(ring))
            IN  IF rest # <<>> /\ Head(rest) = Passed THEN Tail(rest) ELSE rest
ReadPackets == deque' = deque \o Parsed /\ ring' = Unparsed
GotPacket == Parsed # <<>> /\ ~Failed
Front == Head(deque \o Parsed)
PopNothing == ReadPackets      \* mutant: the packet stays on the deque
PopFront ==
  /\ deque' = Tail(deque \o Parsed)
  /\ ring' = Unparsed

\* The first call in the loop of FEB_write looks for a write acknowledge.  The
\* checks that follow, Good() and IsResponse(), hold of every packet here: its
\* length is the one the parser went by, and all words come from replies.
FirstLook ==
  /\ sw.pc = "first"
  /\ IF GotPacket /\ Front.op = "write"
       THEN /\ sw' = [sw EXCEPT !.pc = "idle", !.result = "OK", !.got = Front]
            /\ PopFront
       ELSE /\ sw' = [sw EXCEPT !.pc = "second"]
            /\ ReadPackets
  /\ UNCHANGED <<main, board, half, fifo, secondary, losses, straddled>>

\* The second call takes the front packet off the deque, whatever it is.
SecondLook ==
  /\ sw.pc = "second"
  /\ IF GotPacket THEN PopFront ELSE ReadPackets
  /\ Poll(WritePolls, "first")
  /\ UNCHANGED <<main, board, half, fifo, secondary, losses, straddled>>

\* The reset of swb_sc_secondary clears its memory, its pointers and the link
\* FIFOs; the deque stays.  It is held for a millisecond.
ClearNoFifos == fifo' = fifo   \* mutant: the words in the FIFOs stay
ClearFifos == fifo' = [l \in Links |-> <<>>]
AssertReset(code) ==
  /\ sw' = [sw EXCEPT !.pc = "reset", !.result = code]
  /\ ring' = <<>>
  /\ ClearFifos
  /\ secondary' = [state |-> "reset", link |-> 0, copied |-> <<>>]

AtLeast == Front.len >= sw.len \* mutant: a longer reply is good enough
RightSize == Front.len = sw.len

\* One pass of the loop of FEB_read, and what follows a read reply.
LookForReply ==
  /\ sw.pc = "read"
  /\ \/ /\ GotPacket /\ Front.op = "read" /\ RightSize
        /\ sw' = [sw EXCEPT !.pc = "idle", !.result = "OK", !.got = Front]
        /\ PopFront
        /\ UNCHANGED <<fifo, secondary>>
     \/ /\ GotPacket /\ Front.op = "read" /\ ~RightSize
        /\ deque' = Tail(deque \o Parsed)
        /\ AssertReset("WRONG_SIZE")
     \/ /\ GotPacket /\ Front.op = "write"
        /\ Return("BAD_PACKET")
        /\ PopFront
        /\ UNCHANGED <<fifo, secondary>>
     \/ /\ Failed
        /\ deque' = deque \o Parsed
        /\ AssertReset("BAD_PACKET")
     \/ /\ ~GotPacket /\ ~Failed
        /\ Poll(ReadPolls, "read")
        /\ UNCHANGED <<deque, ring, fifo, secondary>>
  /\ UNCHANGED <<main, board, half, losses, straddled>>

\* The end of the reset: the RAM is cleared, the FIFOs take words again.
ReleaseReset ==
  /\ sw.pc = "reset"
  /\ sw' = [sw EXCEPT !.pc = "wait"]
  /\ secondary' = [secondary EXCEPT !.state = "init"]
  /\ straddled' = straddled \cup {l \in Links : half[l]}
  /\ UNCHANGED <<deque, main, board, half, fifo, ring, losses>>

\* stateout has bit 1 set in "waiting" (2) and "starting" (3), not in "init" (1).
InitSeenOver == secondary.state \in {"waiting", "starting"}
WaitInit ==
  /\ sw.pc = "wait" /\ InitSeenOver
  /\ sw' = [sw EXCEPT !.pc = "idle"]
  /\ UNCHANGED <<deque, main, inq, executed, firmware, losses>>

\* The settings "Reset SC Secondary" and "Reset SC Main" of the switching board;
\* the first is also made when the boards are set up.  The second also clears
\* the memory with the request, which may so be lost before it is sent.
ResetSecondary ==
  /\ sw.pc = "idle"
  /\ AssertReset(sw.result)
  /\ UNCHANGED <<deque, main, board, half, losses, straddled>>
ResetMain ==
  /\ sw.pc = "idle"
  /\ main' = [busy |-> FALSE, to |-> {}, request |-> None]
  /\ UNCHANGED <<sw, deque, board, half, fifo, secondary, ring, losses, straddled>>

-----------------------------------------------------------------------------
\* swb_sc_main sends the request in its memory on the links of the mask.
MainSends ==
  /\ main.busy
  /\ main' = [main EXCEPT !.busy = FALSE]
  /\ inq' = [l \in Links |-> IF l \in main.to THEN Append(inq[l], main.request)
                             ELSE inq[l]]
  /\ UNCHANGED <<sw, deque, executed, firmware, losses>>

Unwritten(l, r) == executed     \* mutant: acknowledged and not executed
Written(l, r) == executed \cup (IF r.op = "write" THEN {<<l, r.id>>} ELSE {})

\* sc_rx of a board executes a request and queues the reply, which says it is
\* a response and carries data only for a read.
Execute(l) ==
  /\ inq[l] # <<>>
  /\ LET r == Head(inq[l]) IN
       /\ executed' = Written(l, r)
       /\ out' = [out EXCEPT ![l] = Append(@, r)]
  /\ inq' = [inq EXCEPT ![l] = Tail(@)]
  /\ UNCHANGED <<sw, deque, main, half, fifo, secondary, ring, losses, straddled>>

\* A piece of a reply reaches the link FIFO, if that is not held in reset.
Into(l, part) ==
  fifo' = IF secondary.state = "reset" THEN fifo
          ELSE [fifo EXCEPT ![l] = Append(@, [part |-> part, reply |-> Head(out[l])])]
SendHead(l) ==
  /\ out[l] # <<>> /\ ~half[l]
  /\ half' = [half EXCEPT ![l] = TRUE]
  /\ Into(l, "head")
  /\ UNCHANGED <<sw, deque, main, board, secondary, ring, losses, straddled>>
SendTail(l) ==
  /\ out[l] # <<>> /\ half[l]
  /\ half' = [half EXCEPT ![l] = FALSE]
  /\ out' = [out EXCEPT ![l] = Tail(@)]
  /\ Into(l, "tail")
  /\ UNCHANGED <<sw, deque, main, inq, executed, secondary, ring, losses, straddled>>

\* The optical link loses a request, a reply or the rest of a reply.
Lose(l) ==
  /\ losses < MaxLosses /\ losses' = losses + 1
  /\ \/ /\ inq[l] # <<>>
        /\ inq' = [inq EXCEPT ![l] = Tail(@)]
        /\ UNCHANGED <<out, half>>
     \/ /\ out[l] # <<>>
        /\ out' = [out EXCEPT ![l] = Tail(@)]
        /\ half' = [half EXCEPT ![l] = FALSE]
        /\ UNCHANGED inq
  /\ UNCHANGED <<sw, deque, main, executed, fifo, secondary, ring, straddled>>

-----------------------------------------------------------------------------
InitDone ==
  /\ secondary.state = "init"
  /\ secondary' = [secondary EXCEPT !.state = "waiting"]
  /\ UNCHANGED <<sw, deque, main, board, half, fifo, ring, losses, straddled>>

\* A link whose FIFO starts with a preamble; the last one has priority.
\* (mutant: one whose FIFO holds more than one reply)
StartableLater(l) == Len(fifo[l]) > 2 /\ Head(fifo[l]).part = "head"
Startable(l) == fifo[l] # <<>> /\ Head(fifo[l]).part = "head"
StartLink ==
  /\ secondary.state = "waiting"
  /\ \E l \in Links :
       /\ Startable(l) /\ \A k \in Links : Startable(k) => k <= l
       /\ secondary' = [state |-> "starting", link |-> l, copied |-> <<Head(fifo[l])>>]
       /\ fifo' = [fifo EXCEPT ![l] = Tail(@)]
  /\ UNCHANGED <<sw, deque, main, board, half, ring, losses, straddled>>

\* Words are copied until one is the end of a packet; only then does
\* mem_addr_finished_out move, and the program sees what was copied.  A reply a
\* that was cut goes on with the next one, b, of its link: a long read takes the
\* words of b for its data, or the pointer comes to b behind its length word.
Seen(pieces) ==
  LET a == Head(pieces).reply
      b == pieces[Len(pieces)].reply
      long == a.op = "read" /\ a.len >= b.len + 3
  IN  IF Len(pieces) = 2 THEN {<<a>>}
      ELSE {<<Broken>>} \cup (IF long THEN {<<[a EXCEPT !.id = 0]>>, <<Passed, b>>} ELSE {})
CopyWord ==
  /\ secondary.state = "starting"
  /\ fifo[secondary.link] # <<>>
  /\ LET piece == Head(fifo[secondary.link])
         copied == Append(secondary.copied, piece)
     IN  IF piece.part = "tail"
           THEN /\ secondary' = [state |-> "waiting", link |-> secondary.link, copied |-> <<>>]
                /\ \E seen \in Seen(copied) : ring' = ring \o seen
           ELSE /\ secondary' = [secondary EXCEPT !.copied = copied]
                /\ UNCHANGED ring
  /\ fifo' = [fifo EXCEPT ![secondary.link] = Tail(@)]
  /\ UNCHANGED <<sw, deque, main, board, half, losses, straddled>>

-----------------------------------------------------------------------------
Program ==
  WaitDone \/ FirstLook \/ SecondLook \/ LookForReply \/ ReleaseReset \/ WaitInit
Collect == InitDone \/ StartLink \/ CopyWord

SCNext ==
  \/ \E l \in Links, n \in Lengths : Begin("read", l, n)
  \/ \E l \in Links : Begin("write", l, 0) \/ Begin("broadcast", l, 0)
  \/ Program \/ ResetSecondary \/ ResetMain \/ MainSends \/ Collect
  \/ \E l \in Links : Execute(l) \/ SendHead(l) \/ SendTail(l) \/ Lose(l)

SCSpec == SCInit /\ [][SCNext]_vars
\* The thread of the program runs, the firmware never stops, and a board that
\* has begun a reply finishes it: its data merger reads the words of a packet
\* from one FIFO until the end.  When a board begins is left open.
SCFairSpec ==
  /\ SCSpec
  /\ WF_vars(Program) /\ WF_vars(Collect) /\ WF_vars(MainSends)
  /\ \A l \in Links : WF_vars(SendTail(l))

-----------------------------------------------------------------------------
SCTypeOK ==
  /\ sw \in [pc : {"idle", "done?", "first", "second", "read", "reset", "wait"},
             op : Op, id : Ids, link : Links \cup {0}, len : Lengths \cup {0},
             polls : 0..(DonePolls + WritePolls + ReadPolls),
             got : Reply, clean : BOOLEAN, result : Code]
  /\ deque \in Seq(Reply) /\ ring \in Seq(Reply \cup {Broken, Passed})
  /\ main \in [busy : BOOLEAN, to : SUBSET Links, request : Reply]
  /\ inq \in [Links -> Seq(Reply)] /\ out \in [Links -> Seq(Reply)]
  /\ half \in [Links -> BOOLEAN] /\ fifo \in [Links -> Seq(Piece)]
  /\ secondary.state \in {"reset", "init", "waiting", "starting"}
  /\ secondary.link \in Links \cup {0} /\ secondary.copied \in Seq(Piece)
  /\ executed \subseteq Links \X Ids /\ straddled \subseteq Links
  /\ losses \in 0..MaxLosses

Ended(code) == sw.pc = "idle" /\ sw.result = code

\* Even if old replies are under way, a read that returns OK was given a read
\* reply of the length asked for, so that data[index+3] is inside the packet.
ReadFits ==
  Ended("OK") /\ sw.op = "read" => sw.got.op = "read" /\ sw.got.len = sw.len

\* And as long as every transaction before it returned OK, it is the reply to
\* its own request, whatever was lost, late or reset: FEB_read compares neither
\* board nor address of the packet at the front.
ReadOwnReply ==
  /\ ReadFits
  /\ Ended("OK") /\ sw.op = "read" /\ sw.clean => sw.got.id = sw.id

\* And a write that returns OK was executed by its board.
AckMeansWritten ==
  Ended("OK") /\ sw.op = "write" /\ sw.clean => <<sw.link, sw.id>> \in executed

\* As long as all transactions return OK, none leaves anything behind, in the
\* program, the switching board or the boards, that the next one could take
\* for its own reply.
NothingLeftBehind ==
  Ended("OK") /\ sw.clean => Quiet

\* swb_sc_secondary only waits for ever on a FIFO whose first word is no
\* preamble if the end of a reset fell into a reply of that link.
LinkBlocked(l) ==
  /\ fifo[l] # <<>> /\ Head(fifo[l]).part = "tail"
  /\ ~(secondary.state = "starting" /\ secondary.link = l)
BlockedOnlyByReset == \A l \in Links : LinkBlocked(l) => l \in straddled

\* Every transaction ends: all its loops count, and the one that does not, the
\* wait for the reset of the secondary, sees the reset end.  And as long as no
\* reply is cut, what is in a link FIFO gets into the memory.
NothingHangs ==
  /\ sw.pc # "idle" ~> sw.pc = "idle"
  /\ \A l \in Links :
       fifo[l] # <<>> ~> fifo[l] = <<>> \/ losses > 0 \/ straddled # {}
=============================================================================
