------------------------- MODULE SlowControlProofs -------------------------
(***************************************************************************)
(* What holds of the slow control for any links, lengths and numbers of    *)
(* polls, however late a board answers and whatever is lost.               *)
(***************************************************************************)
EXTENDS SlowControl, SequenceTheorems, WellFoundedInduction, TLAPS

(***************************************************************************)
(* As long as every transaction returned OK there is at most one request   *)
(* or reply under way, that of the transaction the program is in, and      *)
(* between two transactions there is none.                                 *)
(***************************************************************************)
Clean == sw.clean /\ sw.result \in {"none", "OK"}
Transacting == sw.pc \in {"done?", "first", "second", "read"}

\* What the program asked for, which is also what the board answers.
Asked == [op |-> IF sw.op = "read" THEN "read" ELSE "write", id |-> sw.id, len |-> sw.len]
HeadPiece == [part |-> "head", reply |-> Asked]
TailPiece == [part |-> "tail", reply |-> Asked]

\* One link only has something, and it has this.
Only(s) == [l \in Links |-> IF l = sw.link THEN s ELSE <<>>]
Has(busy, requests, replies, cut, pieces, state, parsed) ==
  /\ main.busy = busy
  /\ inq = Only(requests) /\ out = Only(replies)
  /\ half = [l \in Links |-> l = sw.link /\ cut]
  /\ fifo = Only(pieces) /\ ring = parsed
  /\ secondary.state = state
  /\ state = "starting" => secondary.link = sw.link /\ secondary.copied = <<HeadPiece>>

\* Where the request or its reply may be.
Nowhere    == Has(FALSE, <<>>, <<>>, FALSE, <<>>, "waiting", <<>>)
InMain     == /\ Has(TRUE, <<>>, <<>>, FALSE, <<>>, "waiting", <<>>)
              /\ main.request = Asked /\ main.to = MaskOf(sw.op, sw.link)
OnTheWay   == Has(FALSE, <<Asked>>, <<>>, FALSE, <<>>, "waiting", <<>>)
Queued     == Has(FALSE, <<>>, <<Asked>>, FALSE, <<>>, "waiting", <<>>)
HalfSent   == Has(FALSE, <<>>, <<Asked>>, TRUE, <<HeadPiece>>, "waiting", <<>>)
HalfCopied == Has(FALSE, <<>>, <<Asked>>, TRUE, <<>>, "starting", <<>>)
Sent       == Has(FALSE, <<>>, <<>>, FALSE, <<HeadPiece, TailPiece>>, "waiting", <<>>)
Copying    == Has(FALSE, <<>>, <<>>, FALSE, <<TailPiece>>, "starting", <<>>)
InMemory   == Has(FALSE, <<>>, <<>>, FALSE, <<>>, "waiting", <<Asked>>)
\* Its end was lost.
Cut        == Has(FALSE, <<>>, <<>>, FALSE, <<HeadPiece>>, "waiting", <<>>)
CutCopied  == Has(FALSE, <<>>, <<>>, FALSE, <<>>, "starting", <<>>)

Executed == sw.op = "write" => <<sw.link, sw.id>> \in executed
Answered == /\ sw.op # "broadcast" /\ Executed
            /\ \/ Queued \/ HalfSent \/ HalfCopied \/ Sent \/ Copying
               \/ InMemory \/ Cut \/ CutCopied

OneReply ==
  /\ deque = <<>>
  /\ \/ sw.pc = "idle" /\ Nowhere
     \/ sw.pc = "reset" /\ Has(FALSE, <<>>, <<>>, FALSE, <<>>, "reset", <<>>)
     \/ sw.pc = "wait" /\ Has(FALSE, <<>>, <<>>, FALSE, <<>>, "init", <<>>)
     \/ sw.pc = "wait" /\ Nowhere
     \/ Transacting /\ Nowhere
     \/ Transacting /\ sw.link \in Links /\ InMain
     \/ Transacting /\ sw.link \in Links /\ sw.op # "broadcast" /\ OnTheWay
     \/ Transacting /\ sw.link \in Links /\ Answered

\* The program, by where it is.
Program_OK ==
  /\ sw = [pc |-> sw.pc, op |-> sw.op, id |-> sw.id, link |-> sw.link, len |-> sw.len,
           polls |-> sw.polls, got |-> sw.got, clean |-> sw.clean, result |-> sw.result]
  /\ sw.pc \in {"idle", "done?", "first", "second", "read", "reset", "wait"}
  /\ sw.op \in Op /\ sw.clean \in BOOLEAN
  /\ Transacting => sw.result = "none"
  /\ sw.pc = "done?" => sw.op # "read"
  /\ sw.pc \in {"first", "second"} => sw.op = "write"
  /\ sw.pc = "read" => sw.op = "read"

ReturnedOwn ==
  sw.result = "OK" => /\ sw.op = "read" => sw.got.id = sw.id
                      /\ Executed

CleanInv == Program_OK /\ (Clean => OneReply /\ ReturnedOwn)
-----------------------------------------------------------------------------
LEMMA OnlyFacts ==
  ASSUME sw.link \in Links, NEW s, NEW t
  PROVE  /\ Only(s)[sw.link] = s
         /\ \A l \in Links : l # sw.link => Only(s)[l] = <<>>
         /\ [Only(s) EXCEPT ![sw.link] = t] = Only(t)
BY DEF Only

LEMMA ShortSequences ==
  ASSUME NEW x, NEW y
  PROVE  /\ Append(<<>>, x) = <<x>> /\ Append(<<x>>, y) = <<x, y>>
         /\ Head(<<x>>) = x /\ Tail(<<x>>) = <<>>
         /\ Head(<<x, y>>) = x /\ Tail(<<x, y>>) = <<y>>
<1>1. Append(<<>>, x) = <<x>>
  OBVIOUS
<1>2. Append(<<x>>, y) = <<x, y>>
  <2>1. <<x>> \in Seq({x, y}) /\ y \in {x, y} /\ <<x, y>> \in Seq({x, y})
    OBVIOUS
  <2>2. /\ Append(<<x>>, y) \in Seq({x, y}) /\ Len(Append(<<x>>, y)) = 2
        /\ Append(<<x>>, y)[1] = x /\ Append(<<x>>, y)[2] = y
    BY <2>1, AppendProperties
  <2>3. \A i \in 1..2 : Append(<<x>>, y)[i] = <<x, y>>[i]
    BY <2>2
  <2> QED BY <2>1, <2>2, <2>3, SeqEqual
<1>3. Head(<<x>>) = x /\ Head(<<x, y>>) = x
  OBVIOUS
<1>4. Tail(<<x>>) = <<>>
  OBVIOUS
<1>5. Tail(<<x, y>>) = <<y>>
  OBVIOUS
<1> QED BY <1>1, <1>2, <1>3, <1>4, <1>5

LEMMA SameAsked ==
  sw' = sw => /\ Asked' = Asked /\ HeadPiece' = HeadPiece /\ TailPiece' = TailPiece
BY DEF Asked, HeadPiece, TailPiece

LEMMA OnlyNothing == \A l \in Links : Only(<<>>)[l] = <<>>
BY DEF Only

\* What FEBsc_read_packets makes of a memory with nothing, and with one reply.
LEMMA ParseNothing ==
  ASSUME ring = <<>>
  PROVE  /\ Parsed = <<>> /\ ~GotPacket /\ ~Failed
         /\ deque = <<>> /\ ReadPackets => deque' = <<>> /\ ring' = <<>>
<1>1. Parsed = <<>>
  BY DEF Parsed
<1>2. Unparsed = <<>>
  BY <1>1 DEF Unparsed
<1> QED BY <1>1, <1>2 DEF GotPacket, Failed, ReadPackets

LEMMA ParseOne ==
  ASSUME NEW r, ring = <<r>>, ~Faulty(r)
  PROVE  /\ Parsed = <<r>> /\ GotPacket /\ ~Failed
         /\ deque = <<>> => /\ Front = r
                            /\ PopFront => deque' = <<>> /\ ring' = <<>>
<1>1. Parsed = <<r>>
  BY DEF Parsed
<1>2. GotPacket /\ ~Failed
  BY <1>1 DEF GotPacket, Failed
<1>3. ASSUME deque = <<>> PROVE Front = r /\ (PopFront => deque' = <<>> /\ ring' = <<>>)
  <2>1. Unparsed = <<>> BY <1>1 DEF Unparsed
  <2> QED BY <1>1, <1>3, <2>1 DEF Front, PopFront
<1> QED BY <1>1, <1>2, <1>3

LEMMA AskedIsReply ==
  Program_OK => /\ ~Faulty(Asked)
                /\ sw.op = "write" => Asked.op = "write"
                /\ sw.op = "read" => Asked.op = "read" /\ Asked.len = sw.len
                /\ Asked.id = sw.id
BY DEF Program_OK, Asked, Faulty, Broken, Passed, Op
-----------------------------------------------------------------------------
LEMMA CleanInit == SCInit => CleanInv
<1> SUFFICES ASSUME SCInit PROVE CleanInv
  OBVIOUS
<1>1. Program_OK
  BY DEF SCInit, Program_OK, Transacting, Op
<1>2. OneReply
  BY DEF SCInit, OneReply, Nowhere, Has, Only
<1>3. ReturnedOwn
  BY DEF SCInit, ReturnedOwn
<1> QED BY <1>1, <1>2, <1>3 DEF CleanInv

\* A step of the boards or of the switching board.
LEMMA CleanSameProgram ==
  ASSUME CleanInv, UNCHANGED <<sw, deque>>, executed \subseteq executed',
         Clean /\ OneReply => OneReply'
  PROVE  CleanInv'
<1>1. Program_OK' /\ (Clean' <=> Clean)
  BY DEF CleanInv, Program_OK, Transacting, Clean
<1>2. ReturnedOwn => ReturnedOwn'
  BY DEF ReturnedOwn, Executed
<1> QED BY <1>1, <1>2 DEF CleanInv

LEMMA CleanMainSends ==
  ASSUME CleanInv, MainSends PROVE CleanInv'
<1> SUFFICES ASSUME OneReply PROVE OneReply'
  BY CleanSameProgram DEF MainSends, firmware
<1>1. main.busy /\ deque' = deque /\ sw' = sw /\ executed' = executed
  BY DEF MainSends
<1>2. Transacting /\ sw.link \in Links /\ InMain
  BY <1>1 DEF OneReply, Has, Nowhere, OnTheWay, Answered, Queued, HalfSent, HalfCopied,
              Sent, Copying, InMemory, Cut, CutCopied
<1>3. UNCHANGED firmware /\ main'.busy = FALSE
  BY <1>2 DEF MainSends, InMain, Has
<1>4. CASE sw.op = "broadcast"
  <2>1. main.to = {} BY <1>2, <1>4 DEF InMain, MaskOf
  <2>2. inq' = Only(<<>>) BY <2>1, <1>2 DEF MainSends, InMain, Has, Only
  <2>3. Nowhere'
    BY <1>1, <1>2, <1>3, <2>2 DEF InMain, Nowhere, Has, Only, firmware
  <2> QED BY <1>1, <1>2, <2>3 DEF OneReply, Transacting
<1>5. CASE sw.op # "broadcast"
  <2>1. main.to = {sw.link} BY <1>2, <1>5 DEF InMain, MaskOf
  <2>2. inq' = Only(<<Asked>>)
    BY <2>1, <1>2 DEF MainSends, InMain, Has, Only
  <2>3. OnTheWay'
    BY <1>1, <1>2, <1>3, <2>2 DEF InMain, OnTheWay, Has, Only, firmware, Asked
  <2> QED BY <1>1, <1>2, <1>5, <2>3 DEF OneReply, Transacting
<1> QED BY <1>4, <1>5

LEMMA CleanExecute ==
  ASSUME CleanInv, NEW l \in Links, Execute(l) PROVE CleanInv'
<1>0. executed \subseteq executed' /\ UNCHANGED <<sw, deque>>
  BY DEF Execute, Written
<1> SUFFICES ASSUME OneReply PROVE OneReply'
  BY <1>0, CleanSameProgram
<1>1. inq[l] # <<>>
  BY DEF Execute
<1>2. /\ Transacting /\ sw.link \in Links /\ sw.op # "broadcast" /\ OnTheWay
      /\ l = sw.link
  BY <1>1 DEF OneReply, Has, Nowhere, InMain, OnTheWay, Answered, Queued, HalfSent,
              HalfCopied, Sent, Copying, InMemory, Cut, CutCopied, Only
<1>3. inq[l] = <<Asked>> /\ out[l] = <<>>
  BY <1>2 DEF OnTheWay, Has, Only
<1>4. inq' = Only(<<>>) /\ out' = Only(<<Asked>>)
  <2>1. inq' = [inq EXCEPT ![l] = <<>>] /\ out' = [out EXCEPT ![l] = <<Asked>>]
    BY <1>3 DEF Execute
  <2> QED BY <2>1, <1>2, OnlyFacts DEF OnTheWay, Has
<1>5. Executed'
  <2>1. sw.op = "write" => Asked.op = "write" /\ Asked.id = sw.id
    BY DEF Asked
  <2> QED BY <2>1, <1>0, <1>2, <1>3 DEF Execute, Written, Executed
<1>6. Queued'
  <2>1. UNCHANGED <<main, half, fifo, secondary, ring, sw>> /\ Asked' = Asked
    BY <1>0, SameAsked DEF Execute
  <2>2. inq' = Only(<<>>)' /\ out' = Only(<<Asked>>)'
    BY <2>1, <1>4 DEF Only
  <2> QED BY <2>1, <2>2, <1>2 DEF OnTheWay, Queued, Has, Only
<1> QED BY <1>0, <1>2, <1>5, <1>6 DEF OneReply, Answered, Transacting

LEMMA CleanSendHead ==
  ASSUME CleanInv, NEW l \in Links, SendHead(l) PROVE CleanInv'
<1>0. UNCHANGED <<sw, deque, main, inq, out, executed, secondary, ring>>
  BY DEF SendHead, board
<1> SUFFICES ASSUME OneReply PROVE OneReply'
  BY <1>0, CleanSameProgram
<1>1. out[l] # <<>> /\ ~half[l]
  BY DEF SendHead
<1>2. Transacting /\ sw.link \in Links /\ Answered /\ Queued /\ l = sw.link
  BY <1>1 DEF OneReply, Has, Nowhere, InMain, OnTheWay, Answered, Queued, HalfSent,
              HalfCopied, Sent, Copying, InMemory, Cut, CutCopied, Only
<1>3. /\ fifo' = [fifo EXCEPT ![l] = Append(@, [part |-> "head", reply |-> Head(out[l])])]
      /\ half' = [half EXCEPT ![l] = TRUE]
  BY <1>2 DEF SendHead, Into, Queued, Has
<1>4. fifo[l] = <<>> /\ Head(out[l]) = Asked
  BY <1>2, OnlyFacts DEF Queued, Has
<1>5. fifo' = [fifo EXCEPT ![l] = <<HeadPiece>>]
  <2>1. [part |-> "head", reply |-> Head(out[l])] = HeadPiece
    BY <1>4 DEF HeadPiece
  <2>2. Append(fifo[l], HeadPiece) = <<HeadPiece>>
    BY <1>4, ShortSequences
  <2> QED BY <1>3, <2>1, <2>2
<1>6. fifo' = Only(<<HeadPiece>>)
  BY <1>5, <1>2, OnlyFacts DEF Queued, Has
<1>7. half' = [k \in Links |-> k = sw.link /\ TRUE]
  BY <1>2, <1>3 DEF Queued, Has
<1>8. HalfSent'
  <2>1. Asked' = Asked /\ HeadPiece' = HeadPiece
    BY <1>0, SameAsked
  <2>2. fifo' = Only(<<HeadPiece>>)'
    BY <1>0, <1>6, <2>1 DEF Only
  <2> QED BY <2>1, <2>2, <1>0, <1>2, <1>7 DEF Queued, HalfSent, Has, Only
<1> QED BY <1>0, <1>2, <1>8 DEF OneReply, Answered, Executed, Transacting

LEMMA CleanSendTail ==
  ASSUME CleanInv, NEW l \in Links, SendTail(l) PROVE CleanInv'
<1>0. UNCHANGED <<sw, deque, main, inq, executed, secondary, ring>>
  BY DEF SendTail
<1> SUFFICES ASSUME OneReply PROVE OneReply'
  BY <1>0, CleanSameProgram
<1>1. out[l] # <<>> /\ half[l]
  BY DEF SendTail
<1>2. /\ Transacting /\ sw.link \in Links /\ Answered /\ l = sw.link
      /\ HalfSent \/ HalfCopied
  BY <1>1 DEF OneReply, Has, Nowhere, InMain, OnTheWay, Answered, Queued, HalfSent,
              HalfCopied, Sent, Copying, InMemory, Cut, CutCopied, Only
<1>3. Head(out[l]) = Asked /\ Tail(out[l]) = <<>>
  <2>1. out[l] = <<Asked>> BY <1>2, OnlyFacts DEF HalfSent, HalfCopied, Has
  <2> QED BY <2>1, ShortSequences
<1>4. fifo' = [fifo EXCEPT ![l] = Append(@, TailPiece)]
  BY <1>2, <1>3 DEF SendTail, Into, HalfSent, HalfCopied, Has, TailPiece
<1>5. out' = Only(<<>>)'
  <2>1. out' = [out EXCEPT ![l] = <<>>] BY <1>3 DEF SendTail
  <2>2. out' = Only(<<>>)
    BY <2>1, <1>2, OnlyFacts DEF HalfSent, HalfCopied, Has
  <2> QED BY <2>2, <1>0 DEF Only
<1>6. half' = [k \in Links |-> k = sw'.link /\ FALSE]
  BY <1>0, <1>2 DEF SendTail, HalfSent, HalfCopied, Has
<1>7. HeadPiece' = HeadPiece /\ TailPiece' = TailPiece
  BY <1>0, SameAsked
<1>8. CASE HalfSent
  <2>1. fifo' = [fifo EXCEPT ![l] = <<HeadPiece, TailPiece>>]
    <3>1. fifo[l] = <<HeadPiece>> BY <1>8, <1>2, OnlyFacts DEF HalfSent, Has
    <3>2. Append(fifo[l], TailPiece) = <<HeadPiece, TailPiece>>
      BY <3>1, ShortSequences
    <3> QED BY <1>4, <3>2
  <2>2. fifo' = Only(<<HeadPiece, TailPiece>>)
    BY <2>1, <1>8, <1>2, OnlyFacts DEF HalfSent, Has
  <2>3. fifo' = Only(<<HeadPiece, TailPiece>>)'
    BY <2>2, <1>7, <1>0 DEF Only
  <2>4. Sent'
    BY <2>3, <1>0, <1>5, <1>6, <1>8 DEF Sent, HalfSent, Has, Only
  <2> QED BY <2>4, <1>0, <1>2 DEF OneReply, Answered, Executed, Transacting
<1>9. CASE HalfCopied
  <2>1. fifo' = [fifo EXCEPT ![l] = <<TailPiece>>]
    BY <1>4, <1>9, <1>2, OnlyFacts DEF HalfCopied, Has
  <2>2. fifo' = Only(<<TailPiece>>)
    BY <2>1, <1>9, <1>2, OnlyFacts DEF HalfCopied, Has
  <2>3. fifo' = Only(<<TailPiece>>)'
    BY <2>2, <1>7, <1>0 DEF Only
  <2>4. Copying'
    BY <2>3, <1>0, <1>5, <1>6, <1>7, <1>9 DEF Copying, HalfCopied, Has, Only
  <2> QED BY <2>4, <1>0, <1>2 DEF OneReply, Answered, Executed, Transacting
<1> QED BY <1>2, <1>8, <1>9

\* What the link loses is the one request or reply, or the rest of it.
LEMMA CleanLose ==
  ASSUME CleanInv, NEW l \in Links, Lose(l) PROVE CleanInv'
<1>0. UNCHANGED <<sw, deque, main, executed, fifo, secondary, ring>>
  BY DEF Lose
<1> SUFFICES ASSUME OneReply PROVE OneReply'
  BY <1>0, CleanSameProgram
<1>1. HeadPiece' = HeadPiece
  BY <1>0, SameAsked
<1>2. CASE inq[l] # <<>> /\ inq' = [inq EXCEPT ![l] = Tail(@)] /\ UNCHANGED <<out, half>>
  <2>1. Transacting /\ sw.link \in Links /\ OnTheWay /\ l = sw.link
    BY <1>2 DEF OneReply, Has, Nowhere, InMain, OnTheWay, Answered, Queued, HalfSent,
              HalfCopied, Sent, Copying, InMemory, Cut, CutCopied, Only
  <2>2. inq' = [inq EXCEPT ![l] = <<>>]
    <3>1. inq[l] = <<Asked>> BY <2>1, OnlyFacts DEF OnTheWay, Has
    <3>2. Tail(inq[l]) = <<>> BY <3>1, ShortSequences
    <3> QED BY <1>2, <3>2
  <2>3. inq' = Only(<<>>)
    BY <2>1, <2>2, OnlyFacts DEF OnTheWay, Has
  <2>4. Nowhere'
    BY <2>1, <2>3, <1>0, <1>2 DEF OnTheWay, Nowhere, Has, Only
  <2> QED BY <2>1, <2>4, <1>0 DEF OneReply, Transacting
<1>3. CASE /\ out[l] # <<>> /\ out' = [out EXCEPT ![l] = Tail(@)]
           /\ half' = [half EXCEPT ![l] = FALSE] /\ UNCHANGED inq
  <2>1. /\ Transacting /\ sw.link \in Links /\ Answered /\ l = sw.link
        /\ Queued \/ HalfSent \/ HalfCopied
    BY <1>3 DEF OneReply, Has, Nowhere, InMain, OnTheWay, Answered, Queued, HalfSent,
              HalfCopied, Sent, Copying, InMemory, Cut, CutCopied, Only
  <2>2. out' = [out EXCEPT ![l] = <<>>]
    <3>1. out[l] = <<Asked>>
      BY <2>1, OnlyFacts DEF Queued, HalfSent, HalfCopied, Has
    <3>2. Tail(out[l]) = <<>> BY <3>1, ShortSequences
    <3> QED BY <1>3, <3>2
  <2>3. out' = Only(<<>>)
    BY <2>1, <2>2, OnlyFacts DEF Queued, HalfSent, HalfCopied, Has
  <2>4. half' = [k \in Links |-> k = sw'.link /\ FALSE]
    BY <2>1, <1>0, <1>3 DEF Queued, HalfSent, HalfCopied, Has
  <2>5. Queued => Nowhere'
    BY <2>3, <2>4, <1>0, <1>3 DEF Queued, Nowhere, Has, Only
  <2>6. HalfSent => Cut'
    BY <2>3, <2>4, <1>0, <1>1, <1>3 DEF HalfSent, Cut, Has, Only
  <2>7. HalfCopied => CutCopied'
    BY <2>3, <2>4, <1>0, <1>1, <1>3 DEF HalfCopied, CutCopied, Has, Only
  <2> QED BY <2>1, <2>5, <2>6, <2>7, <1>0 DEF OneReply, Answered, Executed, Transacting
<1> QED BY <1>2, <1>3 DEF Lose

LEMMA CleanInitDone ==
  ASSUME CleanInv, InitDone PROVE CleanInv'
<1>0. UNCHANGED <<sw, deque, main, inq, out, executed, half, fifo, ring>>
  BY DEF InitDone, board
<1> SUFFICES ASSUME OneReply PROVE OneReply'
  BY <1>0, CleanSameProgram
<1>1. sw.pc = "wait" /\ Has(FALSE, <<>>, <<>>, FALSE, <<>>, "init", <<>>)
  BY DEF InitDone, OneReply, Has, Nowhere, InMain, OnTheWay, Answered, Queued, HalfSent,
              HalfCopied, Sent, Copying, InMemory, Cut, CutCopied
<1>2. secondary'.state = "waiting"
  BY DEF InitDone
<1>3. Nowhere'
  BY <1>0, <1>1, <1>2 DEF Nowhere, Has, Only
<1> QED BY <1>0, <1>1, <1>3 DEF OneReply

LEMMA CleanStartLink ==
  ASSUME CleanInv, StartLink PROVE CleanInv'
<1>0. UNCHANGED <<sw, deque, main, inq, out, executed, half, ring>>
  BY DEF StartLink, board
<1> SUFFICES ASSUME OneReply PROVE OneReply'
  BY <1>0, CleanSameProgram
<1>1. PICK l \in Links :
        /\ fifo[l] # <<>>
        /\ secondary' = [state |-> "starting", link |-> l, copied |-> <<Head(fifo[l])>>]
        /\ fifo' = [fifo EXCEPT ![l] = Tail(@)]
  BY DEF StartLink, Startable
<1>2. secondary.state = "waiting"
  BY DEF StartLink
<1>3. /\ Transacting /\ sw.link \in Links /\ Answered /\ l = sw.link
      /\ HalfSent \/ Sent \/ Cut
  BY <1>1, <1>2 DEF OneReply, Has, Nowhere, InMain, OnTheWay, Answered, Queued, HalfSent,
              HalfCopied, Sent, Copying, InMemory, Cut, CutCopied, Only
<1>4. HeadPiece' = HeadPiece /\ TailPiece' = TailPiece /\ Asked' = Asked
  BY <1>0, SameAsked
<1>5. CASE Sent
  <2>1. fifo[l] = <<HeadPiece, TailPiece>> BY <1>3, <1>5, OnlyFacts DEF Sent, Has
  <2>2. Head(fifo[l]) = HeadPiece /\ Tail(fifo[l]) = <<TailPiece>>
    BY <2>1, ShortSequences
  <2>3. fifo' = Only(<<TailPiece>>)
    <3>1. fifo' = [fifo EXCEPT ![l] = <<TailPiece>>] BY <1>1, <2>2
    <3> QED BY <3>1, <1>3, <1>5, OnlyFacts DEF Sent, Has
  <2>4. fifo' = Only(<<TailPiece>>)'
    BY <2>3, <1>0, <1>4 DEF Only
  <2>5. Copying'
    BY <2>2, <2>4, <1>0, <1>1, <1>3, <1>4, <1>5 DEF Copying, Sent, Has, Only
  <2> QED BY <2>5, <1>0, <1>3 DEF OneReply, Answered, Executed, Transacting
<1>6. CASE HalfSent \/ Cut
  <2>1. fifo[l] = <<HeadPiece>> BY <1>3, <1>6, OnlyFacts DEF HalfSent, Cut, Has
  <2>2. Head(fifo[l]) = HeadPiece /\ Tail(fifo[l]) = <<>>
    BY <2>1, ShortSequences
  <2>3. fifo' = Only(<<>>)
    <3>1. fifo' = [fifo EXCEPT ![l] = <<>>] BY <1>1, <2>2
    <3> QED BY <3>1, <1>3, <1>6, OnlyFacts DEF HalfSent, Cut, Has
  <2>4. fifo' = Only(<<>>)'
    BY <2>3, <1>0 DEF Only
  <2>5. HalfSent => HalfCopied'
    BY <2>2, <2>4, <1>0, <1>1, <1>3, <1>4 DEF HalfCopied, HalfSent, Has, Only
  <2>6. Cut => CutCopied'
    BY <2>2, <2>4, <1>0, <1>1, <1>3, <1>4 DEF CutCopied, Cut, Has, Only
  <2> QED BY <2>5, <2>6, <1>0, <1>3, <1>6 DEF OneReply, Answered, Executed, Transacting
<1> QED BY <1>3, <1>5, <1>6

LEMMA CleanCopyWord ==
  ASSUME CleanInv, CopyWord PROVE CleanInv'
<1>0. UNCHANGED <<sw, deque, main, inq, out, executed, half>>
  BY DEF CopyWord, board
<1> SUFFICES ASSUME OneReply PROVE OneReply'
  BY <1>0, CleanSameProgram
<1>1. secondary.state = "starting" /\ fifo[secondary.link] # <<>>
  BY DEF CopyWord
<1>2. Transacting /\ sw.link \in Links /\ Answered /\ Copying
  BY <1>1 DEF OneReply, Has, Nowhere, InMain, OnTheWay, Answered, Queued, HalfSent,
              HalfCopied, Sent, Copying, InMemory, Cut, CutCopied, Only
<1>3. fifo[sw.link] = <<TailPiece>> /\ secondary.link = sw.link
  BY <1>2, OnlyFacts DEF Copying, Has
<1>4. Head(fifo[sw.link]) = TailPiece /\ Tail(fifo[sw.link]) = <<>>
  BY <1>3, ShortSequences
<1>5. Append(secondary.copied, TailPiece) = <<HeadPiece, TailPiece>>
  BY <1>2, ShortSequences DEF Copying, Has
<1>6. Seen(<<HeadPiece, TailPiece>>) = {<<Asked>>}
  BY ShortSequences DEF Seen, HeadPiece
<1>7. TailPiece.part = "tail"
  BY DEF TailPiece
<1>8. /\ secondary'.state = "waiting" /\ fifo' = [fifo EXCEPT ![sw.link] = <<>>]
      /\ ring' = ring \o <<Asked>>
  <2>1. /\ Head(fifo[secondary.link]) = TailPiece /\ Tail(fifo[secondary.link]) = <<>>
        /\ Append(secondary.copied, Head(fifo[secondary.link])) = <<HeadPiece, TailPiece>>
    BY <1>3, <1>4, <1>5
  <2>2. /\ secondary' = [state |-> "waiting", link |-> secondary.link, copied |-> <<>>]
        /\ \E seen \in Seen(<<HeadPiece, TailPiece>>) : ring' = ring \o seen
    BY <2>1, <1>7 DEF CopyWord
  <2>3. fifo' = [fifo EXCEPT ![secondary.link] = <<>>]
    BY <2>1 DEF CopyWord
  <2> QED BY <2>2, <2>3, <1>3, <1>6
<1>9. fifo' = Only(<<>>) /\ ring' = <<Asked>>
  BY <1>2, <1>8, OnlyFacts, ShortSequences DEF Copying, Has
<1>10. InMemory'
  <2>1. Asked' = Asked BY <1>0, SameAsked
  <2>2. fifo' = Only(<<>>)' BY <1>0, <1>9 DEF Only
  <2> QED BY <2>1, <2>2, <1>0, <1>2, <1>8, <1>9 DEF InMemory, Copying, Has, Only
<1> QED BY <1>0, <1>2, <1>10 DEF OneReply, Answered, Executed, Transacting
-----------------------------------------------------------------------------
(***************************************************************************)
(* The steps of the program.                                               *)
(***************************************************************************)
LEMMA CleanBegin ==
  ASSUME CleanInv, NEW op \in Op, NEW l \in Links, NEW len, Begin(op, l, len)
  PROVE  CleanInv'
<1>1. /\ sw.pc = "idle"
      /\ UNCHANGED <<deque, inq, out, executed, half, fifo, secondary, ring>>
  BY DEF Begin, board
<1>2. CASE main.busy
  <2>1. /\ Program_OK' /\ ~Clean'
    BY <1>2 DEF Begin, CleanInv, Program_OK, Transacting, Clean, Op
  <2> QED BY <2>1 DEF CleanInv
<1>3. CASE ~main.busy
  <2>1. /\ sw' = [pc |-> IF op = "read" THEN "read" ELSE "done?", op |-> op,
                  id |-> sw.id + 1, link |-> l, len |-> len, polls |-> 0, got |-> None,
                  clean |-> sw.clean /\ sw.result \in {"none", "OK"},
                  result |-> "none"]
        /\ main' = [busy |-> TRUE, to |-> MaskOf(op, l),
                    request |-> [op |-> IF op = "read" THEN "read" ELSE "write",
                                 id |-> sw.id + 1, len |-> len]]
    BY <1>3 DEF Begin
  <2>2. Program_OK'
    BY <2>1 DEF Program_OK, Transacting, Op
  <2>3. ReturnedOwn'
    BY <2>1 DEF ReturnedOwn
  <2>4. ASSUME Clean' PROVE OneReply'
    <3>1. Nowhere /\ deque = <<>>
      BY <2>1, <2>4, <1>1 DEF Clean, CleanInv, OneReply, Transacting
    <3>2. InMain'
      BY <3>1, <2>1, <1>1 DEF Nowhere, InMain, Has, Only, Asked
    <3> QED BY <3>1, <3>2, <2>1, <1>1 DEF OneReply, Transacting
  <2> QED BY <2>2, <2>3, <2>4 DEF CleanInv
<1> QED BY <1>2, <1>3

\* The reply stays where it is when the program only looks.
LEMMA KeepsReply ==
  ASSUME OneReply, Transacting, Transacting',
         sw'.link = sw.link, sw'.op = sw.op, sw'.id = sw.id, Asked' = Asked,
         UNCHANGED <<deque, ring, main, inq, out, executed, half, fifo, secondary>>
  PROVE  OneReply'
<1>0. HeadPiece' = HeadPiece /\ TailPiece' = TailPiece
  BY DEF HeadPiece, TailPiece
<1>1. Nowhere => Nowhere'
  BY <1>0 DEF Nowhere, Has, Only
<1>2. InMain => InMain'
  BY <1>0 DEF InMain, Has, Only, MaskOf
<1>3. OnTheWay => OnTheWay'
  BY <1>0 DEF OnTheWay, Has, Only
<1>4. Queued => Queued'
  BY <1>0 DEF Queued, Has, Only
<1>5. HalfSent => HalfSent'
  BY <1>0 DEF HalfSent, Has, Only
<1>6. HalfCopied => HalfCopied'
  BY <1>0 DEF HalfCopied, Has, Only
<1>7. Sent => Sent'
  BY <1>0 DEF Sent, Has, Only
<1>8. Copying => Copying'
  BY <1>0 DEF Copying, Has, Only
<1>9. InMemory => InMemory'
  BY <1>0 DEF InMemory, Has, Only
<1>10. Cut => Cut'
  BY <1>0 DEF Cut, Has, Only
<1>11. CutCopied => CutCopied'
  BY <1>0 DEF CutCopied, Has, Only
<1> QED BY <1>1, <1>2, <1>3, <1>4, <1>5, <1>6, <1>7, <1>8, <1>9, <1>10, <1>11
  DEF OneReply, Answered, Executed, Transacting

\* A transaction that goes on, or ends with an error, and nothing moves.
LEMMA CleanPoll ==
  ASSUME CleanInv, NEW last, NEW pc \in {"done?", "first", "read"}, Poll(last, pc),
         Transacting,
         pc \in {"done?", "read"} => sw.pc = pc, pc = "first" => sw.op = "write",
         UNCHANGED <<main, inq, out, executed, half, fifo, secondary>>,
         Clean => \/ UNCHANGED <<deque, ring>>
                  \/ InMemory /\ deque' = <<>> /\ ring' = <<>>
  PROVE  CleanInv'
<1>1. Program_OK /\ sw.result = "none"
  BY DEF CleanInv, Program_OK
<1>2. CASE sw' = [sw EXCEPT !.pc = "idle", !.result = "FPGA_TIMEOUT"]
  <2>1. Program_OK' /\ ~Clean'
    BY <1>1, <1>2 DEF Program_OK, Transacting, Clean
  <2> QED BY <2>1 DEF CleanInv
<1>3. CASE sw' = [sw EXCEPT !.pc = pc, !.polls = @ + 1]
  <2>1. /\ Program_OK' /\ ReturnedOwn' /\ (Clean' <=> Clean) /\ Transacting'
        /\ sw'.link = sw.link /\ sw'.op = sw.op /\ sw'.id = sw.id /\ Asked' = Asked
    BY <1>1, <1>3 DEF Program_OK, Transacting, Clean, ReturnedOwn, CleanInv, Asked
  <2>3. ASSUME Clean, OneReply, UNCHANGED <<deque, ring>> PROVE OneReply'
    BY <2>1, <2>3, KeepsReply
  <2>4. ASSUME Clean, InMemory, deque' = <<>>, ring' = <<>> PROVE OneReply'
    <3>1. Nowhere' BY <2>1, <2>4 DEF InMemory, Nowhere, Has, Only
    <3> QED BY <3>1, <2>1, <2>4 DEF OneReply
  <2> QED BY <2>1, <2>3, <2>4 DEF CleanInv
<1> QED BY <1>2, <1>3 DEF Poll, Return

\* What the memory holds while a transaction runs.
LEMMA MemoryHas ==
  ASSUME OneReply, Transacting
  PROVE  /\ deque = <<>>
         /\ ring = <<>> \/ (sw.op # "broadcast" /\ InMemory /\ Executed)
BY DEF OneReply, Has, Nowhere, InMain, OnTheWay, Answered, Queued, HalfSent,
              HalfCopied, Sent, Copying, InMemory, Cut, CutCopied, Transacting

LEMMA CleanWaitDone ==
  ASSUME CleanInv, WaitDone PROVE CleanInv'
<1>1. /\ sw.pc = "done?" /\ Transacting
      /\ UNCHANGED <<deque, main, inq, out, executed, half, fifo, secondary, ring>>
  BY DEF WaitDone, firmware, Transacting
<1>2. Program_OK
  BY DEF CleanInv
<1>3. CASE main.busy
  BY <1>1, <1>3, CleanPoll DEF WaitDone
<1>4. CASE ~main.busy /\ sw.op = "broadcast"
  <2>1. sw' = [sw EXCEPT !.pc = "idle", !.result = "OK"]
    BY <1>1, <1>4 DEF WaitDone, Return
  <2>2. Program_OK' /\ sw'.op = "broadcast" /\ sw'.pc = "idle" /\ sw'.link = sw.link
    BY <1>2, <1>4, <2>1 DEF Program_OK, Transacting
  <2>3. ReturnedOwn'
    BY <2>2 DEF ReturnedOwn, Executed
  <2>4. ASSUME Clean' PROVE OneReply'
    <3>1. Clean /\ OneReply
      BY <1>1, <1>2, <2>1, <2>4 DEF Clean, CleanInv, Program_OK
    <3>2. Nowhere /\ deque = <<>>
      BY <3>1, <1>1, <1>4 DEF OneReply, InMain, Has, Answered, Transacting
    <3>3. Nowhere'
      BY <3>2, <1>1, <2>2 DEF Nowhere, Has, Only
    <3> QED BY <3>2, <3>3, <2>2, <1>1 DEF OneReply
  <2> QED BY <2>2, <2>3, <2>4 DEF CleanInv
<1>5. CASE ~main.busy /\ sw.op # "broadcast"
  <2>1. sw' = [sw EXCEPT !.pc = "first", !.polls = 0]
    BY <1>1, <1>5 DEF WaitDone
  <2>2. /\ Program_OK' /\ (Clean' <=> Clean) /\ Transacting' /\ sw'.link = sw.link
        /\ sw'.op = sw.op /\ sw'.id = sw.id /\ sw'.result = "none" /\ Asked' = Asked
    BY <1>1, <1>2, <1>5, <2>1 DEF Program_OK, Transacting, Clean, Asked, Op
  <2>3. ReturnedOwn'
    BY <2>2 DEF ReturnedOwn
  <2>4. ASSUME Clean, OneReply PROVE OneReply'
    BY <2>2, <2>4, <1>1, KeepsReply
  <2> QED BY <2>2, <2>3, <2>4 DEF CleanInv
<1> QED BY <1>3, <1>4, <1>5

LEMMA CleanFirstLook ==
  ASSUME CleanInv, FirstLook PROVE CleanInv'
<1>1. /\ sw.pc = "first" /\ Transacting
      /\ UNCHANGED <<main, inq, out, executed, half, fifo, secondary>>
  BY DEF FirstLook, board, Transacting
<1>2. Program_OK /\ sw.op = "write"
  BY <1>1 DEF CleanInv, Program_OK
<1>3. CASE GotPacket /\ Front.op = "write"
  <2>1. PopFront /\ sw' = [sw EXCEPT !.pc = "idle", !.result = "OK", !.got = Front]
    BY <1>3 DEF FirstLook
  <2>2. Program_OK' /\ sw'.pc = "idle" /\ UNCHANGED <<sw.link, sw.op, sw.id>>
    BY <1>2, <2>1 DEF Program_OK, Transacting
  <2>3. ASSUME Clean' PROVE OneReply' /\ ReturnedOwn'
    <3>1. Clean /\ OneReply
      BY <1>1, <1>2, <2>1, <2>3 DEF Clean, CleanInv, Program_OK
    <3>2. deque = <<>> /\ InMemory /\ Executed
      BY <3>1, <1>1, <1>3, MemoryHas, ParseNothing
    <3>3. deque' = <<>> /\ ring' = <<>>
      BY <3>2, <2>1, <1>2, ParseOne, AskedIsReply DEF InMemory, Has
    <3>4. Nowhere'
      BY <3>2, <3>3, <1>1, <2>2 DEF InMemory, Nowhere, Has, Only
    <3> QED BY <3>2, <3>3, <3>4, <2>2, <1>1, <1>2 DEF OneReply, ReturnedOwn, Executed
  <2> QED BY <2>2, <2>3 DEF CleanInv
<1>4. CASE ~(GotPacket /\ Front.op = "write")
  <2>1. ReadPackets /\ sw' = [sw EXCEPT !.pc = "second"]
    BY <1>4 DEF FirstLook
  <2>2. /\ Program_OK' /\ (Clean' <=> Clean) /\ Transacting' /\ sw'.link = sw.link
        /\ sw'.op = sw.op /\ sw'.id = sw.id /\ sw'.result = "none" /\ Asked' = Asked
    BY <1>1, <1>2, <2>1 DEF Program_OK, Transacting, Clean, Asked, Op
  <2>3. ReturnedOwn'
    BY <2>2 DEF ReturnedOwn
  <2>4. ASSUME Clean, OneReply PROVE OneReply'
    <3>1. deque = <<>> /\ ring = <<>>
      <4>1. ring = <<>> \/ InMemory
        BY <1>1, <2>4, MemoryHas
      <4>2. ~InMemory
        BY <1>2, <1>4, <2>4, ParseOne, AskedIsReply DEF InMemory, Has, OneReply
      <4> QED BY <4>1, <4>2, <2>4 DEF OneReply
    <3>2. UNCHANGED <<deque, ring>>
      BY <3>1, <2>1, ParseNothing
    <3> QED BY <3>2, <2>2, <2>4, <1>1, KeepsReply
  <2> QED BY <2>2, <2>3, <2>4 DEF CleanInv
<1> QED BY <1>3, <1>4

LEMMA CleanSecondLook ==
  ASSUME CleanInv, SecondLook PROVE CleanInv'
<1>1. /\ sw.pc = "second" /\ Transacting /\ Poll(WritePolls, "first")
      /\ UNCHANGED <<main, inq, out, executed, half, fifo, secondary>>
  BY DEF SecondLook, board, Transacting
<1>2. Program_OK /\ sw.op = "write"
  BY <1>1 DEF CleanInv, Program_OK
<1>3. ASSUME Clean PROVE \/ UNCHANGED <<deque, ring>>
                         \/ InMemory /\ deque' = <<>> /\ ring' = <<>>
  <2>1. deque = <<>> /\ (ring = <<>> \/ InMemory)
    BY <1>1, <1>3, MemoryHas DEF CleanInv
  <2>2. CASE ring = <<>>
    BY <2>1, <2>2, ParseNothing DEF SecondLook
  <2>3. CASE InMemory
    BY <1>2, <2>1, <2>3, ParseOne, AskedIsReply DEF SecondLook, InMemory, Has
  <2> QED BY <2>1, <2>2, <2>3
<1> QED BY <1>1, <1>2, <1>3, CleanPoll

\* A transaction that ends with an error.
LEMMA CleanError ==
  ASSUME CleanInv, NEW pc \in {"idle", "reset"}, NEW code,
         code \notin {"none", "OK"},
         sw' = [sw EXCEPT !.pc = pc, !.result = code]
  PROVE  CleanInv'
<1>1. Program_OK' /\ ~Clean'
  BY DEF CleanInv, Program_OK, Transacting, Clean
<1> QED BY <1>1 DEF CleanInv

LEMMA CleanLookForReply ==
  ASSUME CleanInv, LookForReply PROVE CleanInv'
<1>1. /\ sw.pc = "read" /\ Transacting
      /\ UNCHANGED <<main, inq, out, executed, half>>
  BY DEF LookForReply, board, Transacting
<1>2. Program_OK /\ sw.op = "read"
  BY <1>1 DEF CleanInv, Program_OK
<1>3. CASE /\ GotPacket /\ PopFront /\ UNCHANGED <<fifo, secondary>>
           /\ sw' = [sw EXCEPT !.pc = "idle", !.result = "OK", !.got = Front]
  <2>1. Program_OK' /\ sw'.pc = "idle" /\ sw'.got = Front /\ UNCHANGED <<sw.link, sw.op, sw.id>>
    BY <1>2, <1>3 DEF Program_OK, Transacting
  <2>2. ASSUME Clean' PROVE OneReply' /\ ReturnedOwn'
    <3>1. Clean /\ OneReply
      BY <1>1, <1>2, <1>3, <2>2 DEF Clean, CleanInv, Program_OK
    <3>2. deque = <<>> /\ InMemory
      BY <3>1, <1>1, <1>3, MemoryHas, ParseNothing
    <3>3. deque' = <<>> /\ ring' = <<>> /\ Front = Asked
      BY <3>2, <1>3, <1>2, ParseOne, AskedIsReply DEF InMemory, Has
    <3>4. Nowhere'
      BY <3>2, <3>3, <1>1, <1>3, <2>1 DEF InMemory, Nowhere, Has, Only
    <3>5. sw'.got.id = sw.id
      BY <3>3, <2>1, <1>2, AskedIsReply
    <3> QED BY <3>3, <3>4, <3>5, <2>1, <1>2 DEF OneReply, ReturnedOwn, Executed
  <2> QED BY <2>1, <2>2 DEF CleanInv
<1>4. CASE AssertReset("WRONG_SIZE") \/ AssertReset("BAD_PACKET") \/ Return("BAD_PACKET")
  BY <1>4, CleanError DEF AssertReset, Return
<1>5. CASE Poll(ReadPolls, "read") /\ UNCHANGED <<deque, ring, fifo, secondary>>
  BY <1>1, <1>2, <1>5, CleanPoll
<1> QED BY <1>3, <1>4, <1>5 DEF LookForReply

LEMMA CleanReleaseReset ==
  ASSUME CleanInv, ReleaseReset PROVE CleanInv'
<1>1. /\ sw.pc = "reset" /\ sw' = [sw EXCEPT !.pc = "wait"] /\ secondary'.state = "init"
      /\ UNCHANGED <<deque, main, inq, out, executed, half, fifo, ring>>
  BY DEF ReleaseReset, board
<1>2. /\ Program_OK' /\ (Clean' <=> Clean) /\ (ReturnedOwn => ReturnedOwn')
      /\ sw'.pc = "wait" /\ sw'.link = sw.link
  BY <1>1 DEF CleanInv, Program_OK, Transacting, Clean, ReturnedOwn, Executed
<1>3. ASSUME Clean, OneReply PROVE OneReply'
  <2>1. deque = <<>> /\ Has(FALSE, <<>>, <<>>, FALSE, <<>>, "reset", <<>>)
    BY <1>1, <1>3 DEF OneReply, Transacting
  <2>2. Has(FALSE, <<>>, <<>>, FALSE, <<>>, "init", <<>>)'
    BY <2>1, <1>1, <1>2 DEF Has, Only
  <2> QED BY <2>1, <2>2, <1>1, <1>2 DEF OneReply
<1> QED BY <1>2, <1>3 DEF CleanInv

LEMMA CleanWaitInit ==
  ASSUME CleanInv, WaitInit PROVE CleanInv'
<1>1. /\ sw.pc = "wait" /\ sw' = [sw EXCEPT !.pc = "idle"] /\ InitSeenOver
      /\ UNCHANGED <<deque, main, inq, out, executed, half, fifo, secondary, ring>>
  BY DEF WaitInit, firmware
<1>2. /\ Program_OK' /\ (Clean' <=> Clean) /\ (ReturnedOwn => ReturnedOwn')
      /\ sw'.pc = "idle" /\ sw'.link = sw.link
  BY <1>1 DEF CleanInv, Program_OK, Transacting, Clean, ReturnedOwn, Executed
<1>3. ASSUME Clean, OneReply PROVE OneReply'
  <2>1. deque = <<>> /\ Nowhere
    BY <1>1, <1>3 DEF OneReply, Transacting, InitSeenOver, Has
  <2>2. Nowhere'
    BY <2>1, <1>1, <1>2 DEF Nowhere, Has, Only
  <2> QED BY <2>1, <2>2, <1>1, <1>2 DEF OneReply
<1> QED BY <1>2, <1>3 DEF CleanInv

LEMMA CleanResetSecondary ==
  ASSUME CleanInv, ResetSecondary PROVE CleanInv'
<1>1. /\ sw.pc = "idle" /\ sw' = [sw EXCEPT !.pc = "reset", !.result = sw.result]
      /\ ring' = <<>> /\ fifo' = [l \in Links |-> <<>>] /\ secondary'.state = "reset"
      /\ UNCHANGED <<deque, main, inq, out, executed, half>>
  BY DEF ResetSecondary, AssertReset, ClearFifos, board
<1>2. /\ Program_OK' /\ (Clean' <=> Clean) /\ (ReturnedOwn => ReturnedOwn')
      /\ sw'.pc = "reset" /\ sw'.link = sw.link
  BY <1>1 DEF CleanInv, Program_OK, Transacting, Clean, ReturnedOwn, Executed
<1>3. ASSUME Clean, OneReply PROVE OneReply'
  <2>1. deque = <<>> /\ Nowhere
    BY <1>1, <1>3 DEF OneReply, Transacting
  <2>2. Has(FALSE, <<>>, <<>>, FALSE, <<>>, "reset", <<>>)'
    BY <2>1, <1>1, <1>2 DEF Nowhere, Has, Only
  <2> QED BY <2>1, <2>2, <1>1, <1>2 DEF OneReply
<1> QED BY <1>2, <1>3 DEF CleanInv

LEMMA CleanResetMain ==
  ASSUME CleanInv, ResetMain PROVE CleanInv'
<1>0. /\ sw.pc = "idle" /\ main'.busy = FALSE
      /\ UNCHANGED <<sw, deque, inq, out, executed, half, fifo, secondary, ring>>
  BY DEF ResetMain, board
<1> SUFFICES ASSUME OneReply PROVE OneReply'
  BY <1>0, CleanSameProgram
<1>1. deque = <<>> /\ Nowhere
  BY <1>0 DEF OneReply, Transacting
<1>2. Nowhere'
  BY <1>0, <1>1 DEF Nowhere, Has, Only
<1> QED BY <1>0, <1>1, <1>2 DEF OneReply

LEMMA CleanNext == CleanInv /\ [SCNext]_vars => CleanInv'
<1> SUFFICES ASSUME CleanInv, [SCNext]_vars PROVE CleanInv'
  OBVIOUS
<1>1. CASE UNCHANGED vars
  <2>1. CleanInv' <=> CleanInv
    BY <1>1 DEF vars, CleanInv, Program_OK, OneReply, ReturnedOwn, Clean, Transacting,
                Executed, Asked, HeadPiece, TailPiece, Has, Nowhere, InMain, OnTheWay, Answered, Queued, HalfSent,
              HalfCopied, Sent, Copying, InMemory, Cut, CutCopied, Only
  <2> QED BY <2>1
<1>2. CASE \E l \in Links, n \in Lengths : Begin("read", l, n)
  BY <1>2, CleanBegin DEF Op
<1>3. CASE \E l \in Links : Begin("write", l, 0) \/ Begin("broadcast", l, 0)
  BY <1>3, CleanBegin DEF Op
<1>4. CASE Program
  BY <1>4, CleanWaitDone, CleanFirstLook, CleanSecondLook, CleanLookForReply,
     CleanReleaseReset, CleanWaitInit DEF Program
<1>5. CASE ResetSecondary \/ ResetMain \/ MainSends
  BY <1>5, CleanResetSecondary, CleanResetMain, CleanMainSends
<1>6. CASE Collect
  BY <1>6, CleanInitDone, CleanStartLink, CleanCopyWord DEF Collect
<1>7. CASE \E l \in Links : Execute(l) \/ SendHead(l) \/ SendTail(l) \/ Lose(l)
  BY <1>7, CleanExecute, CleanSendHead, CleanSendTail, CleanLose
<1> QED BY <1>1, <1>2, <1>3, <1>4, <1>5, <1>6, <1>7 DEF SCNext

(* As long as every transaction has returned OK there is at most one       *)
(* request or reply on its way, and it is the one of the transaction that  *)
(* runs, wherever it is between the memory of swb_sc_main and the deque.   *)
THEOREM CleanCorrect == SCSpec => []CleanInv
<1> QED BY CleanInit, CleanNext, PTL DEF SCSpec

(* A transaction that returns OK after ones that all did leaves nothing    *)
(* under way: neither in the program nor in the switching board nor in a   *)
(* front-end board.                                                        *)
THEOREM NothingLeft == SCSpec => []NothingLeftBehind
<1>1. CleanInv => NothingLeftBehind
  <2> SUFFICES ASSUME CleanInv, Ended("OK"), sw.clean PROVE Quiet
    BY DEF NothingLeftBehind
  <2>1. Nowhere /\ deque = <<>>
    BY DEF CleanInv, Clean, Ended, OneReply, Transacting
  <2> QED BY <2>1 DEF Nowhere, Has, Only, Quiet, CleanInv
<1> QED BY <1>1, CleanCorrect, PTL

(* A write that returns OK after transactions that all did was executed by *)
(* the board it was for.                                                   *)
THEOREM WriteExecuted == SCSpec => []AckMeansWritten
<1>1. CleanInv => AckMeansWritten
  BY DEF CleanInv, Clean, AckMeansWritten, ReturnedOwn, Executed, Ended
<1> QED BY <1>1, CleanCorrect, PTL
-----------------------------------------------------------------------------
(***************************************************************************)
(* Types, whatever was lost, late or reset.                                *)
(***************************************************************************)
LEMMA SmallestNumber ==
  ASSUME NEW T, T \subseteq Nat, T # {}
  PROVE  \E n \in T : \A m \in T : n <= m
<1>1. PICK n \in T : \A m \in T : ~(<<m, n>> \in OpToRel(<, Nat))
  BY NatLessThanWellFounded, WFMin
<1>2. ASSUME NEW m \in T PROVE n <= m
  <2>1. m \in Nat /\ n \in Nat OBVIOUS
  <2>2. m < n => <<m, n>> \in OpToRel(<, Nat)
    BY <2>1 DEF OpToRel
  <2>3. ~(m < n) BY <1>1, <2>2, Zenon
  <2> QED BY <2>1, <2>3
<1> QED BY <1>2

\* The packets that are parsed are those before the first broken one.
LEMMA ParsedTypes ==
  ASSUME deque \in Seq(Reply), ring \in Seq(Reply \cup {Broken, Passed})
  PROVE  /\ Parsed \in Seq(Reply)
         /\ Unparsed \in Seq(Reply \cup {Broken, Passed})
<1>1. Parsed \in Seq(Reply)
  <2>1. CASE \E i \in DOMAIN ring : Faulty(ring[i])
    <3> DEFINE at == {i \in DOMAIN ring : Faulty(ring[i])}
               First(i) == Faulty(ring[i]) /\ \A j \in 1..i-1 : ~Faulty(ring[j])
    <3>1. at \subseteq Nat /\ at # {} /\ DOMAIN ring = 1..Len(ring) /\ Len(ring) \in Nat
      BY <2>1
    <3>2. PICK n \in at : \A m \in at : n <= m
      BY <3>1, SmallestNumber
    <3>3. n \in DOMAIN ring /\ First(n)
      BY <3>1, <3>2
    <3> DEFINE first == CHOOSE i \in DOMAIN ring : First(i)
    <3>4. first \in DOMAIN ring /\ First(first)
      BY <3>3
    <3>5. first \in 1..Len(ring) /\ \A j \in 1..first-1 : ~Faulty(ring[j])
      BY <3>1, <3>4
    <3>6. Parsed = SubSeq(ring, 1, first - 1)
      BY <2>1 DEF Parsed
    <3> HIDE DEF first
    <3>7. \A i \in 1..(first - 1) : ring[i] \in Reply
      BY <3>1, <3>5 DEF Faulty
    <3> QED BY <3>1, <3>5, <3>6, <3>7, SubSeqProperties
  <2>2. CASE ~\E i \in DOMAIN ring : Faulty(ring[i])
    <3>1. Parsed = ring BY <2>2 DEF Parsed
    <3>2. \A i \in 1..Len(ring) : ring[i] \in Reply
      BY <2>2 DEF Faulty
    <3> QED BY <3>1, <3>2, IsASeq
  <2> QED BY <2>1, <2>2
<1>2. SubSeq(ring, Len(Parsed) + 1, Len(ring)) \in Seq(Reply \cup {Broken, Passed})
  <2>1. Len(Parsed) \in Nat /\ Len(ring) \in Nat BY <1>1
  <2>2. \A i \in (Len(Parsed) + 1)..Len(ring) : ring[i] \in Reply \cup {Broken, Passed}
    BY <2>1
  <2> QED BY <2>1, <2>2, SubSeqProperties
<1>3. Unparsed \in Seq(Reply \cup {Broken, Passed})
  <2> DEFINE rest == SubSeq(ring, Len(Parsed) + 1, Len(ring))
  <2>1. rest # <<>> => Tail(rest) \in Seq(Reply \cup {Broken, Passed})
    BY <1>2, HeadTailProperties
  <2> QED BY <1>2, <2>1 DEF Unparsed
<1> QED BY <1>1, <1>3

\* What one call of FEBsc_read_packets, and one packet taken, leave.
LEMMA ReadTypes ==
  ASSUME deque \in Seq(Reply), ring \in Seq(Reply \cup {Broken, Passed})
  PROVE  /\ ReadPackets => deque' \in Seq(Reply) /\ ring' \in Seq(Reply \cup {Broken, Passed})
         /\ deque \o Parsed \in Seq(Reply)
         /\ GotPacket => /\ Front \in Reply /\ Tail(deque \o Parsed) \in Seq(Reply)
                         /\ PopFront => /\ deque' \in Seq(Reply)
                                        /\ ring' \in Seq(Reply \cup {Broken, Passed})
<1>1. deque \o Parsed \in Seq(Reply)
  BY ParsedTypes, ConcatProperties
<1>2. ReadPackets => deque' \in Seq(Reply) /\ ring' \in Seq(Reply \cup {Broken, Passed})
  BY <1>1, ParsedTypes DEF ReadPackets
<1>3. ASSUME GotPacket
      PROVE  /\ Front \in Reply /\ Tail(deque \o Parsed) \in Seq(Reply)
             /\ PopFront => /\ deque' \in Seq(Reply)
                            /\ ring' \in Seq(Reply \cup {Broken, Passed})
  <2>1. deque \o Parsed # <<>>
    BY <1>3, ParsedTypes, ConcatEqualIffEmpty DEF GotPacket
  <2>2. Front \in Reply /\ Tail(deque \o Parsed) \in Seq(Reply)
    BY <1>1, <2>1, HeadTailProperties DEF Front
  <2> QED BY <2>2, ParsedTypes DEF PopFront
<1> QED BY <1>1, <1>2, <1>3

Transaction == [pc : {"idle", "done?", "first", "second", "read", "reset", "wait"},
                op : Op, id : Ids, link : Links \cup {0}, len : Lengths \cup {0},
                polls : 0..(DonePolls + WritePolls + ReadPolls),
                got : Reply, clean : BOOLEAN, result : Code]

\* SCTypeOK, the record of the secondary, and how far the polls have come.
TypeInv ==
  /\ SCTypeOK
  /\ secondary = [state |-> secondary.state, link |-> secondary.link,
                  copied |-> secondary.copied]
  /\ secondary.state = "starting" => secondary.link \in Links
  /\ sw.pc = "done?" => sw.polls < DonePolls
  /\ sw.pc \in {"first", "second"} => sw.polls < WritePolls
  /\ sw.pc = "read" => sw.polls < ReadPolls

LEMMA TypeInit == SCInit => TypeInv
<1> SUFFICES ASSUME SCInit PROVE TypeInv
  OBVIOUS
<1>1. None \in Reply /\ 0 \in Ids
  BY SlowControlAssumption DEF None, Reply, Ids
<1>2. SCTypeOK
  BY <1>1, SlowControlAssumption DEF SCInit, SCTypeOK, Op, Code
<1>3. TypeInv
  BY <1>2 DEF SCInit, TypeInv
<1> QED BY <1>3

LEMMA TypeBegin ==
  ASSUME TypeInv, NEW op \in Op, NEW l \in Links, NEW len \in Lengths \cup {0},
         Begin(op, l, len)
  PROVE  TypeInv'
<1>1. sw.id + 1 \in Ids
  <2>1. sw.id \in 0..MaxOps BY DEF TypeInv, SCTypeOK, Ids
  <2>2. sw.id < MaxOps BY DEF Begin
  <2> QED BY <2>1, <2>2, SlowControlAssumption DEF Ids
<1>2. [op |-> IF op = "read" THEN "read" ELSE "write", id |-> sw.id + 1, len |-> len] \in Reply
  BY <1>1 DEF Reply
<1>3. None \in Reply /\ sw.clean \in BOOLEAN
  BY SlowControlAssumption DEF None, Reply, Ids, TypeInv, SCTypeOK
<1>4. MaskOf(op, l) \in SUBSET Links
  BY DEF MaskOf
<1>5. UNCHANGED <<deque, inq, out, executed, half, fifo, secondary, ring, losses, straddled>>
  BY DEF Begin, board
<1> DEFINE next == [pc |-> IF op = "read" THEN "read" ELSE "done?", op |-> op,
                    id |-> sw.id + 1, link |-> l, len |-> len, polls |-> 0, got |-> None,
                    clean |-> sw.clean /\ sw.result \in {"none", "OK"}, result |-> "none"]
           request == [op |-> IF op = "read" THEN "read" ELSE "write",
                       id |-> sw.id + 1, len |-> len]
<1>6. /\ next \in Transaction /\ next.polls = 0
      /\ [next EXCEPT !.pc = "idle", !.result = "FPGA_BUSY"] \in Transaction
  <2>1. 0 \in 0..(DonePolls + WritePolls + ReadPolls)
    BY SlowControlAssumption
  <2>2. (sw.clean /\ sw.result \in {"none", "OK"}) \in BOOLEAN
    OBVIOUS
  <2> HIDE DEF None
  <2> QED BY <1>1, <1>3, <2>1, <2>2 DEF Transaction, Code
<1>7. \/ /\ sw' = [next EXCEPT !.pc = "idle", !.result = "FPGA_BUSY"]
         /\ main' = main
      \/ /\ sw' = next
         /\ main' = [busy |-> TRUE, to |-> MaskOf(op, l), request |-> request]
  BY DEF Begin
<1>9. /\ sw' \in Transaction /\ (sw'.polls = 0 \/ sw'.pc = "idle")
       /\ main' \in [busy : BOOLEAN, to : SUBSET Links, request : Reply]
  <2>1. /\ main \in [busy : BOOLEAN, to : SUBSET Links, request : Reply]
        /\ [busy |-> TRUE, to |-> MaskOf(op, l), request |-> request]
             \in [busy : BOOLEAN, to : SUBSET Links, request : Reply]
    BY <1>2, <1>4 DEF TypeInv, SCTypeOK
  <2> HIDE DEF next, request
  <2>2. [next EXCEPT !.pc = "idle", !.result = "FPGA_BUSY"].pc = "idle"
    BY <1>6 DEF Transaction
  <2> QED BY <1>6, <1>7, <2>1, <2>2
<1>8. SCTypeOK'
  BY <1>5, <1>9 DEF TypeInv, SCTypeOK, Transaction
<1> QED BY <1>5, <1>9, <1>8, SlowControlAssumption DEF TypeInv

\* One poll more, or none left.
LEMMA TypePoll ==
  ASSUME TypeInv, NEW last \in {DonePolls, WritePolls, ReadPolls},
         NEW pc \in {"done?", "first", "read"}, sw.polls < last, Poll(last, pc)
  PROVE  /\ sw' \in Transaction /\ sw'.pc \in {"idle", pc}
         /\ sw'.pc # "idle" => sw'.polls < last
<1>1. sw \in Transaction /\ sw.polls \in Nat /\ last \in Nat
  BY SlowControlAssumption DEF TypeInv, SCTypeOK, Transaction
<1>2. CASE sw.polls + 1 = last
  <2>1. sw' = [sw EXCEPT !.pc = "idle", !.result = "FPGA_TIMEOUT"]
    BY <1>2 DEF Poll, Return
  <2> QED BY <1>1, <2>1 DEF Transaction, Code
<1>3. CASE sw.polls + 1 # last
  <2>1. sw' = [sw EXCEPT !.pc = pc, !.polls = @ + 1]
    BY <1>3 DEF Poll
  <2>2. sw.polls + 1 < last /\ sw.polls + 1 \in 0..(DonePolls + WritePolls + ReadPolls)
    BY <1>1, <1>3, SlowControlAssumption
  <2> QED BY <1>1, <2>1, <2>2 DEF Transaction
<1> QED BY <1>2, <1>3

\* What a step of the program may change besides its own state.
LEMMA TypeRest ==
  ASSUME TypeInv, sw' \in Transaction,
         UNCHANGED <<main, inq, out, executed, half, losses>>,
         deque' \in Seq(Reply), ring' \in Seq(Reply \cup {Broken, Passed}),
         straddled' \subseteq Links, fifo' \in [Links -> Seq(Piece)],
         \/ UNCHANGED secondary
         \/ secondary' = [state |-> "reset", link |-> 0, copied |-> <<>>]
         \/ secondary' = [secondary EXCEPT !.state = "init"],
         sw'.pc = "done?" => sw'.polls < DonePolls,
         sw'.pc \in {"first", "second"} => sw'.polls < WritePolls,
         sw'.pc = "read" => sw'.polls < ReadPolls
  PROVE  TypeInv'
<1>1. /\ secondary'.state \in {"reset", "init", "waiting", "starting"}
      /\ secondary'.link \in Links \cup {0} /\ secondary'.copied \in Seq(Piece)
      /\ secondary' = [state |-> secondary'.state, link |-> secondary'.link,
                       copied |-> secondary'.copied]
      /\ secondary'.state = "starting" => secondary'.link \in Links
  <2>1. CASE UNCHANGED secondary
    BY <2>1 DEF TypeInv, SCTypeOK
  <2>2. CASE secondary' = [state |-> "reset", link |-> 0, copied |-> <<>>]
    BY <2>2
  <2>3. CASE secondary' = [secondary EXCEPT !.state = "init"]
    BY <2>3 DEF TypeInv, SCTypeOK
  <2> QED BY <2>1, <2>2, <2>3
<1>2. SCTypeOK'
  BY <1>1 DEF TypeInv, SCTypeOK, Transaction
<1> QED BY <1>1, <1>2 DEF TypeInv

LEMMA TypeProgramSteps ==
  ASSUME TypeInv, Program \/ ResetSecondary PROVE TypeInv'
<1>1. /\ sw \in Transaction /\ sw.got \in Reply /\ sw.result \in Code
      /\ deque \in Seq(Reply) /\ ring \in Seq(Reply \cup {Broken, Passed})
      /\ straddled \subseteq Links /\ fifo \in [Links -> Seq(Piece)]
  BY DEF TypeInv, SCTypeOK, Transaction
<1>2. {"none", "OK", "FPGA_BUSY", "FPGA_TIMEOUT", "BAD_PACKET", "WRONG_SIZE"} = Code
  BY DEF Code
<1>3. CASE WaitDone
  <2>1. UNCHANGED <<deque, main, inq, out, executed, half, fifo, secondary, ring, straddled, losses>>
    BY <1>3 DEF WaitDone, firmware
  <2>2. sw.pc = "done?" /\ sw.polls < DonePolls
    BY <1>3 DEF WaitDone, TypeInv
  <2>3. CASE Poll(DonePolls, "done?")
    BY <2>1, <2>2, <2>3, <1>1, TypePoll, TypeRest
  <2>4. CASE Return("OK")
    <3>1. sw' \in Transaction /\ sw'.pc = "idle"
      BY <2>4, <1>1, <1>2 DEF Return, Transaction
    <3> QED BY <3>1, <2>1, <1>1, TypeRest
  <2>5. CASE sw' = [sw EXCEPT !.pc = "first", !.polls = 0]
    <3>1. sw' \in Transaction /\ sw'.pc = "first" /\ sw'.polls = 0
      <4>1. 0 \in 0..(DonePolls + WritePolls + ReadPolls) BY SlowControlAssumption
      <4> QED BY <2>5, <1>1, <4>1 DEF Transaction
    <3> QED BY <3>1, <2>1, <1>1, SlowControlAssumption, TypeRest
  <2> QED BY <1>3, <2>3, <2>4, <2>5 DEF WaitDone
<1>4. CASE FirstLook
  <2>1. UNCHANGED <<main, inq, out, executed, half, fifo, secondary, straddled, losses>>
    BY <1>4 DEF FirstLook, board
  <2>2. sw.pc = "first" /\ sw.polls < WritePolls
    BY <1>4 DEF FirstLook, TypeInv
  <2>3. CASE GotPacket /\ PopFront
             /\ sw' = [sw EXCEPT !.pc = "idle", !.result = "OK", !.got = Front]
    <3>1. sw' \in Transaction /\ sw'.pc = "idle"
      BY <2>3, <1>1, <1>2, ReadTypes DEF Transaction
    <3> QED BY <3>1, <2>1, <2>3, <1>1, ReadTypes, TypeRest
  <2>4. CASE sw' = [sw EXCEPT !.pc = "second"] /\ ReadPackets
    <3>1. sw' \in Transaction /\ sw'.pc = "second" /\ sw'.polls = sw.polls
      BY <2>4, <1>1 DEF Transaction
    <3> QED BY <3>1, <2>1, <2>2, <2>4, <1>1, ReadTypes, TypeRest
  <2> QED BY <1>4, <2>3, <2>4 DEF FirstLook
<1>5. CASE SecondLook
  <2>1. UNCHANGED <<main, inq, out, executed, half, fifo, secondary, straddled, losses>>
    BY <1>5 DEF SecondLook, board
  <2>2. sw.polls < WritePolls /\ Poll(WritePolls, "first")
    BY <1>5 DEF SecondLook, TypeInv
  <2>3. deque' \in Seq(Reply) /\ ring' \in Seq(Reply \cup {Broken, Passed})
    BY <1>1, <1>5, ReadTypes DEF SecondLook
  <2> QED BY <2>1, <2>2, <2>3, <1>1, TypePoll, TypeRest
<1>6. CASE LookForReply
  <2>1. UNCHANGED <<main, inq, out, executed, half, straddled, losses>>
    BY <1>6 DEF LookForReply, board
  <2>2. sw.pc = "read" /\ sw.polls < ReadPolls
    BY <1>6 DEF LookForReply, TypeInv
  <2>3. CASE /\ GotPacket /\ PopFront /\ UNCHANGED <<fifo, secondary>>
             /\ \/ sw' = [sw EXCEPT !.pc = "idle", !.result = "OK", !.got = Front]
                \/ sw' = [sw EXCEPT !.pc = "idle", !.result = "BAD_PACKET"]
    <3>1. sw' \in Transaction /\ sw'.pc = "idle"
      BY <2>3, <1>1, <1>2, ReadTypes DEF Transaction
    <3> QED BY <3>1, <2>1, <2>3, <1>1, ReadTypes, TypeRest
  <2>4. CASE /\ AssertReset("WRONG_SIZE") \/ AssertReset("BAD_PACKET")
             /\ deque' \in Seq(Reply)
    <3>1. sw' \in Transaction /\ sw'.pc = "reset"
      BY <2>4, <1>1, <1>2 DEF AssertReset, Transaction
    <3>2. /\ ring' = <<>> /\ fifo' \in [Links -> Seq(Piece)]
          /\ secondary' = [state |-> "reset", link |-> 0, copied |-> <<>>]
      <4>1. fifo' = [l \in Links |-> <<>>]
        BY <2>4 DEF AssertReset, ClearFifos
      <4> QED BY <2>4, <4>1 DEF AssertReset
    <3> QED BY <3>1, <3>2, <2>1, <2>4, <1>1, TypeRest
  <2>5. CASE Poll(ReadPolls, "read") /\ UNCHANGED <<deque, ring, fifo, secondary>>
    BY <2>1, <2>2, <2>5, <1>1, TypePoll, TypeRest
  <2>6. GotPacket => Tail(deque \o Parsed) \in Seq(Reply)
    BY <1>1, ReadTypes
  <2>7. deque \o Parsed \in Seq(Reply)
    BY <1>1, ReadTypes
  <2> QED BY <1>6, <2>3, <2>4, <2>5, <2>6, <2>7 DEF LookForReply, Return
<1>7. CASE ReleaseReset
  <2>1. UNCHANGED <<deque, main, inq, out, executed, half, fifo, ring, losses>>
    BY <1>7 DEF ReleaseReset, board
  <2>2. /\ secondary' = [secondary EXCEPT !.state = "init"]
        /\ straddled' \subseteq Links
    BY <1>1, <1>7 DEF ReleaseReset
  <2>3. sw' \in Transaction /\ sw'.pc = "wait"
    BY <1>1, <1>7 DEF ReleaseReset, Transaction
  <2> QED BY <2>1, <2>2, <2>3, <1>1, TypeRest
<1>8. CASE WaitInit
  <2>1. UNCHANGED <<deque, main, inq, out, executed, half, fifo, secondary, ring, straddled, losses>>
    BY <1>8 DEF WaitInit, firmware
  <2>2. sw' \in Transaction /\ sw'.pc = "idle"
    BY <1>1, <1>8 DEF WaitInit, Transaction
  <2> QED BY <2>1, <2>2, <1>1, TypeRest
<1>9. CASE ResetSecondary
  <2>1. UNCHANGED <<deque, main, inq, out, executed, half, straddled, losses>>
    BY <1>9 DEF ResetSecondary, board
  <2>2. sw' \in Transaction /\ sw'.pc = "reset"
    BY <1>1, <1>9 DEF ResetSecondary, AssertReset, Transaction
  <2>3. /\ ring' = <<>> /\ fifo' \in [Links -> Seq(Piece)]
        /\ secondary' = [state |-> "reset", link |-> 0, copied |-> <<>>]
    BY <1>9 DEF ResetSecondary, AssertReset, ClearFifos
  <2> QED BY <2>1, <2>2, <2>3, <1>1, TypeRest
<1> QED BY <1>3, <1>4, <1>5, <1>6, <1>7, <1>8, <1>9 DEF Program

\* What a step of the boards, of the links or of the switching board may change.
LEMMA TypeBoard ==
  ASSUME TypeInv, UNCHANGED <<sw, deque>>,
         main' \in [busy : BOOLEAN, to : SUBSET Links, request : Reply],
         inq' \in [Links -> Seq(Reply)], out' \in [Links -> Seq(Reply)],
         half' \in [Links -> BOOLEAN], fifo' \in [Links -> Seq(Piece)],
         ring' \in Seq(Reply \cup {Broken, Passed}),
         secondary' \in [state : {"reset", "init", "waiting", "starting"},
                        link : Links \cup {0}, copied : Seq(Piece)],
         secondary'.state = "starting" => secondary'.link \in Links,
         executed' \subseteq Links \X Ids, straddled' \subseteq Links, losses' \in 0..MaxLosses
  PROVE  TypeInv'
<1>1. SCTypeOK'
  BY DEF TypeInv, SCTypeOK
<1> QED BY <1>1 DEF TypeInv

LEMMA TypeBoardSteps ==
  ASSUME TypeInv, NEW l \in Links, Execute(l) \/ SendHead(l) \/ SendTail(l) \/ Lose(l)
  PROVE  TypeInv'
<1>1. /\ main \in [busy : BOOLEAN, to : SUBSET Links, request : Reply]
      /\ inq \in [Links -> Seq(Reply)] /\ out \in [Links -> Seq(Reply)]
      /\ half \in [Links -> BOOLEAN] /\ fifo \in [Links -> Seq(Piece)]
      /\ ring \in Seq(Reply \cup {Broken, Passed})
      /\ secondary \in [state : {"reset", "init", "waiting", "starting"},
                        link : Links \cup {0}, copied : Seq(Piece)]
      /\ secondary.state = "starting" => secondary.link \in Links
      /\ executed \subseteq Links \X Ids /\ straddled \subseteq Links /\ losses \in 0..MaxLosses
  BY DEF TypeInv, SCTypeOK
<1>2. out[l] # <<>> => Head(out[l]) \in Reply /\ Tail(out[l]) \in Seq(Reply)
  BY <1>1, HeadTailProperties
<1>3. inq[l] # <<>> => Head(inq[l]) \in Reply /\ Tail(inq[l]) \in Seq(Reply)
  BY <1>1, HeadTailProperties
<1>4. ASSUME NEW part \in {"head", "tail"}, Into(l, part), out[l] # <<>>
      PROVE  fifo' \in [Links -> Seq(Piece)]
  <2>1. [part |-> part, reply |-> Head(out[l])] \in Piece
    BY <1>2, <1>4 DEF Piece
  <2>2. Append(fifo[l], [part |-> part, reply |-> Head(out[l])]) \in Seq(Piece)
    BY <1>1, <2>1, AppendProperties
  <2> QED BY <1>1, <1>4, <2>2 DEF Into
<1>5. CASE Execute(l)
  <2>1. /\ inq[l] # <<>> /\ inq' = [inq EXCEPT ![l] = Tail(@)]
        /\ executed' = Written(l, Head(inq[l]))
        /\ out' = [out EXCEPT ![l] = Append(@, Head(inq[l]))]
        /\ UNCHANGED <<sw, deque, main, half, fifo, secondary, ring, losses, straddled>>
    BY <1>5 DEF Execute
  <2>2. Append(out[l], Head(inq[l])) \in Seq(Reply)
    BY <1>1, <1>3, <2>1, AppendProperties
  <2>3. inq' \in [Links -> Seq(Reply)] /\ out' \in [Links -> Seq(Reply)]
    BY <1>1, <1>3, <2>1, <2>2
  <2>4. executed' \subseteq Links \X Ids
    BY <1>1, <1>3, <2>1 DEF Written, Reply
  <2> QED BY <1>1, <2>1, <2>3, <2>4, TypeBoard
<1>6. CASE SendHead(l)
  <2>1. /\ out[l] # <<>> /\ half' = [half EXCEPT ![l] = TRUE] /\ Into(l, "head")
        /\ UNCHANGED <<sw, deque, main, inq, executed, out, secondary, ring, losses, straddled>>
    BY <1>6 DEF SendHead, board
  <2>2. half' \in [Links -> BOOLEAN] BY <1>1, <2>1
  <2> QED BY <1>1, <1>4, <2>1, <2>2, TypeBoard
<1>7. CASE SendTail(l)
  <2>1. /\ out[l] # <<>> /\ half' = [half EXCEPT ![l] = FALSE] /\ Into(l, "tail")
        /\ out' = [out EXCEPT ![l] = Tail(@)]
        /\ UNCHANGED <<sw, deque, main, inq, executed, secondary, ring, losses, straddled>>
    BY <1>7 DEF SendTail
  <2>2. half' \in [Links -> BOOLEAN] /\ out' \in [Links -> Seq(Reply)]
    BY <1>1, <1>2, <2>1
  <2> QED BY <1>1, <1>4, <2>1, <2>2, TypeBoard
<1>8. CASE Lose(l)
  <2>1. /\ losses < MaxLosses /\ losses' = losses + 1
        /\ UNCHANGED <<sw, deque, main, executed, fifo, secondary, ring, straddled>>
    BY <1>8 DEF Lose
  <2>2. losses' \in 0..MaxLosses
    BY <1>1, <2>1, SlowControlAssumption
  <2>3. /\ inq' \in [Links -> Seq(Reply)] /\ out' \in [Links -> Seq(Reply)]
        /\ half' \in [Links -> BOOLEAN]
    <3>1. CASE inq[l] # <<>> /\ inq' = [inq EXCEPT ![l] = Tail(@)] /\ UNCHANGED <<out, half>>
      BY <3>1, <1>1, <1>3
    <3>2. CASE /\ out[l] # <<>> /\ out' = [out EXCEPT ![l] = Tail(@)]
               /\ half' = [half EXCEPT ![l] = FALSE] /\ UNCHANGED inq
      <4>1. half' \in [Links -> BOOLEAN] BY <3>2, <1>1
      <4> QED BY <3>2, <4>1, <1>1, <1>2
    <3> QED BY <1>8, <3>1, <3>2 DEF Lose
  <2> QED BY <1>1, <2>1, <2>2, <2>3, TypeBoard
<1> QED BY <1>5, <1>6, <1>7, <1>8

LEMMA TypeSwitchingBoardSteps ==
  ASSUME TypeInv, MainSends \/ ResetMain \/ Collect PROVE TypeInv'
<1>1. /\ main \in [busy : BOOLEAN, to : SUBSET Links, request : Reply]
      /\ inq \in [Links -> Seq(Reply)] /\ out \in [Links -> Seq(Reply)]
      /\ half \in [Links -> BOOLEAN] /\ fifo \in [Links -> Seq(Piece)]
      /\ ring \in Seq(Reply \cup {Broken, Passed})
      /\ secondary \in [state : {"reset", "init", "waiting", "starting"},
                        link : Links \cup {0}, copied : Seq(Piece)]
      /\ secondary.state = "starting" => secondary.link \in Links
      /\ executed \subseteq Links \X Ids /\ straddled \subseteq Links /\ losses \in 0..MaxLosses
  BY DEF TypeInv, SCTypeOK
<1>2. CASE MainSends
  <2>1. UNCHANGED <<sw, deque, executed, out, half, fifo, secondary, ring, straddled, losses>>
    BY <1>2 DEF MainSends, firmware
  <2>2. main' \in [busy : BOOLEAN, to : SUBSET Links, request : Reply]
    BY <1>1, <1>2 DEF MainSends
  <2>3. \A l \in Links : Append(inq[l], main.request) \in Seq(Reply)
    BY <1>1, AppendProperties
  <2>4. inq' \in [Links -> Seq(Reply)]
    BY <1>1, <1>2, <2>3 DEF MainSends
  <2> QED BY <1>1, <2>1, <2>2, <2>4, TypeBoard
<1>3. CASE ResetMain
  <2>1. /\ UNCHANGED <<sw, deque, inq, executed, out, half, fifo, secondary, ring, straddled, losses>>
        /\ main' = [busy |-> FALSE, to |-> {}, request |-> None]
    BY <1>3 DEF ResetMain, board
  <2>2. None \in Reply
    BY SlowControlAssumption DEF None, Reply, Ids
  <2>3. main' \in [busy : BOOLEAN, to : SUBSET Links, request : Reply]
    BY <2>1, <2>2
  <2> QED BY <1>1, <2>1, <2>3, TypeBoard
<1>4. CASE InitDone
  <2>1. UNCHANGED <<sw, deque, main, inq, executed, out, half, fifo, ring, straddled, losses>>
    BY <1>4 DEF InitDone, board
  <2>2. /\ secondary' \in [state : {"reset", "init", "waiting", "starting"},
                       link : Links \cup {0}, copied : Seq(Piece)]
        /\ secondary'.state = "waiting"
    BY <1>1, <1>4 DEF InitDone
  <2> QED BY <1>1, <2>1, <2>2, TypeBoard
<1>5. CASE StartLink
  <2>1. UNCHANGED <<sw, deque, main, inq, executed, out, half, ring, straddled, losses>>
    BY <1>5 DEF StartLink, board
  <2>2. PICK l \in Links :
          /\ fifo[l] # <<>> /\ fifo' = [fifo EXCEPT ![l] = Tail(@)]
          /\ secondary' = [state |-> "starting", link |-> l, copied |-> <<Head(fifo[l])>>]
    BY <1>5 DEF StartLink, Startable
  <2>3. Head(fifo[l]) \in Piece /\ Tail(fifo[l]) \in Seq(Piece)
    BY <1>1, <2>2, HeadTailProperties
  <2>4. <<Head(fifo[l])>> \in Seq(Piece)
    BY <2>3
  <2>5. /\ fifo' \in [Links -> Seq(Piece)]
        /\ secondary' \in [state : {"reset", "init", "waiting", "starting"},
                          link : Links \cup {0}, copied : Seq(Piece)]
        /\ secondary'.link \in Links
    BY <1>1, <2>2, <2>3, <2>4
  <2> QED BY <1>1, <2>1, <2>5, TypeBoard
<1>6. CASE CopyWord
  <2> DEFINE k == secondary.link
             copied == Append(secondary.copied, Head(fifo[k]))
  <2>1. UNCHANGED <<sw, deque, main, inq, executed, out, half, straddled, losses>>
    BY <1>6 DEF CopyWord, board
  <2>2. /\ fifo[k] # <<>> /\ fifo' = [fifo EXCEPT ![k] = Tail(@)]
        /\ \/ /\ secondary' = [state |-> "waiting", link |-> k, copied |-> <<>>]
              /\ \E seen \in Seen(copied) : ring' = ring \o seen
           \/ secondary' = [secondary EXCEPT !.copied = copied] /\ UNCHANGED ring
    BY <1>6 DEF CopyWord
  <2>3. CASE k \in Links
    <3>1. Head(fifo[k]) \in Piece /\ Tail(fifo[k]) \in Seq(Piece)
      BY <1>1, <2>2, <2>3, HeadTailProperties
    <3>2. copied \in Seq(Piece)
      BY <1>1, <3>1, AppendProperties
    <3>3. ASSUME copied # <<>>, NEW seen \in Seen(copied)
          PROVE  seen \in Seq(Reply \cup {Broken, Passed})
      <4>1. Len(copied) \in Nat \ {0} BY <3>2, <3>3, EmptySeq
      <4>2. Head(copied) \in Piece /\ copied[Len(copied)] \in Piece
        BY <3>2, <3>3, <4>1, HeadTailProperties, ElementOfSeq
      <4> HIDE DEF copied
      <4> DEFINE a == Head(copied).reply
                 b == copied[Len(copied)].reply
                 Packet == Reply \cup {Broken, Passed}
      <4>3. a \in Reply /\ b \in Reply BY <4>2 DEF Piece
      <4>4. [a EXCEPT !.id = 0] \in Reply BY <4>3, SlowControlAssumption DEF Reply, Ids
      <4>5. seen \in {<<a>>, <<Broken>>, <<[a EXCEPT !.id = 0]>>, <<Passed, b>>}
        BY <3>3 DEF Seen
      <4>6. a \in Packet /\ b \in Packet /\ Broken \in Packet /\ Passed \in Packet
            /\ [a EXCEPT !.id = 0] \in Packet
        BY <4>3, <4>4
      <4> HIDE DEF a, b, Packet
      <4>7. seen \in Seq(Packet)
        <5>1. CASE seen = <<a>> BY <4>6, <5>1
        <5>2. CASE seen = <<Broken>> BY <4>6, <5>2
        <5>3. CASE seen = <<[a EXCEPT !.id = 0]>> BY <4>6, <5>3
        <5>4. CASE seen = <<Passed, b>> BY <4>6, <5>4
        <5> QED BY <4>5, <5>1, <5>2, <5>3, <5>4
      <4> QED BY <4>7 DEF Packet
    <3>4. ASSUME copied # <<>>, NEW seen \in Seen(copied)
          PROVE  ring \o seen \in Seq(Reply \cup {Broken, Passed})
      BY <1>1, <3>3, <3>4, ConcatProperties
    <3>8. copied # <<>>
      <4>1. secondary.copied \in Seq(Piece) BY <1>1
      <4> QED BY <3>1, <4>1, AppendProperties
    <3> HIDE DEF copied
    <3>5. fifo' \in [Links -> Seq(Piece)] /\ ring' \in Seq(Reply \cup {Broken, Passed})
      BY <1>1, <2>2, <3>1, <3>4, <3>8
    <3>6. /\ secondary' \in [state : {"reset", "init", "waiting", "starting"},
                            link : Links \cup {0}, copied : Seq(Piece)]
          /\ secondary'.link \in Links
      <4>1. CASE secondary' = [state |-> "waiting", link |-> k, copied |-> <<>>]
        BY <4>1, <2>3
      <4>2. CASE secondary' = [secondary EXCEPT !.copied = copied]
        BY <4>2, <1>1, <2>3, <3>2
      <4> QED BY <2>2, <4>1, <4>2
    <3> QED BY <1>1, <2>1, <3>5, <3>6, TypeBoard
  <2> QED BY <2>3, <1>1, <1>6 DEF CopyWord
<1> QED BY <1>2, <1>3, <1>4, <1>5, <1>6 DEF Collect

LEMMA TypeNext == TypeInv /\ [SCNext]_vars => TypeInv'
<1> SUFFICES ASSUME TypeInv, [SCNext]_vars PROVE TypeInv'
  OBVIOUS
<1>1. CASE UNCHANGED vars
  BY <1>1 DEF vars, TypeInv, SCTypeOK
<1>2. CASE \E l \in Links, n \in Lengths : Begin("read", l, n)
  BY <1>2, TypeBegin DEF Op
<1>3. CASE \E l \in Links : Begin("write", l, 0) \/ Begin("broadcast", l, 0)
  BY <1>3, TypeBegin DEF Op
<1>4. CASE Program \/ ResetSecondary
  BY <1>4, TypeProgramSteps
<1>5. CASE MainSends \/ ResetMain \/ Collect
  BY <1>5, TypeSwitchingBoardSteps
<1>6. CASE \E l \in Links : Execute(l) \/ SendHead(l) \/ SendTail(l) \/ Lose(l)
  BY <1>6, TypeBoardSteps
<1> QED BY <1>1, <1>2, <1>3, <1>4, <1>5, <1>6 DEF SCNext

(* Every variable keeps its type: above all the packets that the program   *)
(* parses are whole replies, whatever is in the memory, and no loop counts *)
(* past its end.                                                           *)
THEOREM TypeCorrect == SCSpec => []SCTypeOK
<1>1. TypeInv => SCTypeOK
  BY DEF TypeInv
<1> QED BY <1>1, TypeInit, TypeNext, PTL DEF SCSpec
-----------------------------------------------------------------------------
(***************************************************************************)
(* The link FIFOs.  A tail follows its head, in the FIFO or as the next    *)
(* piece to be copied, on every link that no reset cut a reply of.         *)
(***************************************************************************)
StartedOn(l) == secondary.state = "starting" /\ secondary.link = l
TailsFollowHeads(l) ==
  \A i \in 1..Len(fifo[l]) : fifo[l][i].part = "tail" =>
    \/ i = 1 /\ StartedOn(l)
    \/ i > 1 /\ fifo[l][i - 1].part = "head"
\* A board that has sent a head sends the tail next.
TailIsNext(l) ==
  half[l] => \/ secondary.state = "reset"
             \/ fifo[l] # <<>> /\ fifo[l][Len(fifo[l])].part = "head"
             \/ fifo[l] = <<>> /\ StartedOn(l)
FrameInv ==
  /\ sw.pc = "reset" => secondary.state = "reset"
  /\ secondary.state = "reset" => \A l \in Links : fifo[l] = <<>>
  /\ \A l \in Links \ straddled : TailsFollowHeads(l) /\ TailIsNext(l)

LEMMA FrameInit == SCInit => FrameInv
BY DEF SCInit, FrameInv, TailsFollowHeads, TailIsNext

\* A step that touches neither the FIFOs nor what the boards are sending.
LEMMA FrameKeep ==
  ASSUME FrameInv, UNCHANGED <<half, fifo, straddled>>,
         sw'.pc = "reset" => sw.pc = "reset",
         \/ UNCHANGED secondary
         \/ secondary.state = "init" /\ secondary'.state = "waiting"
  PROVE  FrameInv'
BY DEF FrameInv, TailsFollowHeads, TailIsNext, StartedOn

\* The reset empties the FIFOs; who is in a reply then keeps sending it.
LEMMA FrameReset ==
  ASSUME TypeInv, FrameInv, UNCHANGED <<half, straddled>>, secondary'.state = "reset",
         fifo' = [l \in Links |-> <<>>]
  PROVE  FrameInv'
<1>1. \A l \in Links : fifo'[l] = <<>> /\ Len(fifo'[l]) = 0
  OBVIOUS
<1> QED BY <1>1 DEF FrameInv, TailsFollowHeads, TailIsNext

LEMMA FrameReleaseReset ==
  ASSUME TypeInv, FrameInv, ReleaseReset PROVE FrameInv'
<1>1. /\ secondary.state = "reset" /\ secondary'.state = "init" /\ sw'.pc = "wait"
      /\ straddled' = straddled \cup {l \in Links : half[l]} /\ UNCHANGED <<half, fifo>>
  BY DEF ReleaseReset, FrameInv, TypeInv, SCTypeOK
<1>2. \A l \in Links : fifo'[l] = <<>> /\ Len(fifo'[l]) = 0
  BY <1>1 DEF FrameInv
<1> QED BY <1>1, <1>2 DEF FrameInv, TailsFollowHeads, TailIsNext

\* A piece more.
LEMMA FrameAppend ==
  ASSUME TypeInv, FrameInv, NEW l \in Links, NEW part \in {"head", "tail"},
         Into(l, part), out[l] # <<>>, half[l] <=> part = "tail",
         half' = [half EXCEPT ![l] = part = "head"], UNCHANGED <<sw, secondary, straddled>>
  PROVE  FrameInv'
<1>1. CASE secondary.state = "reset"
  <2>1. \A k \in Links : fifo'[k] = <<>> /\ Len(fifo'[k]) = 0
    BY <1>1 DEF Into, FrameInv
  <2> QED BY <1>1, <2>1 DEF FrameInv, TailsFollowHeads, TailIsNext
<1>2. CASE secondary.state # "reset"
  <2> DEFINE piece == [part |-> part, reply |-> Head(out[l])]
             n == Len(fifo[l])
  <2>1. /\ fifo[l] \in Seq(Piece) /\ piece \in Piece /\ n \in Nat
        /\ fifo \in [Links -> Seq(Piece)] /\ half \in [Links -> BOOLEAN]
    <3>1. /\ fifo \in [Links -> Seq(Piece)] /\ half \in [Links -> BOOLEAN]
          /\ out \in [Links -> Seq(Reply)]
      BY DEF TypeInv, SCTypeOK
    <3>2. Head(out[l]) \in Reply
      BY <3>1, HeadTailProperties
    <3>3. piece \in Piece
      BY <3>2 DEF Piece
    <3> QED BY <3>1, <3>3, LenProperties
  <2>2. fifo' = [fifo EXCEPT ![l] = Append(fifo[l], piece)]
    BY <1>2 DEF Into
  <2>3. /\ fifo'[l] # <<>> /\ Len(fifo'[l]) = n + 1 /\ fifo'[l][n + 1] = piece
        /\ \A i \in 1..n : fifo'[l][i] = fifo[l][i]
    BY <2>1, <2>2, AppendProperties
  <2>4. \A k \in Links : k # l => fifo'[k] = fifo[k] /\ half'[k] = half[k]
    BY <2>1, <2>2
  <2>5. half'[l] <=> part = "head"
    BY <2>1
  <2>6. piece.part = part
    OBVIOUS
  <2> HIDE DEF piece
  <2>7. ASSUME NEW k \in Links \ straddled, k # l
        PROVE  (TailsFollowHeads(k) /\ TailIsNext(k))'
    BY <2>4, <2>7 DEF FrameInv, TailsFollowHeads, TailIsNext, StartedOn
  <2>8. ASSUME l \notin straddled PROVE TailIsNext(l)'
    BY <2>3, <2>5, <2>6 DEF TailIsNext
  <2>9. ASSUME l \notin straddled PROVE TailsFollowHeads(l)'
    <3> SUFFICES ASSUME NEW i \in 1..(n + 1), fifo'[l][i].part = "tail"
                 PROVE  \/ i = 1 /\ StartedOn(l)
                        \/ i > 1 /\ fifo'[l][i - 1].part = "head"
      BY <2>3 DEF TailsFollowHeads, StartedOn
    <3>1. TailsFollowHeads(l) /\ TailIsNext(l)
      BY <2>9 DEF FrameInv
    <3>2. CASE i <= n
      <4>1. i \in 1..n /\ fifo[l][i].part = "tail" BY <2>1, <2>3, <3>2
      <4>2. CASE i = 1 BY <4>1, <4>2, <3>1 DEF TailsFollowHeads
      <4>3. CASE i > 1
        <5>1. i - 1 \in 1..n /\ fifo[l][i - 1].part = "head"
          BY <2>1, <4>1, <4>3, <3>1 DEF TailsFollowHeads
        <5> QED BY <5>1, <4>3, <2>3
      <4> QED BY <4>1, <4>2, <4>3
    <3>3. CASE i = n + 1
      <4>1. part = "tail" BY <2>3, <2>6, <3>3
      <4>2. \/ fifo[l] # <<>> /\ fifo[l][n].part = "head"
            \/ fifo[l] = <<>> /\ StartedOn(l)
        BY <4>1, <3>1, <1>2 DEF TailIsNext
      <4>3. CASE fifo[l] = <<>>
        BY <4>2, <4>3, <3>3
      <4>4. CASE fifo[l] # <<>> /\ fifo[l][n].part = "head"
        <5>1. n > 0 BY <4>4, <2>1, EmptySeq
        <5> QED BY <5>1, <4>4, <2>1, <2>3, <3>3
      <4> QED BY <4>2, <4>3, <4>4
    <3> QED BY <2>1, <3>2, <3>3
  <2> QED BY <1>2, <2>7, <2>8, <2>9 DEF FrameInv
<1> QED BY <1>1, <1>2

\* A piece less, taken by the secondary on the link it has started.
LEMMA FrameTake ==
  ASSUME TypeInv, FrameInv, NEW k \in Links, fifo[k] # <<>>,
         fifo' = [fifo EXCEPT ![k] = Tail(@)], UNCHANGED <<half, straddled, sw>>,
         secondary.state \in {"waiting", "starting"}, secondary'.state # "reset",
         \A l \in Links : StartedOn(l) => l = k,
         Head(fifo[k]).part = "head" => StartedOn(k)'
  PROVE  FrameInv'
<1> DEFINE n == Len(fifo[k])
<1>1. fifo \in [Links -> Seq(Piece)] /\ fifo[k] \in Seq(Piece)
  BY DEF TypeInv, SCTypeOK
<1>2. /\ n \in Nat \ {0} /\ fifo'[k] = Tail(fifo[k]) /\ Len(fifo'[k]) = n - 1
      /\ \A i \in 1..(n - 1) : fifo'[k][i] = fifo[k][i + 1]
      /\ Head(fifo[k]) = fifo[k][1]
  BY <1>1, HeadTailProperties, LenProperties
<1>3. \A i \in 1..n : fifo[k][i].part \in {"head", "tail"}
  <2>1. \A i \in 1..n : fifo[k][i] \in Piece
    BY <1>1, ElementOfSeq
  <2> QED BY <2>1 DEF Piece
<1>4. \A l \in Links : l # k => fifo'[l] = fifo[l] /\ half'[l] = half[l]
  BY <1>1
<1>5. ASSUME NEW l \in Links \ straddled, l # k
      PROVE  (TailsFollowHeads(l) /\ TailIsNext(l))'
  <2>1. TailsFollowHeads(l) /\ TailIsNext(l) /\ ~StartedOn(l)
    BY <1>5 DEF FrameInv
  <2> QED BY <2>1, <1>4, <1>5 DEF TailsFollowHeads, TailIsNext
<1>6. ASSUME k \notin straddled PROVE TailsFollowHeads(k)'
  <2> SUFFICES ASSUME NEW i \in 1..(n - 1), fifo'[k][i].part = "tail"
               PROVE  \/ i = 1 /\ StartedOn(k)'
                      \/ i > 1 /\ fifo'[k][i - 1].part = "head"
    BY <1>2 DEF TailsFollowHeads
  <2>1. i + 1 \in 1..n /\ fifo[k][i + 1].part = "tail"
    BY <1>2
  <2>2. fifo[k][i].part = "head"
    BY <2>1, <1>6, <1>2 DEF FrameInv, TailsFollowHeads
  <2>3. CASE i = 1
    BY <2>2, <2>3, <1>2
  <2>4. CASE i > 1
    <3>1. i - 1 \in 1..(n - 1)
      BY <2>4, <1>2
    <3> QED BY <3>1, <2>2, <2>4, <1>2
  <2> QED BY <2>3, <2>4
<1>7. ASSUME k \notin straddled, half[k] PROVE TailIsNext(k)'
  <2>1. fifo[k][n].part = "head"
    BY <1>7 DEF FrameInv, TailIsNext
  <2>2. CASE n = 1
    <3>1. StartedOn(k)' /\ fifo'[k] = <<>>
      BY <2>1, <2>2, <1>1, <1>2, EmptySeq
    <3> QED BY <3>1 DEF TailIsNext, StartedOn
  <2>3. CASE n # 1
    <3> DEFINE m == n - 1
    <3>1. n \in Nat /\ m \in 1..(n - 1) /\ m + 1 = n
      <4>1. n \in Nat \ {0} BY <1>2
      <4> HIDE DEF n
      <4> QED BY <4>1, <2>3
    <3>2. fifo'[k][m] = fifo[k][m + 1] /\ Len(fifo'[k]) = m
      BY <3>1, <1>2
    <3>3. fifo'[k][m].part = "head"
      BY <3>1, <3>2, <2>1
    <3>4. fifo'[k] # <<>>
      <4>1. m > 0 /\ Len(fifo'[k]) > 0
        BY <3>1, <3>2
      <4> QED BY <4>1, EmptySeq
    <3> HIDE DEF m
    <3> QED BY <3>2, <3>3, <3>4 DEF TailIsNext
  <2> QED BY <2>2, <2>3
<1>8. TailIsNext(k)' \/ half[k]
  BY DEF TailIsNext
<1> QED BY <1>5, <1>6, <1>7, <1>8 DEF FrameInv

\* The rest of a reply is lost: nobody is in it any more.
LEMMA FrameLose ==
  ASSUME TypeInv, FrameInv, NEW l \in Links,
         half' = [half EXCEPT ![l] = FALSE], UNCHANGED <<sw, fifo, secondary, straddled>>
  PROVE  FrameInv'
<1>1. half \in [Links -> BOOLEAN]
  BY DEF TypeInv, SCTypeOK
<1>2. \A k \in Links : half'[k] => half[k]
  BY <1>1
<1> QED BY <1>2 DEF FrameInv, TailsFollowHeads, TailIsNext, StartedOn

LEMMA FrameCollect == TypeInv /\ FrameInv /\ Collect => FrameInv'
<1> SUFFICES ASSUME TypeInv, FrameInv, Collect PROVE FrameInv'
  OBVIOUS
<1>1. CASE InitDone
  <2>1. /\ secondary.state = "init" /\ secondary'.state = "waiting"
        /\ UNCHANGED <<half, fifo, straddled, sw>>
    BY <1>1 DEF InitDone, TypeInv, SCTypeOK
  <2> QED BY <2>1, FrameKeep
<1>2. CASE StartLink
  <2>1. PICK l \in Links :
          /\ fifo[l] # <<>> /\ fifo' = [fifo EXCEPT ![l] = Tail(@)]
          /\ secondary' = [state |-> "starting", link |-> l, copied |-> <<Head(fifo[l])>>]
    BY <1>2 DEF StartLink, Startable
  <2>2. secondary.state = "waiting" /\ UNCHANGED <<half, straddled, sw>>
    BY <1>2 DEF StartLink
  <2>3. /\ \A k \in Links : ~StartedOn(k)
        /\ secondary'.state = "starting" /\ StartedOn(l)'
    BY <2>1, <2>2 DEF StartedOn
  <2> QED BY <2>1, <2>2, <2>3, FrameTake
<1>3. CASE CopyWord
  <2>1. secondary.state = "starting" /\ UNCHANGED <<half, straddled, sw>>
    BY <1>3 DEF CopyWord
  <2>2. PICK k \in Links : k = secondary.link
    BY <2>1 DEF TypeInv
  <2>3. fifo[k] # <<>> /\ fifo' = [fifo EXCEPT ![k] = Tail(@)]
    BY <1>3, <2>2 DEF CopyWord
  <2>4. \/ Head(fifo[k]).part = "tail" /\ secondary'.state = "waiting"
        \/ /\ Head(fifo[k]).part # "tail"
           /\ secondary'.state = "starting" /\ secondary'.link = k
    <3>1. secondary = [state |-> secondary.state, link |-> secondary.link,
                       copied |-> secondary.copied]
      BY DEF TypeInv
    <3> QED BY <1>3, <2>1, <2>2, <3>1 DEF CopyWord
  <2>5. secondary'.state # "reset" /\ (Head(fifo[k]).part = "head" => StartedOn(k)')
    BY <2>4 DEF StartedOn
  <2>6. \A l \in Links : StartedOn(l) => l = k
    BY <2>2 DEF StartedOn
  <2>7. secondary.state \in {"waiting", "starting"}
    BY <2>1
  <2> QED BY <2>1, <2>3, <2>5, <2>6, <2>7, FrameTake
<1> QED BY <1>1, <1>2, <1>3 DEF Collect

LEMMA FrameProgram ==
  TypeInv /\ FrameInv /\ (Program \/ ResetSecondary) => FrameInv'
<1> SUFFICES ASSUME TypeInv, FrameInv, Program \/ ResetSecondary PROVE FrameInv'
  OBVIOUS
<1>1. \A pc \in {"idle", "done?", "first", "second", "wait"} :
        [sw EXCEPT !.pc = pc].pc # "reset"
  BY DEF TypeInv, SCTypeOK
<1>2. ASSUME UNCHANGED <<half, fifo, secondary, straddled>>, sw'.pc # "reset"
      PROVE  FrameInv'
  BY <1>2, FrameKeep
<1>3. ASSUME NEW code, AssertReset(code), UNCHANGED <<half, straddled>>
      PROVE  FrameInv'
  <2>1. secondary'.state = "reset" /\ fifo' = [l \in Links |-> <<>>]
    BY <1>3 DEF AssertReset, ClearFifos
  <2> QED BY <1>3, <2>1, FrameReset
<1>4. CASE WaitDone
  <2>1. sw'.pc # "reset" /\ UNCHANGED <<half, fifo, secondary, straddled>>
    BY <1>4 DEF WaitDone, Poll, Return, firmware, TypeInv, SCTypeOK
  <2> QED BY <2>1, <1>2
<1>5. CASE FirstLook
  <2>1. sw'.pc # "reset" /\ UNCHANGED <<half, fifo, secondary, straddled>>
    BY <1>5 DEF FirstLook, TypeInv, SCTypeOK
  <2> QED BY <2>1, <1>2
<1>6. CASE SecondLook
  <2>1. sw'.pc # "reset" /\ UNCHANGED <<half, fifo, secondary, straddled>>
    BY <1>6 DEF SecondLook, Poll, Return, TypeInv, SCTypeOK
  <2> QED BY <2>1, <1>2
<1>7. CASE WaitInit
  <2>1. sw'.pc # "reset" /\ UNCHANGED <<half, fifo, secondary, straddled>>
    BY <1>7 DEF WaitInit, firmware, TypeInv, SCTypeOK
  <2> QED BY <2>1, <1>2
<1>8. CASE LookForReply
  <2>1. UNCHANGED <<half, straddled>>
    BY <1>8 DEF LookForReply
  <2>2. \/ AssertReset("WRONG_SIZE") \/ AssertReset("BAD_PACKET")
        \/ sw'.pc # "reset" /\ UNCHANGED <<fifo, secondary>>
    BY <1>8 DEF LookForReply, Poll, Return, TypeInv, SCTypeOK
  <2> QED BY <2>1, <2>2, <1>2, <1>3
<1>9. CASE ResetSecondary
  BY <1>9, <1>3 DEF ResetSecondary
<1> QED BY <1>4, <1>5, <1>6, <1>7, <1>8, <1>9, FrameReleaseReset DEF Program

LEMMA FrameNext == TypeInv /\ FrameInv /\ [SCNext]_vars => FrameInv'
<1> SUFFICES ASSUME TypeInv, FrameInv, [SCNext]_vars PROVE FrameInv'
  OBVIOUS
<1>1. CASE UNCHANGED vars
  <2>1. UNCHANGED <<half, fifo, secondary, straddled, sw>>
    BY <1>1 DEF vars
  <2> QED BY <2>1, FrameKeep
<1>2. ASSUME NEW op \in Op, NEW l \in Links, NEW n, Begin(op, l, n) PROVE FrameInv'
  <2> DEFINE next(id, clean) ==
               [pc |-> IF op = "read" THEN "read" ELSE "done?", op |-> op, id |-> id,
                link |-> l, len |-> n, polls |-> 0, got |-> None, clean |-> clean,
                result |-> "none"]
  <2>1. \A id, clean : /\ next(id, clean).pc # "reset"
                       /\ [next(id, clean) EXCEPT !.pc = "idle",
                              !.result = "FPGA_BUSY"].pc # "reset"
    OBVIOUS
  <2>2. \E id, clean : \/ sw' = next(id, clean)
                       \/ sw' = [next(id, clean) EXCEPT !.pc = "idle",
                                   !.result = "FPGA_BUSY"]
    <3>1. \/ sw' = next(sw.id + 1, sw.clean /\ sw.result \in {"none", "OK"})
          \/ sw' = [next(sw.id + 1, sw.clean /\ sw.result \in {"none", "OK"})
                      EXCEPT !.pc = "idle", !.result = "FPGA_BUSY"]
      BY <1>2 DEF Begin
    <3> HIDE DEF next
    <3> QED BY <3>1
  <2>3. sw'.pc # "reset" /\ UNCHANGED <<half, fifo, secondary, straddled>>
    <3>1. sw'.pc # "reset"
      <4> HIDE DEF next
      <4> QED BY <2>1, <2>2
    <3> QED BY <3>1, <1>2 DEF Begin
  <2> QED BY <2>3, FrameKeep
<1>3. CASE Program \/ ResetSecondary
  BY <1>3, FrameProgram
<1>4. CASE MainSends \/ ResetMain \/ \E l \in Links : Execute(l)
  <2>1. UNCHANGED <<half, fifo, secondary, straddled, sw>>
    BY <1>4 DEF MainSends, ResetMain, Execute, firmware
  <2> QED BY <2>1, FrameKeep
<1>5. CASE Collect
  BY <1>5, FrameCollect
<1>6. ASSUME NEW l \in Links, SendHead(l) PROVE FrameInv'
  <2>1. /\ Into(l, "head") /\ out[l] # <<>> /\ ~half[l]
        /\ half' = [half EXCEPT ![l] = "head" = "head"]
        /\ UNCHANGED <<sw, secondary, straddled>>
    BY <1>6 DEF SendHead
  <2> QED BY <2>1, FrameAppend
<1>7. ASSUME NEW l \in Links, SendTail(l) PROVE FrameInv'
  <2>1. /\ Into(l, "tail") /\ out[l] # <<>> /\ half[l]
        /\ half' = [half EXCEPT ![l] = "tail" = "head"]
        /\ UNCHANGED <<sw, secondary, straddled>>
    BY <1>7 DEF SendTail
  <2> QED BY <2>1, FrameAppend
<1>8. ASSUME NEW l \in Links, Lose(l) PROVE FrameInv'
  <2>1. UNCHANGED <<sw, fifo, secondary, straddled>>
    BY <1>8 DEF Lose
  <2>2. CASE half' = [half EXCEPT ![l] = FALSE]
    BY <2>1, <2>2, FrameLose
  <2>3. CASE UNCHANGED half
    BY <2>1, <2>3, FrameKeep
  <2> QED BY <1>8, <2>2, <2>3 DEF Lose
<1>9. (\E l \in Links, n \in Lengths : Begin("read", l, n)) => FrameInv'
  BY <1>2 DEF Op
<1>10. (\E l \in Links : Begin("write", l, 0) \/ Begin("broadcast", l, 0)) => FrameInv'
  BY <1>2 DEF Op
<1> QED BY <1>1, <1>9, <1>10, <1>3, <1>4, <1>5, <1>6, <1>7, <1>8 DEF SCNext

(* The secondary stands before a FIFO that does not begin with a preamble  *)
(* only if the end of a reset of its own fell into a reply of that link:   *)
(* losses on the optical links and replies that come late do not do it.    *)
THEOREM BlockedByReset == SCSpec => []BlockedOnlyByReset
<1>1. TypeInv /\ FrameInv => BlockedOnlyByReset
  <2> SUFFICES ASSUME TypeInv, FrameInv, NEW l \in Links \ straddled, LinkBlocked(l)
               PROVE  FALSE
    BY DEF BlockedOnlyByReset
  <2>1. fifo[l] \in Seq(Piece) /\ fifo[l] # <<>>
    BY DEF LinkBlocked, TypeInv, SCTypeOK
  <2>2. 1 \in 1..Len(fifo[l]) /\ fifo[l][1].part = "tail"
    <3>1. Head(fifo[l]) = fifo[l][1] /\ Len(fifo[l]) \in Nat /\ Len(fifo[l]) # 0
      BY <2>1, HeadTailProperties, EmptySeq, LenProperties
    <3> QED BY <3>1 DEF LinkBlocked
  <2>3. StartedOn(l)
    BY <2>2 DEF FrameInv, TailsFollowHeads
  <2> QED BY <2>3 DEF LinkBlocked, StartedOn
<1> QED BY <1>1, TypeInit, TypeNext, FrameInit, FrameNext, PTL DEF SCSpec
-----------------------------------------------------------------------------
(***************************************************************************)
(* What a read that returned OK was given.                                 *)
(***************************************************************************)
FitsInv ==
  /\ sw.pc \in {"done?", "first", "second"} => sw.op # "read"
  /\ sw.result = "OK" /\ sw.op = "read" => sw.got.op = "read" /\ sw.got.len = sw.len

LEMMA FitsBegin ==
  ASSUME FitsInv, NEW op \in Op, NEW l \in Links, NEW n, Begin(op, l, n)
  PROVE  FitsInv'
<1> DEFINE next(id, clean) ==
             [pc |-> IF op = "read" THEN "read" ELSE "done?", op |-> op, id |-> id,
              link |-> l, len |-> n, polls |-> 0, got |-> None, clean |-> clean,
              result |-> "none"]
           busy(id, clean) == [next(id, clean) EXCEPT !.pc = "idle", !.result = "FPGA_BUSY"]
<1>1. \A id, clean :
        /\ next(id, clean).pc = "done?" => next(id, clean).op # "read"
        /\ next(id, clean).pc \in {"read", "done?"} /\ next(id, clean).result # "OK"
        /\ busy(id, clean).pc = "idle" /\ busy(id, clean).result # "OK"
  OBVIOUS
<1>2. \E id, clean : sw' = next(id, clean) \/ sw' = busy(id, clean)
  <2>1. \/ sw' = next(sw.id + 1, sw.clean /\ sw.result \in {"none", "OK"})
        \/ sw' = busy(sw.id + 1, sw.clean /\ sw.result \in {"none", "OK"})
    BY DEF Begin
  <2> HIDE DEF next, busy
  <2> QED BY <2>1
<1> HIDE DEF next, busy
<1> QED BY <1>1, <1>2 DEF FitsInv

LEMMA FitsNext == TypeInv /\ FitsInv /\ [SCNext]_vars => FitsInv'
<1> SUFFICES ASSUME TypeInv, FitsInv, [SCNext]_vars PROVE FitsInv'
  OBVIOUS
<1>1. sw \in Transaction
  BY DEF TypeInv, SCTypeOK, Transaction
<1>2. CASE UNCHANGED sw
  BY <1>2 DEF FitsInv
<1>3. ASSUME NEW op \in Op, NEW l \in Links, NEW n, Begin(op, l, n) PROVE FitsInv'
  BY <1>3, FitsBegin
<1>4. (\E l \in Links, n \in Lengths : Begin("read", l, n)) => FitsInv'
  BY <1>3 DEF Op
<1>5. (\E l \in Links : Begin("write", l, 0) \/ Begin("broadcast", l, 0)) => FitsInv'
  BY <1>3 DEF Op
<1>6. CASE WaitDone
  BY <1>1, <1>6 DEF WaitDone, Poll, Return, FitsInv, Transaction
<1>7. CASE FirstLook
  BY <1>1, <1>7 DEF FirstLook, FitsInv, Transaction
<1>8. CASE SecondLook
  BY <1>1, <1>8 DEF SecondLook, Poll, Return, FitsInv, Transaction
<1>9. CASE LookForReply
  BY <1>1, <1>9 DEF LookForReply, Poll, Return, AssertReset, RightSize, FitsInv, Transaction
<1>10. CASE ReleaseReset \/ WaitInit
  BY <1>1, <1>10 DEF ReleaseReset, WaitInit, FitsInv, Transaction
<1>11. CASE ResetSecondary
  BY <1>1, <1>11 DEF ResetSecondary, AssertReset, FitsInv, Transaction
<1> QED BY <1>2, <1>4, <1>5, <1>6, <1>7, <1>8, <1>9, <1>10, <1>11
        DEF SCNext, vars, Program, Collect, MainSends, ResetMain, Execute, SendHead,
            SendTail, Lose, InitDone, StartLink, CopyWord

(* A read that returns OK was given a read reply of the length it asked    *)
(* for, also after timeouts, losses and resets: the caller never reads     *)
(* behind the end of the packet.                                           *)
THEOREM ReadsFit == SCSpec => []ReadFits
<1>1. SCInit => FitsInv
  BY DEF SCInit, FitsInv
<1>2. FitsInv => ReadFits
  BY DEF FitsInv, ReadFits, Ended
<1> QED BY <1>1, <1>2, TypeInit, TypeNext, FitsNext, PTL DEF SCSpec

(* A read that returns OK after transactions that all did returns its own  *)
(* reply, although FEB_read does not look whose reply it is.               *)
THEOREM OwnReply == SCSpec => []ReadOwnReply
<1>1. CleanInv /\ ReadFits => ReadOwnReply
  BY DEF CleanInv, Clean, ReadOwnReply, ReturnedOwn, Ended
<1> QED BY <1>1, CleanCorrect, ReadsFit, PTL
=============================================================================
