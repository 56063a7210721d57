--------------------------- MODULE ReadoutProofs ---------------------------
(***************************************************************************)
(* Proofs about Readout: a run that is stopped leaves the DMA off, and a   *)
(* buffer that was seen done is copied whole, for every request and page.  *)
(***************************************************************************)
EXTENDS Readout, TLAPS

USE ReadoutAssumption

-----------------------------------------------------------------------------
(* Where the thread can be while a transition is at some point.            *)
ThreadInv ==
  /\ enabled => midas = "running"
  /\ midas \in {"stopped", "starting", "ending"} => pc \notin {"space", "ask", "enable"}
  /\ midas \in {"stopped", "starting"} => ~enable
  /\ enable => pc \in {"poll", "disable"}
  /\ done => enable
  /\ dma = "disabled" => ~enable /\ written = 0 /\ sent = 0

(* What the DMA is given fits into the memory: half of it is for a buffer  *)
(* that begins where the last one ended.                                   *)
SizeInv ==
  /\ sent <= written
  /\ done => builder = "waiting"
  /\ enable /\ ~done /\ builder = "waiting" => given <= Request
  /\ ~restarted => written <= Buffer
  /\ restarted /\ enable /\ ~done => written <= Buffer + given

(* The buffer has its last event, and the padding behind it.               *)
Ended == builder = "waiting" /\ written = given + Page /\ eoe = given

(* What the event builder has given to a DMA that had stopped before it    *)
(* was enabled.                                                            *)
BuilderInv ==
  ~restarted =>
    /\ done => Ended
    /\ enable /\ ~done =>
         /\ written = given
         /\ builder = "write_4kb_padding" => eoe = given
    /\ dma = "waiting" => written = given \/ Ended

(* Which of it the DMA has sent, while the thread has not copied it; a     *)
(* page that goes past the last event brings its end.                      *)
Reads == pc \in {"poll", "disable", "length", "copy"}
PagesInv ==
  ~restarted /\ dma = "waiting" =>
    /\ \A i \in 1..given : i > sent => i \in ram
    /\ Reads => \A i \in 1..given : i <= sent => i \in dma_buf
    /\ sent > given => eoe = given /\ ctrl = given

(* A buffer seen done stays as it is until it is copied.                   *)
DoneInv ==
  ~restarted /\ pc \in {"disable", "length", "copy"} /\ seen = "done" =>
    /\ enable => done
    /\ builder = "waiting"
    /\ dma = "waiting" => Ended
    /\ dma = "disabled" => ctrl = given /\ 1..given \subseteq dma_buf

CopyInv ==
  ~restarted /\ pc = "copy" /\ seen = "done" /\ ~late =>
    length = given /\ ctrl = given /\ ~PageReady

RInv == ROTypeOK /\ ThreadInv /\ SizeInv /\ BuilderInv /\ PagesInv /\ DoneInv /\ CopyInv

LEMMA InitRInv == ROInit => RInv
<1> SUFFICES ASSUME ROInit PROVE RInv
  OBVIOUS
<1> USE DEF ROInit
<1>1. ROTypeOK
  <2>1. 0 \in 0..Size /\ 0 \in 0..(Request + 1)
    BY DEF Size, Buffer
  <2> QED BY <2>1, Zenon DEF ROTypeOK
<1>2. ThreadInv
  BY DEF ThreadInv
<1>3. SizeInv /\ BuilderInv /\ PagesInv /\ DoneInv /\ CopyInv
  BY DEF SizeInv, BuilderInv, PagesInv, DoneInv, CopyInv, Buffer
<1> QED BY <1>1, <1>2, <1>3 DEF RInv

-----------------------------------------------------------------------------
(* Types.                                                                  *)
LEMMA TypeStep == RInv /\ [RONext]_vars => ROTypeOK'
<1> SUFFICES ASSUME RInv, [RONext]_vars PROVE ROTypeOK'
  OBVIOUS
<1> USE DEF RInv, ROTypeOK, Size, Buffer, main_vars, thread_vars, builder_vars, engine_vars,
        memory_vars, board_vars
<1>0. CASE UNCHANGED vars
  BY <1>0 DEF vars
<1>1. CASE SendEvent
  BY <1>1 DEF SendEvent, LastBlock, ThreadInv, SizeInv
<1>2. CASE EndOfEvent
  BY <1>2 DEF EndOfEvent, KeepEndOfEvent
<1>3. CASE Pad
  BY <1>3 DEF Pad, ThreadInv, SizeInv
<1>4. CASE SendPage
  BY <1>4 DEF SendPage, PageReady
<1>5. CASE DmaStops
  BY <1>5 DEF DmaStops
<1>6. CASE CheckEnabled
  BY <1>6 DEF CheckEnabled
<1>7. CASE GetSpace
  BY <1>7 DEF GetSpace
<1>8. CASE NoSpace
  BY <1>8 DEF NoSpace
<1>9. CASE Ask
  BY <1>9 DEF Ask
<1>10. CASE EnableContinuousReadout
  BY <1>10 DEF EnableContinuousReadout, Settled
<1>11. CASE SeesDone
  BY <1>11 DEF SeesDone
<1>12. CASE TimesOut
  BY <1>12 DEF TimesOut
<1>13. CASE DisableDma
  BY <1>13 DEF DisableDma
<1>14. CASE LastEndOfEvent
  BY <1>14 DEF LastEndOfEvent, PageReady
<1>15. CASE Copy
  <2>1. dma_buf' \subseteq 1..Size /\ length' \in 0..Size /\ restarted' = restarted
    BY <1>15 DEF Copy
  <2>2. UNCHANGED <<main_vars, get_n, enable, reset, builder_vars, given, engine_vars, ctrl>>
    BY <1>15 DEF Copy
  <2>3. pc' = "idle" /\ seen' = "done" /\ late' = FALSE
    BY <1>15 DEF Copy
  <2> QED BY <2>1, <2>2, <2>3
<1>16. CASE BeginOfRun
  BY <1>16 DEF BeginOfRun
<1>17. CASE ReleaseReset
  BY <1>17 DEF ReleaseReset
<1>18. CASE PauseRun
  BY <1>18 DEF PauseRun
<1>19. CASE ResumeRun
  BY <1>19 DEF ResumeRun
<1>20. CASE StopRun
  <2>1. midas' = "stopping" /\ enabled' = FALSE
    BY <1>20 DEF StopRun
  <2>2. UNCHANGED <<pc, seen, length, late, restarted, get_n, enable, reset, builder, done,
                    given, dma, ram, written, sent, eoe, dma_buf, ctrl>>
    BY <1>20 DEF StopRun
  <2>3. midas' \in {"stopped", "starting", "running", "paused", "stopping", "ending"}
    BY <2>1
  <2>4. /\ enabled' \in BOOLEAN /\ enable' \in BOOLEAN /\ reset' \in BOOLEAN
        /\ done' \in BOOLEAN /\ late' \in BOOLEAN /\ restarted' \in BOOLEAN
    BY <2>1, <2>2, Zenon
  <2> HIDE DEF Size, Buffer
  <2> QED BY <2>2, <2>3, <2>4
<1>21. CASE WaitsForDma
  BY <1>21 DEF WaitsForDma
<1>22. CASE EndOfRun
  BY <1>22 DEF EndOfRun
<1> QED
  BY <1>0, <1>1, <1>2, <1>3, <1>4, <1>5, <1>6, <1>7, <1>8, <1>9, <1>10, <1>11,
     <1>12, <1>13, <1>14, <1>15, <1>16, <1>17, <1>18, <1>19, <1>20, <1>21, <1>22
     DEF RONext, Board, Thread, Main

(* The thread against the transitions: end_of_run goes on only once the    *)
(* thread can no longer enable the DMA.                                    *)
LEMMA ThreadStep == RInv /\ [RONext]_vars => ThreadInv'
<1> SUFFICES ASSUME RInv, [RONext]_vars PROVE ThreadInv'
  OBVIOUS
<1> USE DEF RInv, ROTypeOK, Size, Buffer, main_vars, thread_vars, builder_vars, engine_vars,
        memory_vars, board_vars, ThreadInv
<1>0. CASE UNCHANGED vars
  BY <1>0 DEF vars
<1>1. CASE SendEvent
  BY <1>1 DEF SendEvent
<1>2. CASE EndOfEvent
  BY <1>2 DEF EndOfEvent
<1>3. CASE Pad
  BY <1>3 DEF Pad
<1>4. CASE SendPage
  BY <1>4 DEF SendPage
<1>5. CASE DmaStops
  BY <1>5 DEF DmaStops
<1>6. CASE CheckEnabled
  BY <1>6 DEF CheckEnabled
<1>7. CASE GetSpace
  BY <1>7 DEF GetSpace
<1>8. CASE NoSpace
  BY <1>8 DEF NoSpace
<1>9. CASE Ask
  BY <1>9 DEF Ask
<1>10. CASE EnableContinuousReadout
  BY <1>10 DEF EnableContinuousReadout, Settled
<1>11. CASE SeesDone
  BY <1>11 DEF SeesDone
<1>12. CASE TimesOut
  BY <1>12 DEF TimesOut
<1>13. CASE DisableDma
  BY <1>13 DEF DisableDma
<1>14. CASE LastEndOfEvent
  BY <1>14 DEF LastEndOfEvent
<1>15. CASE Copy
  BY <1>15 DEF Copy
<1>16. CASE BeginOfRun
  BY <1>16 DEF BeginOfRun, Settled
<1>17. CASE ReleaseReset
  BY <1>17 DEF ReleaseReset
<1>18. CASE PauseRun
  BY <1>18 DEF PauseRun
<1>19. CASE ResumeRun
  BY <1>19 DEF ResumeRun
<1>20. CASE StopRun
  BY <1>20 DEF StopRun
<1>21. CASE WaitsForDma
  BY <1>21 DEF WaitsForDma
<1>22. CASE EndOfRun
  BY <1>22 DEF EndOfRun
<1> QED
  BY <1>0, <1>1, <1>2, <1>3, <1>4, <1>5, <1>6, <1>7, <1>8, <1>9, <1>10, <1>11,
     <1>12, <1>13, <1>14, <1>15, <1>16, <1>17, <1>18, <1>19, <1>20, <1>21, <1>22
     DEF RONext, Board, Thread, Main

(* The memory of the PC is large enough.                                   *)
LEMMA SizeStep == RInv /\ [RONext]_vars => SizeInv'
<1> SUFFICES ASSUME RInv, [RONext]_vars PROVE SizeInv'
  OBVIOUS
<1> USE DEF RInv, ROTypeOK, Size, Buffer, main_vars, thread_vars, builder_vars, engine_vars,
        memory_vars, board_vars,
        ThreadInv, SizeInv
<1>0. CASE UNCHANGED vars
  BY <1>0 DEF vars
<1>1. CASE SendEvent
  BY <1>1 DEF SendEvent, LastBlock, BuilderInv
<1>2. CASE EndOfEvent
  BY <1>2 DEF EndOfEvent
<1>3. CASE Pad
  BY <1>3 DEF Pad, BuilderInv
<1>4. CASE SendPage
  BY <1>4 DEF SendPage, PageReady
<1>5. CASE DmaStops
  BY <1>5 DEF DmaStops
<1>6. CASE CheckEnabled
  BY <1>6 DEF CheckEnabled
<1>7. CASE GetSpace
  BY <1>7 DEF GetSpace
<1>8. CASE NoSpace
  BY <1>8 DEF NoSpace
<1>9. CASE Ask
  BY <1>9 DEF Ask
<1>10. CASE EnableContinuousReadout
  BY <1>10 DEF EnableContinuousReadout, Settled
<1>11. CASE SeesDone
  BY <1>11 DEF SeesDone
<1>12. CASE TimesOut
  BY <1>12 DEF TimesOut
<1>13. CASE DisableDma
  BY <1>13 DEF DisableDma
<1>14. CASE LastEndOfEvent
  BY <1>14 DEF LastEndOfEvent
<1>15. CASE Copy
  BY <1>15 DEF Copy
<1>16. CASE BeginOfRun
  BY <1>16 DEF BeginOfRun, Settled
<1>17. CASE ReleaseReset
  BY <1>17 DEF ReleaseReset
<1>18. CASE PauseRun
  BY <1>18 DEF PauseRun
<1>19. CASE ResumeRun
  BY <1>19 DEF ResumeRun
<1>20. CASE StopRun
  BY <1>20 DEF StopRun
<1>21. CASE WaitsForDma
  BY <1>21 DEF WaitsForDma
<1>22. CASE EndOfRun
  BY <1>22 DEF EndOfRun
<1> QED
  BY <1>0, <1>1, <1>2, <1>3, <1>4, <1>5, <1>6, <1>7, <1>8, <1>9, <1>10, <1>11,
     <1>12, <1>13, <1>14, <1>15, <1>16, <1>17, <1>18, <1>19, <1>20, <1>21, <1>22
     DEF RONext, Board, Thread, Main

(* The event builder: done means the last event and its padding are given. *)
LEMMA BuilderStep == RInv /\ [RONext]_vars => BuilderInv'
<1> SUFFICES ASSUME RInv, [RONext]_vars PROVE BuilderInv'
  OBVIOUS
<1> USE DEF RInv, ROTypeOK, Size, Buffer, main_vars, thread_vars, builder_vars, engine_vars,
        memory_vars, board_vars, ThreadInv, BuilderInv, Ended
<1>0. CASE UNCHANGED vars
  BY <1>0 DEF vars
<1>1. CASE SendEvent
  BY <1>1 DEF SendEvent, LastBlock
<1>2. CASE EndOfEvent
  BY <1>2 DEF EndOfEvent, KeepEndOfEvent
<1>3. CASE Pad
  BY <1>3 DEF Pad
<1>4. CASE SendPage
  BY <1>4 DEF SendPage
<1>5. CASE DmaStops
  BY <1>5 DEF DmaStops
<1>6. CASE CheckEnabled
  BY <1>6 DEF CheckEnabled
<1>7. CASE GetSpace
  BY <1>7 DEF GetSpace
<1>8. CASE NoSpace
  BY <1>8 DEF NoSpace
<1>9. CASE Ask
  BY <1>9 DEF Ask
<1>10. CASE EnableContinuousReadout
  BY <1>10 DEF EnableContinuousReadout, Settled
<1>11. CASE SeesDone
  BY <1>11 DEF SeesDone
<1>12. CASE TimesOut
  BY <1>12 DEF TimesOut
<1>13. CASE DisableDma
  BY <1>13 DEF DisableDma
<1>14. CASE LastEndOfEvent
  BY <1>14 DEF LastEndOfEvent
<1>15. CASE Copy
  BY <1>15 DEF Copy
<1>16. CASE BeginOfRun
  BY <1>16 DEF BeginOfRun
<1>17. CASE ReleaseReset
  BY <1>17 DEF ReleaseReset
<1>18. CASE PauseRun
  BY <1>18 DEF PauseRun
<1>19. CASE ResumeRun
  BY <1>19 DEF ResumeRun
<1>20. CASE StopRun
  BY <1>20 DEF StopRun
<1>21. CASE WaitsForDma
  BY <1>21 DEF WaitsForDma
<1>22. CASE EndOfRun
  BY <1>22 DEF EndOfRun
<1> QED
  BY <1>0, <1>1, <1>2, <1>3, <1>4, <1>5, <1>6, <1>7, <1>8, <1>9, <1>10, <1>11,
     <1>12, <1>13, <1>14, <1>15, <1>16, <1>17, <1>18, <1>19, <1>20, <1>21, <1>22
     DEF RONext, Board, Thread, Main

(* The DMA: a page that goes past the last event is sent after its end.    *)
LEMMA PagesStep == RInv /\ [RONext]_vars => PagesInv'
<1> SUFFICES ASSUME RInv, [RONext]_vars PROVE PagesInv'
  OBVIOUS
<1> USE DEF RInv, ROTypeOK, Size, Buffer, main_vars, thread_vars, builder_vars, engine_vars,
        memory_vars, board_vars,
        ThreadInv, SizeInv, BuilderInv, Ended, PagesInv
<1>0. CASE UNCHANGED vars
  BY <1>0 DEF vars, Reads
<1>1. CASE SendEvent
  BY <1>1 DEF SendEvent, LastBlock, Reads
<1>2. CASE EndOfEvent
  BY <1>2 DEF EndOfEvent, KeepEndOfEvent, Reads
<1>3. CASE Pad
  BY <1>3 DEF Pad, Reads
<1>4. CASE SendPage
  <2> USE <1>4 DEF SendPage, PageReady
  <2> DEFINE page == (sent + 1)..(sent + Page)
  <2>1. /\ dma_buf' = (dma_buf \ page) \cup (ram \cap page)
        /\ ram' = ram \ page
        /\ sent' = sent + Page
        /\ UNCHANGED <<pc, restarted, given, eoe, dma>>
    OBVIOUS
  <2>2. ASSUME ~restarted
        PROVE  /\ \A i \in 1..given : i > sent' => i \in ram'
               /\ Reads => \A i \in 1..given : i <= sent' => i \in dma_buf'
    <3>1. \A i \in 1..given : i > sent => i \in ram
      BY <2>2
    <3>2. Reads => \A i \in 1..given : i <= sent => i \in dma_buf
      BY <2>2
    <3> QED BY <2>1, <3>1, <3>2
  <2>3. ~restarted /\ sent' > given => eoe' = given /\ ctrl' = given
    OBVIOUS
  <2>4. Reads' = Reads
    BY <2>1 DEF Reads
  <2> QED BY <2>1, <2>2, <2>3, <2>4
<1>5. CASE DmaStops
  BY <1>5 DEF DmaStops, Reads
<1>6. CASE CheckEnabled
  BY <1>6 DEF CheckEnabled, Reads
<1>7. CASE GetSpace
  BY <1>7 DEF GetSpace, Reads
<1>8. CASE NoSpace
  BY <1>8 DEF NoSpace, Reads
<1>9. CASE Ask
  BY <1>9 DEF Ask, Reads
<1>10. CASE EnableContinuousReadout
  <2>1. ~restarted' => dma = "disabled"
    BY <1>10 DEF EnableContinuousReadout
  <2>2. ~restarted' => sent' = 0 /\ given' = 0
    BY <1>10, <2>1 DEF EnableContinuousReadout
  <2> QED BY <2>2
<1>11. CASE SeesDone
  BY <1>11 DEF SeesDone, Reads
<1>12. CASE TimesOut
  BY <1>12 DEF TimesOut, Reads
<1>13. CASE DisableDma
  BY <1>13 DEF DisableDma, Reads
<1>14. CASE LastEndOfEvent
  BY <1>14 DEF LastEndOfEvent, Reads
<1>15. CASE Copy
  BY <1>15 DEF Copy, Reads
<1>16. CASE BeginOfRun
  BY <1>16 DEF BeginOfRun, Settled, Reads
<1>17. CASE ReleaseReset
  BY <1>17 DEF ReleaseReset, Reads
<1>18. CASE PauseRun
  BY <1>18 DEF PauseRun, Reads
<1>19. CASE ResumeRun
  BY <1>19 DEF ResumeRun, Reads
<1>20. CASE StopRun
  BY <1>20 DEF StopRun, Reads
<1>21. CASE WaitsForDma
  BY <1>21 DEF WaitsForDma, Reads
<1>22. CASE EndOfRun
  BY <1>22 DEF EndOfRun, Reads
<1> QED
  BY <1>0, <1>1, <1>2, <1>3, <1>4, <1>5, <1>6, <1>7, <1>8, <1>9, <1>10, <1>11,
     <1>12, <1>13, <1>14, <1>15, <1>16, <1>17, <1>18, <1>19, <1>20, <1>21, <1>22
     DEF RONext, Board, Thread, Main

(* Nothing happens to a buffer the thread saw done.                        *)
LEMMA DoneStep == RInv /\ [RONext]_vars => DoneInv'
<1> SUFFICES ASSUME RInv, [RONext]_vars PROVE DoneInv'
  OBVIOUS
<1> USE DEF RInv, ROTypeOK, Size, Buffer, main_vars, thread_vars, builder_vars, engine_vars,
        memory_vars, board_vars,
        ThreadInv, SizeInv, BuilderInv, Ended, DoneInv
<1>0. CASE UNCHANGED vars
  BY <1>0 DEF vars
<1>1. CASE SendEvent
  BY <1>1 DEF SendEvent, DoneInv
<1>2. CASE EndOfEvent
  BY <1>2 DEF EndOfEvent, KeepEndOfEvent
<1>3. CASE Pad
  BY <1>3 DEF Pad
<1>4. CASE SendPage
  BY <1>4 DEF SendPage
<1>5. CASE DmaStops
  <2>1. ASSUME ~restarted, pc \in {"disable", "length", "copy"}, seen = "done"
        PROVE  ctrl = given /\ 1..given \subseteq dma_buf
    <3>1. Ended /\ sent > given
      BY <1>5, <2>1 DEF DmaStops, PageReady
    <3> QED BY <1>5, <2>1, <3>1 DEF DmaStops, PagesInv, Reads
  <2> QED BY <1>5, <2>1 DEF DmaStops, DoneInv
<1>6. CASE CheckEnabled
  BY <1>6 DEF CheckEnabled
<1>7. CASE GetSpace
  BY <1>7 DEF GetSpace
<1>8. CASE NoSpace
  BY <1>8 DEF NoSpace
<1>9. CASE Ask
  BY <1>9 DEF Ask
<1>10. CASE EnableContinuousReadout
  BY <1>10 DEF EnableContinuousReadout, Settled
<1>11. CASE SeesDone
  BY <1>11 DEF SeesDone
<1>12. CASE TimesOut
  BY <1>12 DEF TimesOut
<1>13. CASE DisableDma
  BY <1>13 DEF DisableDma
<1>14. CASE LastEndOfEvent
  BY <1>14 DEF LastEndOfEvent
<1>15. CASE Copy
  BY <1>15 DEF Copy
<1>16. CASE BeginOfRun
  BY <1>16 DEF BeginOfRun, Settled
<1>17. CASE ReleaseReset
  BY <1>17 DEF ReleaseReset
<1>18. CASE PauseRun
  BY <1>18 DEF PauseRun
<1>19. CASE ResumeRun
  BY <1>19 DEF ResumeRun
<1>20. CASE StopRun
  BY <1>20 DEF StopRun
<1>21. CASE WaitsForDma
  BY <1>21 DEF WaitsForDma
<1>22. CASE EndOfRun
  BY <1>22 DEF EndOfRun
<1> QED
  BY <1>0, <1>1, <1>2, <1>3, <1>4, <1>5, <1>6, <1>7, <1>8, <1>9, <1>10, <1>11,
     <1>12, <1>13, <1>14, <1>15, <1>16, <1>17, <1>18, <1>19, <1>20, <1>21, <1>22
     DEF RONext, Board, Thread, Main

(* The length that is read once the pages are sent is the one of the buffer. *)
LEMMA CopyStep == RInv /\ [RONext]_vars => CopyInv'
<1> SUFFICES ASSUME RInv, [RONext]_vars PROVE CopyInv'
  OBVIOUS
<1> USE DEF RInv, ROTypeOK, Size, Buffer, main_vars, thread_vars, builder_vars, engine_vars,
        memory_vars, board_vars,
        ThreadInv, SizeInv, BuilderInv, Ended,
        DoneInv, CopyInv, PagesInv, Reads, PageReady
<1>0. CASE UNCHANGED vars
  BY <1>0 DEF vars
<1>1. CASE SendEvent
  BY <1>1 DEF SendEvent
<1>2. CASE EndOfEvent
  BY <1>2 DEF EndOfEvent
<1>3. CASE Pad
  BY <1>3 DEF Pad
<1>4. CASE SendPage
  BY <1>4 DEF SendPage
<1>5. CASE DmaStops
  BY <1>5 DEF DmaStops
<1>6. CASE CheckEnabled
  BY <1>6 DEF CheckEnabled
<1>7. CASE GetSpace
  BY <1>7 DEF GetSpace
<1>8. CASE NoSpace
  BY <1>8 DEF NoSpace
<1>9. CASE Ask
  BY <1>9 DEF Ask
<1>10. CASE EnableContinuousReadout
  BY <1>10 DEF EnableContinuousReadout, Settled
<1>11. CASE SeesDone
  BY <1>11 DEF SeesDone
<1>12. CASE TimesOut
  BY <1>12 DEF TimesOut
<1>13. CASE DisableDma
  BY <1>13 DEF DisableDma
<1>14. CASE LastEndOfEvent
  <2>1. ASSUME ~restarted, seen = "done", ~PageReady
        PROVE  ctrl = given
    <3>1. CASE dma = "disabled"
      BY <1>14, <2>1, <3>1 DEF LastEndOfEvent
    <3>2. CASE dma = "waiting"
      <4>1. Ended
        BY <1>14, <2>1, <3>2 DEF LastEndOfEvent
      <4>2. sent > given
        BY <2>1, <4>1
      <4> QED BY <2>1, <3>2, <4>2
    <3> QED BY <3>1, <3>2
  <2>2. late' = PageReady /\ PageReady' = PageReady
    BY <1>14 DEF LastEndOfEvent
  <2>3. length' = ctrl /\ ctrl' = ctrl /\ given' = given /\ seen' = seen /\ restarted' = restarted
    BY <1>14 DEF LastEndOfEvent
  <2> HIDE DEF PageReady
  <2> QED BY <2>1, <2>2, <2>3 DEF CopyInv
<1>15. CASE Copy
  BY <1>15 DEF Copy
<1>16. CASE BeginOfRun
  BY <1>16 DEF BeginOfRun, Settled
<1>17. CASE ReleaseReset
  BY <1>17 DEF ReleaseReset
<1>18. CASE PauseRun
  BY <1>18 DEF PauseRun
<1>19. CASE ResumeRun
  BY <1>19 DEF ResumeRun
<1>20. CASE StopRun
  BY <1>20 DEF StopRun
<1>21. CASE WaitsForDma
  BY <1>21 DEF WaitsForDma
<1>22. CASE EndOfRun
  BY <1>22 DEF EndOfRun
<1> QED
  BY <1>0, <1>1, <1>2, <1>3, <1>4, <1>5, <1>6, <1>7, <1>8, <1>9, <1>10, <1>11,
     <1>12, <1>13, <1>14, <1>15, <1>16, <1>17, <1>18, <1>19, <1>20, <1>21, <1>22
     DEF RONext, Board, Thread, Main

LEMMA InductiveInv == ROSpec => []RInv
<1>1. RInv /\ [RONext]_vars => RInv'
  BY TypeStep, ThreadStep, SizeStep, BuilderStep, PagesStep, DoneStep, CopyStep DEF RInv
<1> QED BY InitRInv, <1>1, PTL DEF ROSpec

(* The registers keep their ranges and the memory is never overrun: a      *)
(* buffer fits even if the DMA was enabled before it had stopped and goes  *)
(* on where it was.                                                        *)
THEOREM TypeCorrect == ROSpec => []ROTypeOK
<1>1. RInv => ROTypeOK
  BY DEF RInv
<1> QED BY InductiveInv, <1>1, PTL

(* The DMA is off when a run is stopped, whatever the thread was doing.    *)
THEOREM StoppedIsOff == ROSpec => []DmaOffWhenStopped
<1>1. RInv => DmaOffWhenStopped
  BY DEF RInv, ThreadInv, DmaOffWhenStopped
<1> QED BY InductiveInv, <1>1, PTL

(* A buffer seen done, with its pages sent and of a DMA that had stopped   *)
(* before, is copied whole.                                                *)
THEOREM WholeBuffers == ROSpec => []CopiesWholeBuffer
<1>1. ASSUME RInv, pc = "copy", seen = "done", ~late, ~restarted
      PROVE  length = given /\ 1..given \subseteq dma_buf
  <2> USE <1>1 DEF RInv, ROTypeOK, Size, Buffer
  <2>1. length = given
    BY DEF CopyInv
  <2>2. CASE dma = "disabled"
    BY <2>1, <2>2 DEF DoneInv
  <2>3. CASE dma = "waiting"
    <3>1. sent > given
      BY <2>3 DEF DoneInv, Ended, CopyInv, PageReady
    <3> QED BY <2>1, <2>3, <3>1 DEF PagesInv, Reads
  <2> QED BY <2>2, <2>3
<1>2. RInv => CopiesWholeBuffer
  BY <1>1 DEF CopiesWholeBuffer
<1> QED BY InductiveInv, <1>2, PTL
=============================================================================
