--------------------------- MODULE KcanLink_proofs ---------------------------
(***************************************************************************)
(* Safety of the dongle and its host for all sizes of the queues, every    *)
(* period of the hardware timestamp and every number of sessions, frames,  *)
(* pulled cables and faults, on either board.                              *)
(***************************************************************************)
EXTENDS KcanLink, SequenceTheorems, TLAPS

Stamps == 0..(Wrap - 1)
Frames == [kind : {"data", "echo"}, n : Nat, at : Stamps, s : Nat]
Commands == [kind : {"tx", "shutdown"}, n : Nat, s : Nat]
Clocks == [last : Stamps, epoch : Nat, given : Nat]

TypeOK ==
  /\ host \in {"closed", "opening", "open", "closing", "asking", "joining"}
  /\ reader \in {"none", "drain", "read", "exited"}
  /\ session \in Nat
  /\ txq \in Seq(Commands) /\ toCan \in Seq(Commands) /\ writing \in Seq(Commands)
  /\ seen \in Seq(Frames) /\ rxq \in Seq(Frames) /\ ep1 \in Seq(Frames)
  /\ inFlight \in Seq(Frames) /\ toUsb \in Seq(Frames) /\ fifo \in Seq(Frames)
  /\ Len(writing) <= 1 /\ Len(ep1) <= 1 /\ Len(inFlight) <= 1
  /\ clock \in Clocks
  /\ onBus \in Seq(Nat) /\ dropped \subseteq Nat
  /\ rxCount \in Nat /\ txCount \in Nat /\ quietFrom \in Nat
  /\ world \in Worlds

\* The time given to a frame is its stamp in the present period.
ClockFits == clock.given = clock.epoch + clock.last

-----------------------------------------------------------------------------
(* Queues and frames                                                       *)

\* A stamp stays below the period.
LEMMA StampRange == TypeOK => Stamp \in Stamps
  <1> SUFFICES ASSUME TypeOK PROVE Stamp \in Stamps
    OBVIOUS
  <1>1. rxCount + Len(onBus) + 1 \in Nat
    BY LenProperties DEF TypeOK
  <1>2. ASSUME NEW k \in Nat PROVE k % Wrap \in 0..(Wrap - 1)
    BY KcanConstantsOK
  <1>. QED
    BY <1>1, <1>2 DEF Stamp, Stamps

\* A later stamp is in the same period or, if it is smaller, in the next one: the time
\* given never goes back.
LEMMA ExtendedClock ==
  ASSUME NEW c \in Clocks, c.given = c.epoch + c.last, NEW raw \in Stamps
  PROVE  /\ Extended(c, raw) \in Clocks
         /\ Extended(c, raw).given = Extended(c, raw).epoch + Extended(c, raw).last
         /\ Extended(c, raw).given >= c.given
  <1>1. c.last \in Stamps /\ c.epoch \in Nat
    BY DEF Clocks
  <1>2. ASSUME NEW epoch \in Nat
        PROVE  [last |-> raw, epoch |-> epoch, given |-> epoch + raw] \in Clocks
    BY DEF Clocks, Stamps
  <1>3. CASE raw < c.last
    <2>1. c.epoch + Wrap \in Nat /\ c.epoch + Wrap + raw >= c.epoch + c.last
      BY <1>1, KcanConstantsOK DEF Stamps
    <2>. QED
      BY <1>2, <1>3, <2>1 DEF Extended
  <1>4. CASE ~(raw < c.last)
    <2>1. c.epoch + raw >= c.epoch + c.last
      BY <1>1, <1>4, KcanConstantsOK DEF Stamps
    <2>. QED
      BY <1>1, <1>2, <1>4, <2>1 DEF Extended
  <1>. QED
    BY <1>3, <1>4

\* A bounded queue holds what was put into it.
LEMMA PushType ==
  ASSUME NEW S, NEW q \in Seq(S), NEW f \in S, NEW cap
  PROVE  Push(q, f, cap) \in Seq(S)
  BY DEF Push

\* What is left of a queue, and what was at its head.
LEMMA HeadTail ==
  ASSUME NEW S, NEW q \in Seq(S), q # <<>>
  PROVE  Head(q) \in S /\ Tail(q) \in Seq(S) /\ Head(q) = q[1] /\ Len(q) >= 1
  BY HeadTailProperties

\* A queue of one, a queue of none.
LEMMA OneFrame ==
  ASSUME NEW S, NEW f \in S
  PROVE  <<f>> \in Seq(S) /\ Len(<<f>>) = 1 /\ <<>> \in Seq(S) /\ Len(<<>>) = 0
  OBVIOUS

\* The empty queue is a queue of frames as well as of commands.
LEMMA NoFrames == <<>> \in Seq(Frames) /\ <<>> \in Seq(Commands) /\ Len(<<>>) = 0
  OBVIOUS

\* A place for one frame is empty or holds just that frame.
LEMMA Single ==
  ASSUME NEW S, NEW q \in Seq(S), q # <<>>, Len(q) <= 1
  PROVE  q[1] \in S /\ q = <<q[1]>>
  <1>1. Len(q) = 1
    <2>1. Len(q) \in Nat /\ Len(q) >= 1
      BY HeadTail, LenProperties
    <2>2. \A n \in Nat : n >= 1 /\ n <= 1 => n = 1
      OBVIOUS
    <2>. QED
      BY <2>1, <2>2, Zenon
  <1>2. <<q[1]>> \in Seq(S) /\ Len(<<q[1]>>) = 1 /\ <<q[1]>>[1] = q[1]
    BY <1>1
  <1>. QED
    BY <1>1, <1>2, SeqEqual

\* The request to end is a command.
LEMMA ShutdownType == Shutdown \in Commands
  BY DEF Shutdown, Commands

-----------------------------------------------------------------------------
(* Types                                                                   *)

\* Types hold at the start ...
LEMMA TypesInit == Init => TypeOK /\ ClockFits
  BY KcanConstantsOK DEF Init, TypeOK, ClockFits, Clocks, Stamps, NoFrame

\* ... and every step keeps them, the time given to frames with them.
LEMMA TypesKept == TypeOK /\ ClockFits /\ [Next]_vars => TypeOK' /\ ClockFits'
  <1> SUFFICES ASSUME TypeOK, ClockFits, [Next]_vars PROVE TypeOK' /\ ClockFits'
    OBVIOUS
  <1> USE KcanConstantsOK DEF TypeOK, ClockFits, adapter, usb, canSide, rest, NoFrame
  <1>1. CASE OpenSetMode
    BY <1>1 DEF OpenSetMode
  <1>2. CASE OpenReader
    BY <1>2 DEF OpenReader
  <1>3. CASE OpenFails
    BY <1>3 DEF OpenFails
  <1>4. CASE Send
    <2>1. [kind |-> "tx", n |-> txCount + 1, s |-> session] \in Commands
      BY DEF Commands
    <2>2. txq' \in Seq(Commands)
      BY <1>4, <2>1, PushType DEF Send
    <2>. QED
      BY <1>4, <2>2 DEF Send
  <1>5. CASE Recv
    <2>1. Head(rxq) \in Frames /\ rxq' \in Seq(Frames)
      BY <1>5, HeadTail DEF Recv
    <2>2. seen' \in Seq(Frames)
      BY <1>5, <2>1, AppendProperties DEF Recv
    <2>3. Head(rxq).at \in Stamps
      BY <2>1 DEF Frames
    <2>4. clock' = Extended(clock, Head(rxq).at)
      BY <1>5 DEF Recv
    <2>5. clock' \in Clocks /\ clock'.given = clock'.epoch + clock'.last
      BY <2>3, <2>4, ExtendedClock
    <2>. QED
      BY <1>5, <2>1, <2>2, <2>5 DEF Recv
  <1>6. CASE LoseAdapter \/ Close
    BY <1>6, NoFrames DEF LoseAdapter, Close
  <1>7. CASE CloseBusOff
    BY <1>7 DEF CloseBusOff
  <1>8. CASE CloseShutdown
    BY <1>8, PushType, ShutdownType DEF CloseShutdown
  <1>9. CASE CloseJoin
    BY <1>9 DEF CloseJoin, Clocks, Stamps
  <1>10. CASE ReaderDrain
    <2>1. CASE txq = <<>>
      BY <1>10, <2>1 DEF ReaderDrain
    <2>2. CASE txq # <<>>
      <3>1. Head(txq) \in Commands /\ Tail(txq) \in Seq(Commands)
        BY <2>2, HeadTail
      <3>2. toCan' \in Seq(Commands)
        BY <1>10, <2>2, <3>1, PushType DEF ReaderDrain
      <3>. QED
        BY <1>10, <2>2, <3>1, <3>2 DEF ReaderDrain
    <2>. QED
      BY <2>1, <2>2
  <1>11. CASE ReaderRead
    <2>1. CASE ep1 # <<>> /\ rxq' = Append(rxq, ep1[1]) /\ ep1' = <<>>
      <3>1. ep1[1] \in Frames
        BY <2>1, HeadTail
      <3>2. rxq' \in Seq(Frames)
        BY <2>1, <3>1, AppendProperties
      <3>. QED
        BY <1>11, <2>1, <3>2, OneFrame DEF ReaderRead
    <2>2. CASE UNCHANGED <<rxq, ep1>>
      BY <1>11, <2>2 DEF ReaderRead
    <2>. QED
      BY <1>11, <2>1, <2>2 DEF ReaderRead
  <1>12. CASE ReaderDies
    BY <1>12 DEF ReaderDies
  <1>13. CASE IoConfigured \/ OutDisabled \/ RunEnds \/ Settled
    BY <1>13 DEF IoConfigured, OutDisabled, RunEnds, Settled, IoUnchanged
  <1>14. CASE InTake
    BY <1>14, HeadTail, OneFrame DEF InTake, IoUnchanged
  <1>15. CASE InWrite
    BY <1>15 DEF InWrite, IoUnchanged
  <1>16. CASE Restart \/ RestartH753
    <2>1. CASE Restart
      BY <2>1, NoFrames DEF Restart, IoUnchanged
    <2>2. CASE RestartH753
      BY <2>2, NoFrames DEF RestartH753, IoUnchanged
    <2>. QED
      BY <1>16, <2>1, <2>2
  <1>17. CASE RxTask \/ RxTaskH753
    <2>1. Head(fifo) \in Frames /\ Tail(fifo) \in Seq(Frames)
      BY <1>17, HeadTail DEF RxTask, RxTaskH753
    <2> DEFINE frame == [Head(fifo) EXCEPT !.s = session]
    <2>2. frame \in Frames /\ Head(fifo).n \in Nat
      BY <2>1 DEF Frames
    <2>3. toUsb' = Push(toUsb, frame, ToUsbCap)
      BY <1>17 DEF RxTask, RxTaskH753
    <2> HIDE DEF frame
    <2>5. toUsb' \in Seq(Frames)
      BY <2>2, <2>3, PushType
    <2>4. dropped' \subseteq Nat
      BY <1>17, <2>2 DEF RxTask, RxTaskH753
    <2>. QED
      BY <1>17, <2>1, <2>4, <2>5 DEF RxTask, RxTaskH753, CanUnchanged
  <1>18. CASE TxTake
    BY <1>18, HeadTail, OneFrame DEF TxTake, CanUnchanged
  <1>19. CASE TxWritten
    <2>1. writing[1].n \in Nat
      <3>1. writing[1] \in Commands
        BY <1>19, HeadTail DEF TxWritten
      <3>. QED
        BY <3>1 DEF Commands
    <2>2. [kind |-> "echo", n |-> writing[1].n, at |-> Stamp, s |-> session] \in Frames
      BY <2>1, StampRange DEF Frames
    <2>3. toUsb' \in Seq(Frames) /\ onBus' \in Seq(Nat)
      BY <1>19, <2>1, <2>2, PushType, AppendProperties DEF TxWritten
    <2>. QED
      BY <1>19, <2>3, OneFrame DEF TxWritten, CanUnchanged
  <1>20. CASE TxTimeout
    BY <1>20 DEF TxTimeout
  <1>21. CASE Arrive
    BY <1>21, StampRange DEF Arrive, CanUnchanged, Frames
  <1>22. CASE Unplug \/ Replug
    <2>1. CASE Unplug
      BY <2>1, NoFrames DEF Unplug
    <2>2. CASE Replug
      BY <2>2 DEF Replug
    <2>. QED
      BY <1>22, <2>1, <2>2
  <1>23. CASE UNCHANGED vars
    BY <1>23 DEF vars
  <1>. QED
    BY <1>1, <1>2, <1>3, <1>4, <1>5, <1>6, <1>7, <1>8, <1>9, <1>10, <1>11, <1>12, <1>13, <1>14, <1>15,
       <1>16, <1>17, <1>18, <1>19, <1>20, <1>21, <1>22, <1>23
       DEF Next, CloseSteps, IoSteps, CanSteps

\* Queues hold what they are for, the places for one frame hold at most one, and the time
\* a session gives is composed of its epoch and a stamp (session.rs:1712-1719).
THEOREM TypeCorrect == Spec => [](TypeOK /\ ClockFits)
  BY TypesInit, TypesKept, PTL DEF Spec

-----------------------------------------------------------------------------
(* Time stamps and listening                                               *)

\* Whatever the period of the hardware timestamp and whatever frames get lost or
\* overtake each other, the session never gives a frame an earlier time than the last.
THEOREM TimeIsMonotonic == Spec => TimeNeverGoesBack
  <1>1. TypeOK /\ ClockFits /\ [Next]_vars => [clock'.given < clock.given => host' # host]_vars
    <2> SUFFICES ASSUME TypeOK, ClockFits, Next PROVE clock'.given < clock.given => host' # host
      OBVIOUS
    <2>1. clock.given \in Nat
      BY DEF TypeOK, Clocks
    <2>2. CASE Recv
      <3>1. Head(rxq) \in Frames
        BY <2>2, HeadTail DEF Recv, TypeOK
      <3>2. Head(rxq).at \in Stamps
        BY <3>1 DEF Frames
      <3>3. clock' = Extended(clock, Head(rxq).at)
        BY <2>2 DEF Recv
      <3>4. clock'.given >= clock.given /\ clock' \in Clocks
        BY <3>2, <3>3, ExtendedClock DEF TypeOK, ClockFits
      <3>. QED
        BY <2>1, <3>4 DEF Clocks
    <2>3. CASE CloseJoin
      BY <2>3 DEF CloseJoin
    <2>4. CASE UNCHANGED clock
      BY <2>1, <2>4
    <2>. QED
      BY <2>2, <2>3, <2>4
         DEF Next, CloseSteps, IoSteps, CanSteps, OpenSetMode, OpenReader, OpenFails, Send, LoseAdapter, Close,
             CloseBusOff, CloseShutdown, ReaderDrain, ReaderRead, ReaderDies, IoConfigured, InTake, InWrite,
             OutDisabled, RunEnds, Restart, Settled, RestartH753, RxTask, RxTaskH753, TxTake, TxWritten,
             TxTimeout, Arrive, Unplug, Replug, IoUnchanged, CanUnchanged, adapter, rest
  <1>. QED
    BY TypeCorrect, <1>1, PTL DEF Spec, TimeNeverGoesBack

\* While a session listens the dongle is in listen-only mode, and what has gone out since,
\* with the write that is still under way, is at most one frame.
Listens == host \in {"opening", "open"} /\ linked /\ Listening(session)
SentSince == Len(onBus) + Len(writing) - quietFrom

Quiet == Listens => listenOnly /\ SentSince <= 1

\* Nothing but the start of a session makes one that listens.
LEMMA ListensKept == [Next]_vars /\ ~OpenSetMode /\ Listens' => Listens
  BY Zenon
     DEF Next, Listens, Listening, vars, CloseSteps, IoSteps, CanSteps, OpenReader, OpenFails, Send, Recv, LoseAdapter,
         Close, CloseBusOff, CloseShutdown, CloseJoin, ReaderDrain, ReaderRead, ReaderDies, IoConfigured,
         InTake, InWrite, OutDisabled, RunEnds, Restart, Settled, RestartH753, RxTask, RxTaskH753, TxTake,
         TxWritten, TxTimeout, Arrive, Unplug, Replug, IoUnchanged, CanUnchanged, adapter, rest

\* A session that listens stays in listen-only mode as long as it is open.
LEMMA ListenOnlyKept == [Next]_vars /\ ~OpenSetMode /\ Listens /\ listenOnly /\ Listens' => listenOnly'
  BY Zenon
     DEF Next, Listens, vars, CloseSteps, IoSteps, CanSteps, OpenReader, OpenFails, Send, Recv, LoseAdapter,
         Close, CloseBusOff, CloseShutdown, CloseJoin, ReaderDrain, ReaderRead, ReaderDies, IoConfigured,
         InTake, InWrite, OutDisabled, RunEnds, Restart, Settled, RestartH753, RxTask, RxTaskH753, TxTake,
         TxWritten, TxTimeout, Arrive, Unplug, Replug, IoUnchanged, CanUnchanged, canSide

\* In listen-only mode nothing is added to what has gone out or is being written.
LEMMA SentKept == TypeOK /\ [Next]_vars /\ ~OpenSetMode /\ listenOnly => SentSince' <= SentSince
  <1> SUFFICES ASSUME TypeOK, [Next]_vars, ~OpenSetMode, listenOnly PROVE SentSince' <= SentSince
    OBVIOUS
  <1>0. Len(onBus) \in Nat /\ Len(writing) \in Nat /\ Len(writing) <= 1 /\ quietFrom \in Nat
    BY LenProperties DEF TypeOK
  <1>1. CASE TxTake
    <2>1. writing' = <<>> /\ UNCHANGED <<onBus, quietFrom>>
      BY <1>1 DEF TxTake, CanUnchanged, NoFrame, rest
    <2>. QED
      BY <1>0, <2>1, EmptySeq DEF SentSince
  <1>2. CASE TxWritten \/ TxTimeout
    <2>1. writing # <<>> /\ writing' = <<>> /\ quietFrom' = quietFrom
      BY <1>2 DEF TxWritten, TxTimeout, CanUnchanged, NoFrame, rest
    <2>2. Len(writing) = 1 /\ Len(writing') = 0
      <3>1. writing \in Seq(Commands)
        BY DEF TypeOK
      <3>2. Len(writing) >= 1
        BY <2>1, <3>1, HeadTail
      <3>3. Len(writing') = 0
        BY <2>1, NoFrames
      <3>. QED
        BY <1>0, <3>2, <3>3
    <2>3. onBus' = onBus \/ onBus' = Append(onBus, writing[1].n)
      BY <1>2 DEF TxWritten, TxTimeout
    <2>4. Len(onBus') \in Nat /\ Len(onBus') <= Len(onBus) + 1
      BY <1>0, <2>3 DEF TypeOK
    <2>. QED
      BY <1>0, <2>1, <2>2, <2>4 DEF SentSince
  <1>3. CASE UNCHANGED <<onBus, writing, quietFrom>>
    BY <1>0, <1>3 DEF SentSince
  <1>. QED
    BY <1>1, <1>2, <1>3
       DEF Next, vars, CloseSteps, IoSteps, CanSteps, OpenReader, OpenFails, Send, Recv, LoseAdapter,
           Close, CloseBusOff, CloseShutdown, CloseJoin, ReaderDrain, ReaderRead, ReaderDies, IoConfigured,
           InTake, InWrite, OutDisabled, RunEnds, Restart, Settled, RestartH753, RxTask, RxTaskH753,
           Arrive, Unplug, Replug, IoUnchanged, CanUnchanged, canSide, rest

\* What a session that listens may have sent stays at that one frame.
LEMMA QuietKept == TypeOK /\ TypeOK' /\ Quiet /\ [Next]_vars => Quiet'
  <1> SUFFICES ASSUME TypeOK, TypeOK', Quiet, [Next]_vars, Listens' PROVE listenOnly' /\ SentSince' <= 1
    BY DEF Quiet
  <1>1. CASE OpenSetMode
    <2>1. listenOnly'
      BY <1>1, Zenon DEF OpenSetMode, Listens, Listening
    <2>2. Len(onBus) \in Nat /\ Len(writing) \in Nat /\ Len(writing) <= 1
      BY LenProperties DEF TypeOK
    <2>3. onBus' = onBus /\ writing' = writing /\ quietFrom' = Len(onBus)
      BY <1>1 DEF OpenSetMode, canSide
    <2>. QED
      BY <2>1, <2>2, <2>3 DEF SentSince
  <1>2. CASE ~OpenSetMode
    <2>1. Listens
      BY <1>2, ListensKept
    <2>2. listenOnly /\ SentSince <= 1
      BY <2>1 DEF Quiet
    <2>3. listenOnly'
      BY <1>2, <2>1, <2>2, ListenOnlyKept
    <2>4. SentSince' <= SentSince
      BY <1>2, <2>2, SentKept
    <2>5. SentSince \in Int /\ SentSince' \in Int
      <3>1. /\ Len(onBus) \in Nat /\ Len(writing) \in Nat /\ quietFrom \in Nat
            /\ Len(onBus)' \in Nat /\ Len(writing)' \in Nat /\ quietFrom' \in Nat
        BY LenProperties DEF TypeOK
      <3>. QED
        BY <3>1 DEF SentSince
    <2>. QED
      BY <2>2, <2>3, <2>4, <2>5
  <1>. QED
    BY <1>1, <1>2

\* A session that only listens transmits nothing, however the mode change met the frames
\* that were queued or being written.
THEOREM ListeningIsQuiet == Spec => []ListenOnlyIsQuiet
  <1>1. Init => Quiet
    BY DEF Init, Quiet, Listens
  <1>2. TypeOK /\ Quiet => ListenOnlyIsQuiet
    <2> SUFFICES ASSUME TypeOK, Quiet, Listens PROVE Len(onBus) <= quietFrom + 1
      BY DEF ListenOnlyIsQuiet, Listens
    <2>1. Len(onBus) \in Nat /\ Len(writing) \in Nat /\ quietFrom \in Nat
      BY LenProperties DEF TypeOK
    <2>2. SentSince <= 1
      BY DEF Quiet
    <2>. QED
      BY <2>1, <2>2 DEF SentSince
  <1>. QED
    BY TypeCorrect, QuietKept, <1>1, <1>2, PTL DEF Spec

-----------------------------------------------------------------------------
(* What a session is shown: the way of a frame                             *)

\* The frames on their way to the session, those it has been shown included, and the
\* frames on their way to the bus.
Front == seen \o rxq
Back == (ep1 \o inFlight) \o toUsb
Pipe == Front \o Back
Upstream == (writing \o toCan) \o txq

\* The request to end goes no further than to the reader thread.
OnlyTx == \A c \in Range(writing) \cup Range(toCan) : c.kind = "tx"

\* Every queue keeps its order and every step of the way follows on the one before; an
\* echo is of a frame the peripheral got.
Order ==
  /\ Rising(Pipe, "data") /\ Rising(Pipe, "echo") /\ Rising(fifo, "data") /\ Rising(Upstream, "tx")
  /\ \A f \in Range(Pipe) :
       /\ f.kind = "data" => f.n <= rxCount /\ \A g \in Range(fifo) : f.n < g.n
       /\ f.kind = "echo" =>
            /\ f.n <= txCount /\ \E j \in 1..Len(onBus) : onBus[j] = f.n
            /\ \A c \in Range(Upstream) : c.kind = "tx" => f.n < c.n
  /\ \A g \in Range(fifo) : g.kind = "data" /\ g.n <= rxCount
  /\ \A c \in Range(Upstream) : c.kind = "tx" => c.n <= txCount
  /\ OnlyTx

\* Where the session thread, the reader and the bulk IN arm stand.
Stands ==
  /\ host \in {"closed", "opening"} => seen = <<>> /\ rxq = <<>> /\ reader = "none"
  /\ host \in {"closing", "asking", "joining"} => seen = <<>>
  /\ inArm = "write" => io = "run"
  /\ inArm # "write" => inFlight = <<>>
  /\ linked => attached

\* On the board that drains its queue nothing reaches the host before the drain, and what
\* is on its way after the drain belongs to the present session.
Sessions ==
  world.board = "h743" =>
    /\ restart => Range(Front) = {}
    /\ ~restart => \A f \in Range(Pipe) : f.s = session
    /\ \A f \in Range(Front) : f.s = session

\* On that board, whatever was received after a frame that is still on its way to a host
\* that is there is on its way as well, or counted as dropped.
Complete ==
  /\ \A g \in Range(fifo), n \in Nat : g.n < n /\ n <= rxCount => Has(fifo, n)
  /\ world.board = "h743" /\ linked /\ ~restart =>
       \A f \in Range(Pipe), n \in Nat :
         f.kind = "data" /\ f.n < n /\ n <= rxCount => n \in dropped \/ Has(Pipe, n) \/ Has(fifo, n)

\* What has reached the host is complete in itself.
Gapless ==
  world.board = "h743" /\ host = "open" =>
    \A f, g \in Range(Front), n \in Nat :
      f.kind = "data" /\ g.kind = "data" /\ f.n < n /\ n < g.n => n \in dropped \/ Has(Front, n)

SeenInv == Order /\ Stands /\ Sessions /\ Complete /\ Gapless

-----------------------------------------------------------------------------
(* Sequences: their elements, their order, what is cut out of them         *)

\* The elements of a sequence are those at its places.
LEMMA InRange ==
  ASSUME NEW S, NEW q \in Seq(S), NEW f
  PROVE  f \in Range(q) <=> \E i \in 1..Len(q) : f = q[i]
  BY RangeEquality

\* Appending adds one element.
LEMMA RangeAppend ==
  ASSUME NEW S, NEW q \in Seq(S), NEW f \in S
  PROVE  Range(Append(q, f)) = Range(q) \cup {f}
  <1>1. /\ Len(Append(q, f)) = Len(q) + 1 /\ Append(q, f)[Len(q) + 1] = f
        /\ \A i \in 1..Len(q) : Append(q, f)[i] = q[i]
        /\ Append(q, f) \in Seq(S) /\ Len(q) \in Nat
    BY AppendProperties, LenProperties
  <1>2. ASSUME NEW g, g \in Range(Append(q, f)) PROVE g \in Range(q) \cup {f}
    <2>0. Append(q, f) \in Seq(S)
      BY <1>1
    <2>1. PICK i \in 1..Len(Append(q, f)) : g = Append(q, f)[i]
      BY <1>2, <2>0, InRange
    <2>2. i \in 1..Len(q) \/ i = Len(q) + 1
      BY <1>1
    <2>. QED
      BY <1>1, <2>1, <2>2, InRange
  <1>3. ASSUME NEW g, g \in Range(q) PROVE g \in Range(Append(q, f))
    <2>1. PICK i \in 1..Len(q) : g = q[i]
      BY <1>3, InRange
    <2>2. i \in 1..Len(Append(q, f)) /\ g = Append(q, f)[i]
      BY <1>1, <2>1
    <2>. QED
      BY <1>1, <2>2, InRange
  <1>4. f \in Range(Append(q, f))
    <2>1. Len(q) + 1 \in 1..Len(Append(q, f))
      BY <1>1
    <2>. QED
      BY <1>1, <2>1, InRange
  <1>. QED
    BY <1>2, <1>3, <1>4

\* A sequence has its head and the elements of its tail.
LEMMA RangeTail ==
  ASSUME NEW S, NEW q \in Seq(S), q # <<>>
  PROVE  Range(q) = {Head(q)} \cup Range(Tail(q))
  <1>1. /\ Tail(q) \in Seq(S) /\ Len(Tail(q)) = Len(q) - 1 /\ Head(q) = q[1] /\ Len(q) \in Nat \ {0}
        /\ \A i \in 1..Len(Tail(q)) : Tail(q)[i] = q[i + 1]
    BY HeadTailProperties, EmptySeq
  <1>2. ASSUME NEW g, g \in Range(q) PROVE g \in {Head(q)} \cup Range(Tail(q))
    <2>1. PICK i \in 1..Len(q) : g = q[i]
      BY <1>2, InRange
    <2>2. CASE i = 1
      BY <1>1, <2>1, <2>2
    <2>3. CASE i # 1
      <3>1. i - 1 \in 1..Len(Tail(q)) /\ Tail(q)[i - 1] = g
        BY <1>1, <2>1, <2>3
      <3>. QED
        BY <1>1, <3>1, InRange
    <2>. QED
      BY <2>2, <2>3
  <1>3. ASSUME NEW g \in {Head(q)} \cup Range(Tail(q)) PROVE g \in Range(q)
    <2>1. CASE g = Head(q)
      BY <1>1, <2>1, InRange
    <2>2. CASE g \in Range(Tail(q))
      <3>0. Tail(q) \in Seq(S)
        BY <1>1
      <3>1. PICK i \in 1..Len(Tail(q)) : g = Tail(q)[i]
        BY <2>2, <3>0, InRange
      <3>2. i + 1 \in 1..Len(q) /\ g = q[i + 1]
        BY <1>1, <3>1
      <3>. QED
        BY <3>2, InRange
    <2>. QED
      BY <1>3, <2>1, <2>2
  <1>. QED
    BY <1>2, <1>3

\* The empty sequence has none.
LEMMA RangeEmpty == Range(<<>>) = {}
  <1>1. <<>> \in Seq({})
    OBVIOUS
  <1>2. Range(<<>>) \in SUBSET {}
    BY <1>1, RangeOfSeq
  <1>. QED
    BY <1>2

\* A sequence of one has one.
LEMMA RangeOne ==
  ASSUME NEW S, NEW f \in S
  PROVE  Range(<<f>>) = {f}
  <1>1. <<>> \in Seq(S) /\ Append(<<>>, f) = <<f>>
    OBVIOUS
  <1> DEFINE none == <<>>
  <1>0. none \in Seq(S)
    OBVIOUS
  <1> HIDE DEF none
  <1>3. Range(Append(none, f)) = Range(none) \cup {f}
    BY <1>0, RangeAppend
  <1>2. Range(Append(<<>>, f)) = Range(<<>>) \cup {f}
    BY <1>3 DEF none
  <1>. QED
    BY <1>1, <1>2, RangeEmpty

\* A data frame is in a queue when it is one of its elements.
LEMMA HasRange ==
  ASSUME NEW q \in Seq(Frames), NEW n
  PROVE  Has(q, n) <=> \E f \in Range(q) : f.kind = "data" /\ f.n = n
  BY InRange DEF Has

\* Two queues one after the other rise when both do and the second starts above the first.
LEMMA RisingConcat ==
  ASSUME NEW S, NEW a \in Seq(S), NEW b \in Seq(S), NEW k
  PROVE  Rising(a \o b, k) <=>
           /\ Rising(a, k) /\ Rising(b, k)
           /\ \A f \in Range(a), g \in Range(b) : f.kind = k /\ g.kind = k => f.n < g.n
  <1>1. /\ Len(a) \in Nat /\ Len(b) \in Nat /\ Len(a \o b) = Len(a) + Len(b)
        /\ \A i \in 1..Len(a) : (a \o b)[i] = a[i]
        /\ \A i \in 1..Len(b) : (a \o b)[Len(a) + i] = b[i]
    BY ConcatProperties, LenProperties
  <1>2. ASSUME Rising(a \o b, k) PROVE Rising(a, k)
    BY <1>1, <1>2 DEF Rising
  <1>3. ASSUME Rising(a \o b, k) PROVE Rising(b, k)
    <2> SUFFICES ASSUME NEW i \in 1..Len(b), NEW j \in 1..Len(b), i < j, b[i].kind = k, b[j].kind = k
                 PROVE  b[i].n < b[j].n
      BY DEF Rising
    <2>1. Len(a) + i \in 1..Len(a \o b) /\ Len(a) + j \in 1..Len(a \o b) /\ Len(a) + i < Len(a) + j
      BY <1>1
    <2>2. (a \o b)[Len(a) + i] = b[i] /\ (a \o b)[Len(a) + j] = b[j]
      BY <1>1
    <2>. QED
      BY <1>3, <2>1, <2>2 DEF Rising
  <1>4. ASSUME Rising(a \o b, k), NEW f \in Range(a), NEW g \in Range(b), f.kind = k, g.kind = k
        PROVE  f.n < g.n
    <2>1. PICK i \in 1..Len(a) : f = a[i]
      BY InRange
    <2>2. PICK j \in 1..Len(b) : g = b[j]
      BY InRange
    <2>3. i \in 1..Len(a \o b) /\ Len(a) + j \in 1..Len(a \o b) /\ i < Len(a) + j
      BY <1>1, <2>1, <2>2
    <2>4. (a \o b)[i] = f /\ (a \o b)[Len(a) + j] = g
      BY <1>1, <2>1, <2>2
    <2>. QED
      BY <1>4, <2>3, <2>4 DEF Rising
  <1>5. ASSUME Rising(a, k), Rising(b, k),
               \A f \in Range(a), g \in Range(b) : f.kind = k /\ g.kind = k => f.n < g.n
        PROVE  Rising(a \o b, k)
    <2> SUFFICES ASSUME NEW i \in 1..Len(a \o b), NEW j \in 1..Len(a \o b), i < j,
                        (a \o b)[i].kind = k, (a \o b)[j].kind = k
                 PROVE  (a \o b)[i].n < (a \o b)[j].n
      BY DEF Rising
    <2>1. CASE j <= Len(a)
      <3>1. i \in 1..Len(a) /\ j \in 1..Len(a)
        BY <1>1, <2>1
      <3>. QED
        BY <1>1, <1>5, <3>1 DEF Rising
    <2>2. CASE i > Len(a)
      <3>1. i - Len(a) \in 1..Len(b) /\ j - Len(a) \in 1..Len(b) /\ i - Len(a) < j - Len(a)
        BY <1>1, <2>2
      <3>2. (a \o b)[i] = b[i - Len(a)] /\ (a \o b)[j] = b[j - Len(a)]
        BY <2>2, <3>1, ConcatProperties
      <3>. QED
        BY <1>5, <3>1, <3>2 DEF Rising
    <2>3. CASE i <= Len(a) /\ j > Len(a)
      <3>1. i \in 1..Len(a) /\ j - Len(a) \in 1..Len(b)
        BY <1>1, <2>3
      <3>2. (a \o b)[i] = a[i] /\ (a \o b)[j] = b[j - Len(a)]
        BY <2>3, <3>1, ConcatProperties
      <3>3. a[i] \in Range(a) /\ b[j - Len(a)] \in Range(b)
        BY <3>1, InRange
      <3>. QED
        BY <1>5, <3>2, <3>3
    <2>. QED
      BY <1>1, <2>1, <2>2, <2>3
  <1>. QED
    BY <1>2, <1>3, <1>4, <1>5

\* Nothing is out of order in a queue of at most one.
LEMMA RisingShort ==
  ASSUME NEW S, NEW f \in S, NEW k
  PROVE  Rising(<<>>, k) /\ Rising(<<f>>, k)
  BY DEF Rising

\* A queue rises on when a higher number is appended.
LEMMA RisingAppend ==
  ASSUME NEW S, NEW q \in Seq(S), NEW f \in S, NEW k, Rising(q, k),
         f.kind = k => \A g \in Range(q) : g.kind = k => g.n < f.n
  PROVE  Rising(Append(q, f), k)
  <1>1. Append(q, f) = q \o <<f>> /\ <<f>> \in Seq(S)
    BY AppendIsConcat
  <1>2. Range(<<f>>) = {f}
    BY RangeOne
  <1>3. Rising(<<f>>, k)
    BY RisingShort
  <1>4. Rising(q \o <<f>>, k)
    BY <1>1, <1>2, <1>3, RisingConcat
  <1>. QED
    BY <1>1, <1>4

\* p is what is left of q: nothing new in it, and the order kept.
Kinds == {"data", "echo", "tx"}
Thinner(p, q) == Range(p) \subseteq Range(q) /\ \A k \in Kinds : Rising(q, k) => Rising(p, k)

\* Nothing lost, ...
LEMMA ThinSelf == \A q : Thinner(q, q)
  BY DEF Thinner

\* ... everything lost, ...
LEMMA ThinEmpty == \A q : Thinner(<<>>, q)
  <1>1. Len(<<>>) = 0
    OBVIOUS
  <1>. QED
    BY <1>1, RangeEmpty DEF Thinner, Rising

\* ... the head lost, ...
LEMMA ThinTail ==
  ASSUME NEW S, NEW q \in Seq(S), q # <<>>
  PROVE  Thinner(Tail(q), q)
  <1>1. /\ Len(Tail(q)) = Len(q) - 1 /\ Len(q) \in Nat \ {0}
        /\ \A i \in 1..Len(Tail(q)) : Tail(q)[i] = q[i + 1]
    BY HeadTailProperties, EmptySeq
  <1>2. ASSUME NEW k \in Kinds, Rising(q, k) PROVE Rising(Tail(q), k)
    BY <1>1, <1>2 DEF Rising
  <1>. QED
    BY <1>2, RangeTail DEF Thinner

\* ... something lost in both of two queues.
LEMMA ThinConcat ==
  ASSUME NEW S, NEW a \in Seq(S), NEW b \in Seq(S), NEW c \in Seq(S), NEW d \in Seq(S),
         Thinner(a, c), Thinner(b, d)
  PROVE  Thinner(a \o b, c \o d)
  <1>1. Range(a \o b) = Range(a) \cup Range(b) /\ Range(c \o d) = Range(c) \cup Range(d)
    BY RangeConcatenation
  <1>2. ASSUME NEW k \in Kinds, Rising(c \o d, k) PROVE Rising(a \o b, k)
    BY <1>2, RisingConcat DEF Thinner
  <1>. QED
    BY <1>1, <1>2 DEF Thinner

\* The head of a queue goes to the end of the queue before it.
LEMMA Shift ==
  ASSUME NEW S, NEW a \in Seq(S), NEW b \in Seq(S), b # <<>>
  PROVE  Append(a, Head(b)) \o Tail(b) = a \o b
  <1>1. Head(b) \in S /\ Tail(b) \in Seq(S) /\ <<Head(b)>> \in Seq(S)
    BY HeadTail, OneFrame
  <1>2. b = <<Head(b)>> \o Tail(b)
    <2>1. Len(b) = 1 + Len(Tail(b)) /\ \A i \in 1..Len(Tail(b)) : Tail(b)[i] = b[i + 1]
      BY HeadTailProperties, LenProperties
    <2>. QED
      OBVIOUS
  <1>3. Append(a, Head(b)) = a \o <<Head(b)>>
    BY <1>1, AppendIsConcat
  <1>. QED
    BY <1>1, <1>2, <1>3, ConcatAssociative

\* Appending to the second of two queues appends to both.
LEMMA AppendOut ==
  ASSUME NEW S, NEW a \in Seq(S), NEW b \in Seq(S), NEW f \in S
  PROVE  a \o Append(b, f) = Append(a \o b, f)
  <1>1. Append(b, f) = b \o <<f>> /\ <<f>> \in Seq(S) /\ a \o b \in Seq(S)
    BY AppendIsConcat, ConcatProperties
  <1>. QED
    BY <1>1, ConcatAssociative, AppendIsConcat

-----------------------------------------------------------------------------
(* What the steps do to the frames on their way                            *)

\* The way is made of frames, the way to the bus of commands.
LEMMA WayTypes ==
  TypeOK => /\ Front \in Seq(Frames) /\ Back \in Seq(Frames) /\ Pipe \in Seq(Frames)
            /\ ep1 \o inFlight \in Seq(Frames) /\ inFlight \o toUsb \in Seq(Frames)
            /\ writing \o toCan \in Seq(Commands) /\ Upstream \in Seq(Commands)
  BY DEF TypeOK, Front, Back, Pipe, Upstream

\* A frame shown to the session, a frame read by the reader thread.
LEMMA RecvWay == TypeOK /\ Recv => Front' = Front
  <1> SUFFICES ASSUME TypeOK, Recv PROVE Front' = Front
    OBVIOUS
  <1>1. rxq # <<>> /\ seen' = Append(seen, Head(rxq)) /\ rxq' = Tail(rxq)
    BY DEF Recv
  <1>2. seen \in Seq(Frames) /\ rxq \in Seq(Frames)
    BY DEF TypeOK
  <1>. QED
    BY <1>1, <1>2, Shift DEF Front

Reads == ep1 # <<>> /\ ~restart /\ rxq' = Append(rxq, ep1[1]) /\ ep1' = <<>>

\* A frame read moves from behind the host to the host.
LEMMA ReadWay ==
  TypeOK /\ ReaderRead /\ Reads => /\ ep1[1] \in Frames /\ Front' = Append(Front, ep1[1])
                                  /\ Pipe' = Pipe /\ Pipe = Front' \o (inFlight \o toUsb)
  <1> SUFFICES ASSUME TypeOK, ReaderRead, Reads
               PROVE  /\ ep1[1] \in Frames /\ Front' = Append(Front, ep1[1])
                      /\ Pipe' = Pipe /\ Pipe = Front' \o (inFlight \o toUsb)
    OBVIOUS
  <1> DEFINE x == ep1[1]
  <1>1. /\ seen \in Seq(Frames) /\ rxq \in Seq(Frames) /\ ep1 \in Seq(Frames) /\ Len(ep1) <= 1
        /\ inFlight \in Seq(Frames) /\ toUsb \in Seq(Frames)
    BY DEF TypeOK
  <1>2. ep1 # <<>> /\ rxq' = Append(rxq, x) /\ ep1' = <<>>
    BY DEF Reads
  <1>3. seen' = seen /\ inFlight' = inFlight /\ toUsb' = toUsb
    BY DEF ReaderRead, canSide
  <1>4. x \in Frames /\ ep1 = <<x>>
    BY <1>1, <1>2, Single
  <1> HIDE DEF x
  <1>5. Front' = Append(Front, x)
    BY <1>1, <1>2, <1>3, <1>4, AppendOut DEF Front
  <1>6. Back = <<x>> \o (inFlight \o toUsb) /\ <<x>> \in Seq(Frames)
    BY <1>1, <1>4, ConcatAssociative DEF Back
  <1>7. Back' = inFlight \o toUsb
    BY <1>1, <1>2, <1>3, ConcatEmptySeq DEF Back
  <1>8. Front \in Seq(Frames) /\ inFlight \o toUsb \in Seq(Frames)
    BY WayTypes
  <1>9. Front' \o (inFlight \o toUsb) = Front \o (<<x>> \o (inFlight \o toUsb))
    BY <1>4, <1>5, <1>6, <1>8, AppendIsConcat, ConcatAssociative
  <1>. QED
    BY <1>4, <1>5, <1>6, <1>7, <1>9 DEF Pipe, x

\* A frame taken from the queue, a frame written into the endpoint.
LEMMA TakeWay == TypeOK /\ Stands /\ InTake => Back' = Back
  <1> SUFFICES ASSUME TypeOK, Stands, InTake PROVE Back' = Back
    OBVIOUS
  <1>1. ep1 \in Seq(Frames) /\ toUsb \in Seq(Frames)
    BY DEF TypeOK
  <1>2. toUsb # <<>> /\ inFlight' = <<Head(toUsb)>> /\ toUsb' = Tail(toUsb) /\ ep1' = ep1 /\ inFlight = <<>>
    BY DEF InTake, Stands
  <1>3. Head(toUsb) \in Frames
    BY <1>1, <1>2, HeadTail
  <1>4. Append(ep1, Head(toUsb)) \o Tail(toUsb) = ep1 \o toUsb
    BY <1>1, <1>2, Shift
  <1>5. ep1 \o <<Head(toUsb)>> = Append(ep1, Head(toUsb)) /\ ep1 \o <<>> = ep1
    BY <1>1, <1>3, AppendIsConcat, ConcatEmptySeq
  <1>. QED
    BY <1>2, <1>4, <1>5 DEF Back

\* A frame written moves on, or is lost when the cable was pulled.
LEMMA WriteWay == TypeOK /\ InWrite => IF attached THEN Back' = Back ELSE Thinner(Back', Back)
  <1> SUFFICES ASSUME TypeOK, InWrite PROVE IF attached THEN Back' = Back ELSE Thinner(Back', Back)
    OBVIOUS
  <1>1. ep1 \in Seq(Frames) /\ inFlight \in Seq(Frames) /\ toUsb \in Seq(Frames) /\ <<>> \in Seq(Frames)
    BY DEF TypeOK
  <1>2. inFlight' = <<>> /\ toUsb' = toUsb
    BY DEF InWrite, canSide, NoFrame
  <1>3. CASE attached
    <2>1. ep1 = <<>> /\ ep1' = inFlight
      BY <1>3 DEF InWrite, NoFrame
    <2>. QED
      BY <1>1, <1>2, <1>3, <2>1, ConcatEmptySeq DEF Back
  <1>4. CASE ~attached
    <2>1. ep1' = ep1
      BY <1>4 DEF InWrite
    <2>2. Thinner(ep1 \o <<>>, ep1 \o inFlight)
      BY <1>1, ThinSelf, ThinEmpty, ThinConcat
    <2>3. ep1 \o <<>> \in Seq(Frames) /\ ep1 \o inFlight \in Seq(Frames)
      BY <1>1, ConcatProperties
    <2>4. Thinner((ep1 \o <<>>) \o toUsb, (ep1 \o inFlight) \o toUsb)
      BY <1>1, <2>2, <2>3, ThinSelf, ThinConcat
    <2>. QED
      BY <1>2, <1>4, <2>1, <2>4 DEF Back
  <1>. QED
    BY <1>3, <1>4

\* An unplugged cable, a restart of the endpoint, a closed session.
LEMMA BackCut ==
  ASSUME NEW e \in Seq(Frames), NEW i \in Seq(Frames), NEW t \in Seq(Frames),
         NEW e1 \in Seq(Frames), NEW i1 \in Seq(Frames), NEW t1 \in Seq(Frames),
         Thinner(e1, e), Thinner(i1, i), Thinner(t1, t)
  PROVE  Thinner((e1 \o i1) \o t1, (e \o i) \o t)
  <1>1. e1 \o i1 \in Seq(Frames) /\ e \o i \in Seq(Frames)
    BY ConcatProperties
  <1>2. Thinner(e1 \o i1, e \o i)
    BY ThinConcat
  <1>. QED
    BY <1>1, <1>2, ThinConcat

CutSteps ==
  LoseAdapter \/ Close \/ CloseJoin \/ Restart \/ RestartH753 \/ Unplug

\* The steps that cut the way only lose frames.
LEMMA CutWay == TypeOK /\ TypeOK' /\ CutSteps => Thinner(Front', Front) /\ Thinner(Back', Back)
  <1> SUFFICES ASSUME TypeOK, TypeOK', CutSteps PROVE Thinner(Front', Front) /\ Thinner(Back', Back)
    OBVIOUS
  <1>1. /\ seen \in Seq(Frames) /\ rxq \in Seq(Frames) /\ ep1 \in Seq(Frames) /\ inFlight \in Seq(Frames)
        /\ toUsb \in Seq(Frames)
    BY DEF TypeOK
  <1>2. /\ seen' \in Seq(Frames) /\ rxq' \in Seq(Frames) /\ ep1' \in Seq(Frames) /\ inFlight' \in Seq(Frames)
        /\ toUsb' \in Seq(Frames)
    BY DEF TypeOK
  <1>3. /\ seen' \in {seen, <<>>} /\ rxq' \in {rxq, <<>>} /\ ep1' \in {ep1, <<>>}
        /\ inFlight' \in {inFlight, <<>>} /\ toUsb' \in {toUsb, <<>>}
    BY DEF CutSteps, LoseAdapter, Close, CloseJoin, Restart, RestartH753, Unplug, IoUnchanged, adapter, usb,
           canSide, NoFrame
  <1>4. ASSUME NEW q \in Seq(Frames), NEW p \in {q, <<>>} PROVE Thinner(p, q)
    BY ThinSelf, ThinEmpty
  <1>5. /\ Thinner(seen', seen) /\ Thinner(rxq', rxq) /\ Thinner(ep1', ep1) /\ Thinner(inFlight', inFlight)
        /\ Thinner(toUsb', toUsb)
    BY <1>1, <1>3, <1>4
  <1>6. Thinner(Front', Front)
    BY <1>1, <1>2, <1>5, ThinConcat DEF Front
  <1>7. Thinner(Back', Back)
    BY <1>1, <1>2, <1>5, BackCut DEF Back
  <1>. QED
    BY <1>6, <1>7

\* A frame of the bus or an echo enters the queue, unless that is full.
LEMMA EnterWay ==
  ASSUME TypeOK, NEW f \in Frames, Front' = Front, toUsb' = Push(toUsb, f, ToUsbCap),
         UNCHANGED <<ep1, inFlight>>
  PROVE  IF Len(toUsb) < ToUsbCap THEN Pipe' = Append(Pipe, f) ELSE Pipe' = Pipe
  <1>1. Front \in Seq(Frames) /\ Back \in Seq(Frames) /\ ep1 \o inFlight \in Seq(Frames) /\ toUsb \in Seq(Frames)
    BY WayTypes DEF TypeOK
  <1>2. CASE Len(toUsb) < ToUsbCap
    <2>1. toUsb' = Append(toUsb, f)
      BY <1>2 DEF Push
    <2>2. Back' = Append(Back, f)
      BY <1>1, <2>1, AppendOut DEF Back
    <2>3. Front \o Append(Back, f) = Append(Front \o Back, f)
      BY <1>1, AppendOut
    <2>. QED
      BY <1>2, <2>2, <2>3 DEF Pipe
  <1>3. CASE ~(Len(toUsb) < ToUsbCap)
    BY <1>3 DEF Push, Back, Pipe
  <1>. QED
    BY <1>2, <1>3

\* Commands only ever leave the way to the bus, or move on.
LEMMA UpstreamCut ==
  ASSUME NEW w \in Seq(Commands), NEW c \in Seq(Commands), NEW x \in Seq(Commands),
         NEW w1 \in Seq(Commands), NEW c1 \in Seq(Commands), NEW x1 \in Seq(Commands),
         Thinner(w1, w), Thinner(c1, c), Thinner(x1, x)
  PROVE  Thinner((w1 \o c1) \o x1, (w \o c) \o x)
  <1>1. w1 \o c1 \in Seq(Commands) /\ w \o c \in Seq(Commands)
    BY ConcatProperties
  <1>2. Thinner(w1 \o c1, w \o c)
    BY ThinConcat
  <1>. QED
    BY <1>1, <1>2, ThinConcat

\* A frame taken for transmission moves on, or is dropped in listen-only mode.
LEMMA TxTakeWay ==
  TypeOK /\ TypeOK' /\ OnlyTx /\ TxTake => Thinner(Upstream', Upstream) /\ OnlyTx'
  <1> SUFFICES ASSUME TypeOK, TypeOK', OnlyTx, TxTake PROVE Thinner(Upstream', Upstream) /\ OnlyTx'
    OBVIOUS
  <1>1. /\ toCan \in Seq(Commands) /\ txq \in Seq(Commands) /\ <<>> \in Seq(Commands)
        /\ writing' \in Seq(Commands) /\ toCan' \in Seq(Commands)
    BY DEF TypeOK
  <1>2. /\ writing = <<>> /\ toCan # <<>> /\ toCan' = Tail(toCan) /\ txq' = txq
        /\ writing' = <<>> \/ writing' = <<Head(toCan)>>
    BY DEF TxTake, NoFrame, CanUnchanged, adapter
  <1>3. Range(toCan) = {Head(toCan)} \cup Range(toCan') /\ Head(toCan) \in Commands
    BY <1>1, <1>2, RangeTail, HeadTail
  <1>4. Range(writing') \subseteq {Head(toCan)}
    <2>1. CASE writing' = <<>>
      BY <2>1, RangeEmpty
    <2>2. CASE writing' = <<Head(toCan)>>
      <3> SUFFICES ASSUME NEW g, g \in Range(writing') PROVE g = Head(toCan)
        OBVIOUS
      <3>1. PICK i \in 1..Len(writing') : g = writing'[i]
        BY <1>1, InRange
      <3>. QED
        BY <2>2, <3>1
    <2>. QED
      BY <1>2, <2>1, <2>2
  <1>5. OnlyTx'
    BY <1>3, <1>4 DEF OnlyTx
  <1>6. CASE writing' = <<>>
    <2>1. Thinner(writing', writing) /\ Thinner(toCan', toCan) /\ Thinner(txq', txq)
      BY <1>1, <1>2, <1>6, ThinSelf, ThinTail
    <2>. QED
      BY <1>1, <1>2, <1>5, <2>1, UpstreamCut DEF Upstream
  <1>7. CASE writing' = <<Head(toCan)>>
    <2>1. Append(<<>>, Head(toCan)) = writing'
      BY <1>3, <1>7
    <2>2. writing' \o toCan' = writing \o toCan
      BY <1>1, <1>2, <2>1, Shift
    <2>3. Upstream' = Upstream
      BY <1>2, <2>2 DEF Upstream
    <2>. QED
      BY <1>5, <2>3, ThinSelf
  <1>. QED
    BY <1>2, <1>5, <1>6, <1>7

\* A command the reader thread takes moves on, is lost or was the request to end.
LEMMA DrainWay ==
  TypeOK /\ TypeOK' /\ OnlyTx /\ ReaderDrain => Thinner(Upstream', Upstream) /\ OnlyTx'
  <1> SUFFICES ASSUME TypeOK, TypeOK', OnlyTx, ReaderDrain PROVE Thinner(Upstream', Upstream) /\ OnlyTx'
    OBVIOUS
  <1>1. /\ writing \in Seq(Commands) /\ toCan \in Seq(Commands) /\ txq \in Seq(Commands)
        /\ txq' \in Seq(Commands) /\ writing' = writing
    BY DEF TypeOK, ReaderDrain
  <1>2. CASE txq' = txq /\ toCan' = toCan
    BY <1>1, <1>2, ThinSelf DEF Upstream, OnlyTx
  <1>3. CASE txq # <<>> /\ txq' = Tail(txq) /\ toCan' = toCan
    BY <1>1, <1>3, ThinSelf, ThinTail, UpstreamCut DEF Upstream, OnlyTx
  <1>4. CASE txq # <<>> /\ txq' = Tail(txq) /\ toCan' = Append(toCan, Head(txq)) /\ Head(txq).kind # "shutdown"
    <2>1. Head(txq) \in Commands
      BY <1>1, <1>4, HeadTail
    <2>2. Head(txq).kind = "tx"
      BY <1>4, <2>1 DEF Commands
    <2>3. OnlyTx'
      BY <1>1, <1>4, <2>1, <2>2, RangeAppend DEF OnlyTx
    <2>4. writing' \o toCan' = Append(writing \o toCan, Head(txq)) /\ writing \o toCan \in Seq(Commands)
      BY <1>1, <1>4, <2>1, AppendOut, ConcatProperties
    <2>5. Upstream' = Upstream
      BY <1>1, <1>4, <2>4, Shift DEF Upstream
    <2>. QED
      BY <2>3, <2>5, ThinSelf
  <1>. QED
    BY <1>2, <1>3, <1>4 DEF ReaderDrain, Push

\* A write that ends takes its frame off the way.
LEMMA WrittenWay ==
  TypeOK /\ OnlyTx /\ (TxWritten \/ TxTimeout) => Thinner(Upstream', Upstream) /\ OnlyTx'
  <1> SUFFICES ASSUME TypeOK, OnlyTx, TxWritten \/ TxTimeout PROVE Thinner(Upstream', Upstream) /\ OnlyTx'
    OBVIOUS
  <1>1. /\ writing \in Seq(Commands) /\ toCan \in Seq(Commands) /\ txq \in Seq(Commands) /\ <<>> \in Seq(Commands)
        /\ writing' = <<>> /\ toCan' = toCan /\ txq' = txq
    BY DEF TypeOK, TxWritten, TxTimeout, CanUnchanged, adapter, NoFrame
  <1>2. Thinner(writing', writing) /\ Thinner(toCan', toCan) /\ Thinner(txq', txq)
    BY <1>1, ThinEmpty, ThinSelf
  <1>3. Thinner(Upstream', Upstream)
    BY <1>1, <1>2, UpstreamCut DEF Upstream
  <1>4. Range(writing') = {} /\ Range(toCan') = Range(toCan)
    BY <1>1, RangeEmpty
  <1>. QED
    BY <1>3, <1>4 DEF OnlyTx

\* Steps that only move frames along or lose some keep the order.
LEMMA OrderThin ==
  /\ Order /\ Thinner(Pipe', Pipe) /\ Thinner(Upstream', Upstream) /\ OnlyTx'
  /\ UNCHANGED <<fifo, rxCount, txCount, onBus>>
  => Order'
  <1> SUFFICES ASSUME Order, Thinner(Pipe', Pipe), Thinner(Upstream', Upstream), OnlyTx',
                      UNCHANGED <<fifo, rxCount, txCount, onBus>>
               PROVE  Order'
    OBVIOUS
  <1>1. Rising(Pipe', "data") /\ Rising(Pipe', "echo") /\ Rising(fifo', "data") /\ Rising(Upstream', "tx")
    BY DEF Order, Thinner, Kinds
  <1>2. Range(Pipe') \subseteq Range(Pipe) /\ Range(Upstream') \subseteq Range(Upstream)
    BY DEF Thinner
  <1>. QED
    BY <1>1, <1>2 DEF Order

\* What is lost in a part of the way is lost on the way.
LEMMA PipeThin ==
  TypeOK /\ TypeOK' /\ Thinner(Front', Front) /\ Thinner(Back', Back) => Thinner(Pipe', Pipe)
  <1> SUFFICES ASSUME TypeOK, TypeOK', Thinner(Front', Front), Thinner(Back', Back) PROVE Thinner(Pipe', Pipe)
    OBVIOUS
  <1>1. Front \in Seq(Frames) /\ Back \in Seq(Frames) /\ Front' \in Seq(Frames) /\ Back' \in Seq(Frames)
    BY WayTypes DEF TypeOK, Front, Back
  <1>. QED
    BY <1>1, ThinConcat DEF Pipe

\* A command enters the way to the bus, with a new number if it is a frame.
LEMMA OrderSend == TypeOK /\ TypeOK' /\ Order /\ (Send \/ CloseShutdown) => Order'
  <1> SUFFICES ASSUME TypeOK, TypeOK', Order, Send \/ CloseShutdown PROVE Order'
    OBVIOUS
  <1> DEFINE cmd == IF Send THEN [kind |-> "tx", n |-> txCount + 1, s |-> session] ELSE Shutdown
  <1>0. txCount \in Nat /\ txCount' \in Nat /\ session \in Nat
    BY DEF TypeOK
  <1>1. cmd \in Commands /\ (cmd.kind = "tx" => cmd.n = txCount' /\ txCount' = txCount + 1)
    <2>1. CASE Send
      BY <1>0, <2>1 DEF Commands, Send
    <2>2. CASE ~Send
      BY <2>2, ShutdownType DEF Shutdown
    <2>. QED
      BY <2>1, <2>2
  <1>2. txCount' >= txCount
    BY <1>0 DEF Send, CloseShutdown, rest
  <1>3. /\ UNCHANGED <<seen, rxq, ep1, inFlight, toUsb, fifo, rxCount, onBus, writing, toCan>>
        /\ txq' = txq \/ txq' = Append(txq, cmd)
    BY DEF Send, CloseShutdown, usb, canSide, Push
  <1> HIDE DEF cmd
  <1>4. Pipe' = Pipe /\ OnlyTx'
    BY <1>3 DEF Pipe, Front, Back, OnlyTx, Order
  <1>5. Upstream' = Upstream \/ Upstream' = Append(Upstream, cmd)
    <2>1. writing \o toCan \in Seq(Commands) /\ txq \in Seq(Commands)
      BY WayTypes DEF TypeOK
    <2>2. cmd \in Commands
      BY <1>1
    <2>3. (writing \o toCan) \o Append(txq, cmd) = Append((writing \o toCan) \o txq, cmd)
      BY <2>1, <2>2, AppendOut
    <2>. QED
      BY <1>3, <2>3 DEF Upstream
  <1>6. Upstream \in Seq(Commands) /\ Upstream' \in Seq(Commands)
    <2>1. Upstream \in Seq(Commands)
      BY WayTypes
    <2>2. cmd \in Commands
      BY <1>1
    <2>. QED
      BY <1>5, <2>1, <2>2, AppendProperties
  <1>7. /\ \A c \in Range(Upstream) : c.kind = "tx" => c.n <= txCount
        /\ Range(Upstream) \subseteq Commands /\ Range(Pipe) \subseteq Frames
    BY <1>6, WayTypes, RangeOfSeq DEF Order
  <1>8. Rising(Upstream', "tx")
    <2>1. CASE Upstream' = Append(Upstream, cmd)
      <3>1. cmd.kind = "tx" => \A c \in Range(Upstream) : c.kind = "tx" => c.n < cmd.n
        BY <1>0, <1>1, <1>7 DEF Commands
      <3>. QED
        BY <1>1, <1>6, <2>1, <3>1, RisingAppend DEF Order
    <2>. QED
      BY <1>5, <2>1 DEF Order
  <1>9. ASSUME NEW c \in Range(Upstream'), c.kind = "tx"
        PROVE  c.n <= txCount' /\ (c \in Range(Upstream) \/ c.n = txCount + 1)
    <2>1. c \in Range(Upstream) \/ c = cmd
      <3>1. cmd \in Commands
        BY <1>1
      <3>2. Range(Append(Upstream, cmd)) = Range(Upstream) \cup {cmd}
        BY <1>6, <3>1, RangeAppend
      <3>. QED
        BY <1>5, <3>2
    <2>2. CASE c \in Range(Upstream)
      BY <1>0, <1>2, <1>7, <1>9, <2>2 DEF Commands
    <2>3. CASE c = cmd
      BY <1>0, <1>1, <1>9, <2>3
    <2>. QED
      BY <2>1, <2>2, <2>3
  <1>10. ASSUME NEW f \in Range(Pipe), f.kind = "echo", NEW c \in Range(Upstream'), c.kind = "tx"
         PROVE  f.n <= txCount' /\ f.n < c.n
    <2>1. f.n <= txCount /\ f.n \in Nat
      BY <1>7, <1>10 DEF Order, Frames
    <2>. QED
      BY <1>0, <1>2, <1>9, <1>10, <2>1 DEF Order
  <1>11. ASSUME NEW f \in Range(Pipe), f.kind = "echo" PROVE f.n <= txCount'
    <2>1. f.n <= txCount /\ f.n \in Nat
      BY <1>7, <1>11 DEF Order, Frames
    <2>. QED
      BY <1>0, <1>2, <2>1
  <1>. QED
    BY <1>3, <1>4, <1>8, <1>9, <1>10, <1>11 DEF Order

\* The frame at the head of the peripheral's queue is older than the others.
LEMMA HeadLeast ==
  TypeOK /\ Order /\ fifo # <<>> => \A g \in Range(Tail(fifo)) : Head(fifo).n < g.n
  <1> SUFFICES ASSUME TypeOK, Order, fifo # <<>> PROVE \A g \in Range(Tail(fifo)) : Head(fifo).n < g.n
    OBVIOUS
  <1>1. fifo \in Seq(Frames)
    BY DEF TypeOK
  <1>2. Head(fifo) \in Frames /\ Range(fifo) = {Head(fifo)} \cup Range(Tail(fifo))
    BY <1>1, HeadTail, RangeTail
  <1>3. fifo = <<Head(fifo)>> \o Tail(fifo) /\ <<Head(fifo)>> \in Seq(Frames) /\ Tail(fifo) \in Seq(Frames)
    <2>1. Append(<<>>, Head(fifo)) \o Tail(fifo) = <<>> \o fifo
      BY <1>1, Shift
    <2>2. Append(<<>>, Head(fifo)) = <<Head(fifo)>> /\ <<>> \o fifo = fifo
      BY <1>1, ConcatEmptySeq
    <2>. QED
      BY <1>1, <1>2, <2>1, <2>2, HeadTail
  <1>4. Rising(<<Head(fifo)>> \o Tail(fifo), "data")
    BY <1>3 DEF Order
  <1>5. \A h \in Range(<<Head(fifo)>>), g \in Range(Tail(fifo)) : h.kind = "data" /\ g.kind = "data" => h.n < g.n
    BY <1>3, <1>4, RisingConcat
  <1>6. Head(fifo) \in Range(<<Head(fifo)>>)
    BY <1>2, RangeOne
  <1>. QED
    BY <1>2, <1>5, <1>6 DEF Order

\* A received frame is taken from the peripheral: it is the next one of the bus.
LEMMA OrderRx ==
  ASSUME TypeOK, TypeOK', Order, fifo # <<>>, fifo' = Tail(fifo), Front' = Front,
         toUsb' = Push(toUsb, [Head(fifo) EXCEPT !.s = session], ToUsbCap),
         UNCHANGED <<ep1, inFlight, writing, toCan, txq, rxCount, txCount, onBus>>
  PROVE  Order'
  <1> DEFINE f == [Head(fifo) EXCEPT !.s = session]
  <1>1. fifo \in Seq(Frames) /\ session \in Nat /\ Pipe \in Seq(Frames)
    BY WayTypes DEF TypeOK
  <1>2. Head(fifo) \in Frames /\ Range(fifo) = {Head(fifo)} \cup Range(fifo')
    BY <1>1, HeadTail, RangeTail
  <1>3. f \in Frames /\ f.n = Head(fifo).n /\ f.kind = "data"
    <2>1. Head(fifo).kind = "data"
      BY <1>2 DEF Order
    <2>. QED
      BY <1>1, <1>2, <2>1 DEF Frames
  <1> HIDE DEF f
  <1>4. Pipe' = Append(Pipe, f) \/ Pipe' = Pipe
    <2>1. toUsb' = Push(toUsb, f, ToUsbCap)
      BY DEF f
    <2>. QED
      BY <1>3, <2>1, EnterWay
  <1>5. \A g \in Range(fifo') : f.n < g.n
    BY <1>3, HeadLeast
  <1>6. Rising(fifo', "data")
    BY <1>1, ThinTail DEF Thinner, Kinds, Order
  <1>7. Rising(Pipe', "data") /\ Rising(Pipe', "echo")
    <2>1. \A g \in Range(Pipe) : g.kind = "data" => g.n < f.n
      BY <1>2, <1>3 DEF Order
    <2>2. CASE Pipe' = Append(Pipe, f)
      BY <1>1, <1>3, <2>1, <2>2, RisingAppend DEF Order
    <2>. QED
      BY <1>4, <2>2 DEF Order
  <1>8. Range(Pipe') \subseteq Range(Pipe) \cup {f}
    BY <1>1, <1>3, <1>4, RangeAppend
  <1>9. Upstream' = Upstream /\ OnlyTx'
    BY DEF Upstream, OnlyTx, Order
  <1>10. ASSUME NEW g \in Range(Pipe')
         PROVE  /\ g.kind = "data" => g.n <= rxCount' /\ \A h \in Range(fifo') : g.n < h.n
                /\ g.kind = "echo" =>
                     /\ g.n <= txCount' /\ \E j \in 1..Len(onBus') : onBus'[j] = g.n
                     /\ \A c \in Range(Upstream') : c.kind = "tx" => g.n < c.n
    <2>1. CASE g \in Range(Pipe)
      BY <1>2, <1>9, <2>1 DEF Order
    <2>2. CASE g = f
      BY <1>2, <1>3, <1>5, <2>2 DEF Order
    <2>. QED
      BY <1>8, <2>1, <2>2
  <1>. QED
    BY <1>2, <1>6, <1>7, <1>9, <1>10 DEF Order

\* An echo enters the queue when the peripheral has got its frame.
LEMMA OrderWritten == TypeOK /\ TypeOK' /\ Order /\ TxWritten => Order'
  <1> SUFFICES ASSUME TypeOK, TypeOK', Order, TxWritten PROVE Order'
    OBVIOUS
  <1> DEFINE f == [kind |-> "echo", n |-> writing[1].n, at |-> Stamp, s |-> session]
  <1>1. /\ writing \in Seq(Commands) /\ Len(writing) <= 1 /\ writing # <<>> /\ writing' = <<>>
        /\ toCan \in Seq(Commands) /\ txq \in Seq(Commands) /\ Pipe \in Seq(Frames) /\ session \in Nat
        /\ onBus \in Seq(Nat)
    BY WayTypes DEF TypeOK, TxWritten, NoFrame
  <1>2. writing[1] \in Commands /\ writing = <<writing[1]>> /\ writing[1].n \in Nat
    <2>1. writing[1] \in Commands /\ writing = <<writing[1]>>
      BY <1>1, Single
    <2>. QED
      BY <2>1 DEF Commands
  <1>3. f \in Frames /\ f.kind = "echo" /\ f.n = writing[1].n
    BY <1>1, <1>2, StampRange DEF Frames
  <1>4. UNCHANGED <<toCan, txq, seen, rxq, ep1, inFlight, fifo, rxCount, txCount>> /\ toUsb' = Push(toUsb, f, ToUsbCap)
    BY DEF TxWritten, CanUnchanged, adapter, usb, rest
  <1> HIDE DEF f
  <1>5. Pipe' = Append(Pipe, f) \/ Pipe' = Pipe
    BY <1>3, <1>4, EnterWay DEF Front
  <1>6. Thinner(Upstream', Upstream) /\ OnlyTx'
    BY WrittenWay DEF Order
  <1>7. writing[1] \in Range(Upstream) /\ writing[1].kind = "tx"
    <2>1. writing[1] \in Range(writing)
      BY <1>1, InRange, HeadTail
    <2>2. Range(Upstream) = (Range(writing) \cup Range(toCan)) \cup Range(txq)
      <3>1. writing \o toCan \in Seq(Commands)
        BY WayTypes
      <3>2. Range(writing \o toCan) = Range(writing) \cup Range(toCan)
        BY <1>1, RangeConcatenation
      <3>3. Range((writing \o toCan) \o txq) = Range(writing \o toCan) \cup Range(txq)
        <4>1. txq \in Seq(Commands)
          BY <1>1
        <4>. QED
          BY <3>1, <4>1, RangeConcatenation
      <3>. QED
        BY <3>2, <3>3 DEF Upstream
    <2>. QED
      BY <2>1, <2>2 DEF Order, OnlyTx
  <1>8. \A c \in Range(Upstream') : c.kind = "tx" => f.n < c.n
    <2>1. Upstream = writing \o (toCan \o txq) /\ Upstream' = toCan \o txq /\ toCan \o txq \in Seq(Commands)
      <3>1. (writing \o toCan) \o txq = writing \o (toCan \o txq)
        BY <1>1, ConcatAssociative
      <3>2. <<>> \o toCan = toCan /\ toCan \o txq \in Seq(Commands)
        BY <1>1, ConcatEmptySeq, ConcatProperties
      <3>. QED
        BY <1>1, <1>4, <3>1, <3>2 DEF Upstream
    <2>2. Rising(writing \o (toCan \o txq), "tx")
      BY <2>1 DEF Order
    <2>3. \A h \in Range(writing), g \in Range(toCan \o txq) : h.kind = "tx" /\ g.kind = "tx" => h.n < g.n
      BY <1>1, <2>1, <2>2, RisingConcat
    <2>4. writing[1] \in Range(writing)
      BY <1>1, InRange, HeadTail
    <2>. QED
      BY <1>3, <1>7, <2>1, <2>3, <2>4
  <1>9. /\ \E j \in 1..Len(onBus') : onBus'[j] = f.n
        /\ \A n : (\E j \in 1..Len(onBus) : onBus[j] = n) => \E j \in 1..Len(onBus') : onBus'[j] = n
    <2>1. onBus' = Append(onBus, f.n) /\ f.n \in Nat
      BY <1>2, <1>3 DEF TxWritten
    <2>2. /\ Len(onBus') = Len(onBus) + 1 /\ onBus'[Len(onBus) + 1] = f.n /\ Len(onBus) \in Nat
          /\ \A i \in 1..Len(onBus) : onBus'[i] = onBus[i]
      BY <1>1, <2>1, AppendProperties, LenProperties
    <2>. QED
      BY <2>2
  <1>10. Rising(Pipe', "data") /\ Rising(Pipe', "echo")
    <2>1. \A g \in Range(Pipe) : g.kind = "echo" => g.n < f.n
      BY <1>3, <1>7 DEF Order
    <2>2. CASE Pipe' = Append(Pipe, f)
      BY <1>1, <1>3, <2>1, <2>2, RisingAppend DEF Order
    <2>. QED
      BY <1>5, <2>2 DEF Order
  <1>11. Range(Pipe') \subseteq Range(Pipe) \cup {f}
    BY <1>1, <1>3, <1>5, RangeAppend
  <1>12. Range(Upstream') \subseteq Range(Upstream) /\ Rising(Upstream', "tx")
    BY <1>6 DEF Thinner, Kinds, Order
  <1>13. ASSUME NEW g \in Range(Pipe')
         PROVE  /\ g.kind = "data" => g.n <= rxCount' /\ \A h \in Range(fifo') : g.n < h.n
                /\ g.kind = "echo" =>
                     /\ g.n <= txCount' /\ \E j \in 1..Len(onBus') : onBus'[j] = g.n
                     /\ \A c \in Range(Upstream') : c.kind = "tx" => g.n < c.n
    <2>1. CASE g \in Range(Pipe)
      BY <1>4, <1>9, <1>12, <2>1 DEF Order
    <2>2. CASE g = f
      BY <1>3, <1>4, <1>7, <1>8, <1>9, <2>2 DEF Order
    <2>. QED
      BY <1>11, <2>1, <2>2
  <1>. QED
    BY <1>4, <1>6, <1>10, <1>12, <1>13 DEF Order

\* A frame arrives: the peripheral's queue takes it, with the next number.
LEMMA OrderArrive == TypeOK /\ Order /\ Arrive => Order'
  <1> SUFFICES ASSUME TypeOK, Order, Arrive PROVE Order'
    OBVIOUS
  <1> DEFINE f == [kind |-> "data", n |-> rxCount + 1, at |-> Stamp, s |-> 0]
  <1>1. fifo \in Seq(Frames) /\ Pipe \in Seq(Frames) /\ rxCount \in Nat
    BY WayTypes DEF TypeOK
  <1>2. f \in Frames /\ f.n = rxCount + 1 /\ f.kind = "data"
    BY <1>1, StampRange DEF Frames
  <1>3. /\ fifo' = Append(fifo, f) /\ rxCount' = rxCount + 1
        /\ UNCHANGED <<seen, rxq, ep1, inFlight, toUsb, writing, toCan, txq, txCount, onBus>>
    BY DEF Arrive, CanUnchanged, adapter, usb, rest
  <1> HIDE DEF f
  <1>4. Pipe' = Pipe /\ Upstream' = Upstream /\ OnlyTx'
    BY <1>3 DEF Pipe, Front, Back, Upstream, OnlyTx, Order
  <1>5. Range(fifo') = Range(fifo) \cup {f}
    BY <1>1, <1>2, <1>3, RangeAppend
  <1>6. Range(fifo) \subseteq Frames /\ Range(Pipe) \subseteq Frames
    BY <1>1, RangeOfSeq
  <1>7. \A g \in Range(fifo) : g.n < f.n
    <2> SUFFICES ASSUME NEW g \in Range(fifo) PROVE g.n < f.n
      OBVIOUS
    <2>1. g.n \in Nat /\ g.n <= rxCount
      BY <1>6 DEF Order, Frames
    <2>. QED
      BY <1>1, <1>2, <2>1
  <1>8. Rising(fifo', "data")
    BY <1>1, <1>2, <1>3, <1>7, RisingAppend DEF Order
  <1>9. ASSUME NEW g \in Range(Pipe), g.kind = "data"
        PROVE  g.n <= rxCount' /\ \A h \in Range(fifo') : g.n < h.n
    <2>1. g.n \in Nat /\ g.n <= rxCount /\ \A h \in Range(fifo) : g.n < h.n
      BY <1>6, <1>9 DEF Order, Frames
    <2>2. g.n <= rxCount + 1 /\ g.n < rxCount + 1
      BY <1>1, <2>1
    <2>. QED
      BY <1>2, <1>3, <1>5, <2>1, <2>2
  <1>10. ASSUME NEW g \in Range(fifo') PROVE g.kind = "data" /\ g.n <= rxCount'
    <2>1. CASE g = f
      BY <1>1, <1>2, <1>3, <2>1
    <2>2. CASE g \in Range(fifo)
      <3>1. g.n \in Nat /\ g.n <= rxCount /\ g.kind = "data"
        BY <1>6, <2>2 DEF Order, Frames
      <3>. QED
        BY <1>1, <1>3, <3>1
    <2>. QED
      BY <1>5, <2>1, <2>2
  <1>. QED
    BY <1>3, <1>4, <1>8, <1>9, <1>10 DEF Order

\* The steps that leave all frames where they are.
WaySame ==
  UNCHANGED <<seen, rxq, ep1, inFlight, toUsb, fifo, writing, toCan, txq, rxCount, txCount, onBus, dropped>>

\* Every step keeps the order.
LEMMA OrderKept == TypeOK /\ TypeOK' /\ Stands /\ Order /\ [Next]_vars => Order'
  <1> SUFFICES ASSUME TypeOK, TypeOK', Stands, Order, [Next]_vars PROVE Order'
    OBVIOUS
  <1>0. /\ Thinner(Front, Front) /\ Thinner(Back, Back) /\ Thinner(Pipe, Pipe) /\ Thinner(Upstream, Upstream)
        /\ OnlyTx
    BY ThinSelf DEF Order
  <1>1. CASE Recv
    <2>1. Back' = Back /\ Upstream' = Upstream /\ OnlyTx' /\ UNCHANGED <<fifo, rxCount, txCount, onBus>>
      BY <1>0, <1>1 DEF Recv, usb, canSide, rest, Back, Upstream, OnlyTx
    <2>. QED
      BY <1>0, <1>1, <2>1, RecvWay, OrderThin DEF Pipe
  <1>2. CASE ReaderRead
    <2>1. Upstream' = Upstream /\ OnlyTx' /\ UNCHANGED <<fifo, rxCount, txCount, onBus>>
      BY <1>0, <1>2 DEF ReaderRead, canSide, rest, Upstream, OnlyTx
    <2>2. Pipe' = Pipe
      <3>1. CASE Reads
        BY <1>2, <3>1, ReadWay
      <3>2. CASE ~Reads
        BY <1>2, <3>2 DEF ReaderRead, Reads, NoFrame, canSide, Pipe, Front, Back
      <3>. QED
        BY <3>1, <3>2
    <2>. QED
      BY <1>0, <2>1, <2>2, OrderThin
  <1>3. CASE InTake \/ InWrite
    <2>1. Front' = Front /\ Upstream' = Upstream /\ OnlyTx' /\ UNCHANGED <<fifo, rxCount, txCount, onBus>>
      BY <1>0, <1>3 DEF InTake, InWrite, IoUnchanged, adapter, canSide, rest, Front, Upstream, OnlyTx
    <2>2. Thinner(Back', Back)
      BY <1>0, <1>3, TakeWay, WriteWay
    <2>. QED
      BY <1>0, <2>1, <2>2, PipeThin, OrderThin
  <1>4. CASE CutSteps
    <2>1. /\ UNCHANGED <<writing, toCan, fifo, rxCount, txCount, onBus>>
          /\ txq' \in {txq, <<>>}
      BY <1>4 DEF CutSteps, LoseAdapter, Close, CloseJoin, Restart, RestartH753, Unplug, IoUnchanged, adapter,
                  canSide, rest
    <2>2. /\ writing \in Seq(Commands) /\ toCan \in Seq(Commands) /\ txq \in Seq(Commands)
          /\ txq' \in Seq(Commands)
      BY DEF TypeOK
    <2>3. Thinner(txq', txq) /\ Thinner(writing, writing) /\ Thinner(toCan, toCan)
      BY <2>1, ThinSelf, ThinEmpty
    <2>4. Thinner(Upstream', Upstream) /\ OnlyTx'
      BY <1>0, <2>1, <2>2, <2>3, UpstreamCut DEF Upstream, OnlyTx
    <2>5. Thinner(Pipe', Pipe)
      BY <1>4, CutWay, PipeThin
    <2>. QED
      BY <2>1, <2>4, <2>5, OrderThin
  <1>5. CASE TxTake \/ ReaderDrain \/ TxTimeout
    <2>1. Pipe' = Pipe /\ UNCHANGED <<fifo, rxCount, txCount, onBus>>
      BY <1>5 DEF TxTake, ReaderDrain, TxTimeout, CanUnchanged, adapter, usb, rest, Pipe, Front, Back
    <2>2. Thinner(Upstream', Upstream) /\ OnlyTx'
      BY <1>0, <1>5, TxTakeWay, DrainWay, WrittenWay
    <2>. QED
      BY <1>0, <2>1, <2>2, OrderThin
  <1>6. CASE Send \/ CloseShutdown
    BY <1>6, OrderSend
  <1>7. CASE RxTask \/ RxTaskH753
    <2>1. /\ fifo # <<>> /\ fifo' = Tail(fifo)
          /\ toUsb' = Push(toUsb, [Head(fifo) EXCEPT !.s = session], ToUsbCap)
          /\ UNCHANGED <<ep1, inFlight, writing, toCan, txq, rxCount, txCount, onBus>> /\ Front' = Front
      BY <1>7 DEF RxTask, RxTaskH753, CanUnchanged, adapter, usb, rest, Front
    <2>. QED
      BY <2>1, OrderRx
  <1>8. CASE TxWritten
    BY <1>8, OrderWritten
  <1>9. CASE Arrive
    BY <1>9, OrderArrive
  <1>10. CASE WaySame
    BY <1>10 DEF WaySame, Order, OnlyTx, Pipe, Front, Back, Upstream
  <1>. QED
    BY <1>1, <1>2, <1>3, <1>4, <1>5, <1>6, <1>7, <1>8, <1>9, <1>10
       DEF Next, CloseSteps, IoSteps, CanSteps, CutSteps, WaySame, OpenSetMode, OpenReader, OpenFails, CloseBusOff,
           ReaderDies, IoConfigured, OutDisabled, RunEnds, Settled, Replug, IoUnchanged, CanUnchanged, vars,
           adapter, usb, canSide, rest

-----------------------------------------------------------------------------
(* What a session is shown: sessions, completeness                         *)

\* The other steps leave the frames on their way alone, or take all that has reached the
\* host with the session, or lose some that are on their way to a host that is gone.
Moves ==
  \/ OpenSetMode \/ (ReaderRead /\ Reads) \/ Restart \/ RestartH753 \/ RxTask \/ RxTaskH753 \/ TxWritten \/ Arrive
Keeps ==
  /\ UNCHANGED <<restart, session, fifo, rxCount, dropped>>
  /\ linked' => linked
  /\ host' = "open" => host = "open" \/ Front = <<>>
  /\ \/ UNCHANGED <<Front, Back>>
     \/ Front' = <<>> /\ Back' = Back /\ host' # "open"
     \/ Front' = Front /\ Thinner(Back', Back) /\ ~linked'

\* Board and bounds stay.
LEMMA WorldKept == [Next]_vars => world' = world
  BY DEF Next, vars, CloseSteps, IoSteps, CanSteps, OpenSetMode, OpenReader, OpenFails, Send, Recv, LoseAdapter,
         Close, CloseBusOff, CloseShutdown, CloseJoin, ReaderDrain, ReaderRead, ReaderDies, IoConfigured, InTake,
         InWrite, OutDisabled, RunEnds, Restart, Settled, RestartH753, RxTask, RxTaskH753, TxTake, TxWritten,
         TxTimeout, Arrive, Unplug, Replug, IoUnchanged, CanUnchanged, rest

\* Every step keeps what is said of where threads and arms stand.
LEMMA StandsKept == Stands /\ [Next]_vars => Stands'
  <1> SUFFICES ASSUME Stands, [Next]_vars PROVE Stands'
    OBVIOUS
  <1> USE DEF Stands, adapter, usb, canSide, rest, NoFrame
  <1>1. CASE OpenSetMode
    BY <1>1 DEF OpenSetMode
  <1>2. CASE OpenReader \/ OpenFails
    BY <1>2 DEF OpenReader, OpenFails
  <1>3. CASE Send \/ Recv
    BY <1>3 DEF Send, Recv
  <1>4. CASE LoseAdapter \/ Close
    BY <1>4 DEF LoseAdapter, Close
  <1>5. CASE CloseBusOff \/ CloseShutdown
    BY <1>5 DEF CloseBusOff, CloseShutdown
  <1>6. CASE CloseJoin
    BY <1>6 DEF CloseJoin
  <1>7. CASE ReaderDrain \/ ReaderRead \/ ReaderDies
    BY <1>7 DEF ReaderDrain, ReaderRead, ReaderDies
  <1>8. CASE IoConfigured \/ InTake \/ InWrite
    BY <1>8 DEF IoConfigured, InTake, InWrite, IoUnchanged
  <1>9. CASE OutDisabled \/ RunEnds \/ Settled \/ Restart \/ RestartH753
    BY <1>9 DEF OutDisabled, RunEnds, Settled, Restart, RestartH753, IoUnchanged
  <1>10. CASE CanSteps \/ Arrive
    BY <1>10 DEF CanSteps, RxTask, RxTaskH753, TxTake, TxWritten, Arrive, CanUnchanged
  <1>11. CASE TxTimeout \/ Unplug \/ Replug
    BY <1>11 DEF TxTimeout, Unplug, Replug
  <1>12. CASE UNCHANGED vars
    BY <1>12 DEF vars
  <1>. QED
    BY <1>1, <1>2, <1>3, <1>4, <1>5, <1>6, <1>7, <1>8, <1>9, <1>10, <1>11, <1>12
       DEF Next, CloseSteps, IoSteps

\* A step that does not move frames keeps or loses them.
LEMMA MovesOrKeeps == TypeOK /\ TypeOK' /\ Stands /\ [Next]_vars => Moves \/ Keeps
  <1> SUFFICES ASSUME TypeOK, TypeOK', Stands, [Next]_vars, ~Moves PROVE Keeps
    OBVIOUS
  <1>0. <<>> \o <<>> = <<>> /\ Thinner(Back, Back)
    BY ThinSelf
  <1>1. CASE Recv
    <2>1. /\ UNCHANGED <<restart, session, fifo, rxCount, dropped, linked, host>> /\ Back' = Back
      BY <1>1 DEF Recv, usb, canSide, rest, Back
    <2>. QED
      BY <1>1, <2>1, RecvWay DEF Keeps
  <1>2. CASE LoseAdapter \/ Close \/ CloseJoin
    <2>1. /\ UNCHANGED <<restart, session, fifo, rxCount, dropped, ep1, inFlight, toUsb>> /\ host' # "open"
          /\ linked' = linked \/ linked' = FALSE
      BY <1>2 DEF LoseAdapter, Close, CloseJoin, usb, canSide, rest
    <2>2. seen' = <<>> /\ rxq' = <<>>
      BY <1>2 DEF LoseAdapter, Close, CloseJoin, Stands
    <2>. QED
      BY <1>0, <2>1, <2>2 DEF Keeps, Front, Back
  <1>3. CASE InTake \/ InWrite
    <2>1. /\ UNCHANGED <<restart, session, fifo, rxCount, dropped, linked, host, seen, rxq>>
      BY <1>3 DEF InTake, InWrite, IoUnchanged, canSide, adapter
    <2>2. Front' = Front
      BY <2>1 DEF Front
    <2>3. CASE InTake
      <3>1. Back' = Back
        BY <2>3, TakeWay
      <3>. QED
        BY <2>1, <2>2, <3>1 DEF Keeps
    <2>4. CASE InWrite
      <3>1. CASE attached
        <4>1. Back' = Back
          BY <2>4, <3>1, WriteWay
        <4>. QED
          BY <2>1, <2>2, <4>1 DEF Keeps
      <3>2. CASE ~attached
        <4>1. Thinner(Back', Back)
          BY <2>4, <3>2, WriteWay
        <4>2. ~linked'
          BY <2>1, <3>2 DEF Stands
        <4>. QED
          BY <2>1, <2>2, <4>1, <4>2 DEF Keeps
      <3>. QED
        BY <3>1, <3>2
    <2>. QED
      BY <1>3, <2>3, <2>4
  <1>4. CASE Unplug
    <2>1. UNCHANGED <<restart, session, fifo, rxCount, dropped, host, seen, rxq>> /\ linked' = FALSE
      BY <1>4 DEF Unplug, canSide
    <2>2. Front' = Front
      BY <2>1 DEF Front
    <2>3. Thinner(Back', Back)
      BY <1>4, CutWay DEF CutSteps
    <2>. QED
      BY <2>1, <2>2, <2>3 DEF Keeps
  <1>5. CASE OpenReader
    <2>1. UNCHANGED <<restart, session, fifo, rxCount, dropped, linked, seen, rxq, ep1, inFlight, toUsb>>
      BY <1>5 DEF OpenReader, usb, canSide
    <2>2. seen = <<>> /\ rxq = <<>>
      BY <1>5 DEF OpenReader, Stands
    <2>. QED
      BY <1>0, <2>1, <2>2 DEF Keeps, Front, Back
  <1>6. CASE UNCHANGED <<restart, session, fifo, rxCount, dropped, seen, rxq, ep1, inFlight, toUsb>>
    <2>1. CASE OpenFails
      BY <1>6, <2>1 DEF Keeps, Front, Back, OpenFails
    <2>2. CASE ~OpenFails /\ ~OpenReader /\ ~Recv /\ ~LoseAdapter /\ ~Close /\ ~CloseJoin /\ ~Unplug
      <3>1. linked' = linked /\ (host' = "open" => host = "open")
        BY <2>2
           DEF Next, vars, CloseSteps, IoSteps, CanSteps, Moves, Send, CloseBusOff, CloseShutdown, ReaderDrain,
               ReaderRead, ReaderDies, IoConfigured, InTake, InWrite, OutDisabled, RunEnds, Settled, TxTake,
               TxTimeout, Replug, IoUnchanged, CanUnchanged, adapter
      <3>. QED
        BY <1>6, <3>1 DEF Keeps, Front, Back
    <2>. QED
      BY <1>1, <1>2, <1>4, <1>5, <2>1, <2>2
  <1>. QED
    BY <1>1, <1>2, <1>3, <1>4, <1>5, <1>6
       DEF Next, vars, CloseSteps, IoSteps, CanSteps, Moves, Reads, OpenFails, Send, CloseBusOff, CloseShutdown,
           ReaderDrain, ReaderRead, ReaderDies, IoConfigured, OutDisabled, RunEnds, Settled, TxTake, TxTimeout,
           Replug, IoUnchanged, CanUnchanged, adapter, usb, canSide, rest, NoFrame

\* The frames on their way are those at the host and those behind them, which are later.
LEMMA PipeParts ==
  TypeOK => /\ Range(Pipe) = Range(Front) \cup Range(Back) /\ Range(Pipe) \subseteq Frames
            /\ Order => \A k \in {"data", "echo"}, f \in Range(Front), g \in Range(Back) :
                          f.kind = k /\ g.kind = k => f.n < g.n
  <1> SUFFICES ASSUME TypeOK
               PROVE  /\ Range(Pipe) = Range(Front) \cup Range(Back) /\ Range(Pipe) \subseteq Frames
                      /\ Order => \A k \in {"data", "echo"}, f \in Range(Front), g \in Range(Back) :
                                    f.kind = k /\ g.kind = k => f.n < g.n
    OBVIOUS
  <1>1. Front \in Seq(Frames) /\ Back \in Seq(Frames) /\ Pipe \in Seq(Frames)
    BY WayTypes
  <1>2. Range(Front \o Back) = Range(Front) \cup Range(Back)
    BY <1>1, RangeConcatenation
  <1>3. Range(Pipe) \subseteq Frames
    BY <1>1, RangeOfSeq
  <1>4. ASSUME Order, NEW k \in {"data", "echo"}, NEW f \in Range(Front), NEW g \in Range(Back),
               f.kind = k, g.kind = k
        PROVE  f.n < g.n
    <2>1. Rising(Front \o Back, k)
      BY <1>4 DEF Order, Pipe
    <2>. QED
      BY <1>1, <1>4, <2>1, RisingConcat
  <1>. QED
    BY <1>2, <1>3, <1>4 DEF Pipe

\* What enters the queue is marked with the present session.
LEMMA EntersSession ==
  TypeOK /\ (RxTask \/ RxTaskH753 \/ TxWritten) =>
    /\ UNCHANGED <<restart, session, Front>>
    /\ \E f \in Frames :
         /\ f.s = session /\ (RxTask => f.n = Head(fifo).n /\ f.kind = Head(fifo).kind)
         /\ (TxWritten => f.kind = "echo")
         /\ IF Len(toUsb) < ToUsbCap THEN Pipe' = Append(Pipe, f) ELSE Pipe' = Pipe
  <1> SUFFICES ASSUME TypeOK, RxTask \/ RxTaskH753 \/ TxWritten
               PROVE  /\ UNCHANGED <<restart, session, Front>>
                      /\ \E f \in Frames :
                           /\ f.s = session /\ (RxTask => f.n = Head(fifo).n /\ f.kind = Head(fifo).kind)
                           /\ (TxWritten => f.kind = "echo")
                           /\ IF Len(toUsb) < ToUsbCap THEN Pipe' = Append(Pipe, f) ELSE Pipe' = Pipe
    OBVIOUS
  <1>1. UNCHANGED <<restart, session, seen, rxq, ep1, inFlight>>
    BY DEF RxTask, RxTaskH753, TxWritten, CanUnchanged, adapter, usb
  <1>2. UNCHANGED Front
    BY <1>1 DEF Front
  <1>3. fifo \in Seq(Frames) /\ writing \in Seq(Commands) /\ session \in Nat
    BY DEF TypeOK
  <1>4. CASE RxTask \/ RxTaskH753
    <2> DEFINE f == [Head(fifo) EXCEPT !.s = session]
    <2>1. Head(fifo) \in Frames
      BY <1>3, <1>4, HeadTail DEF RxTask, RxTaskH753
    <2>2. f \in Frames /\ f.s = session /\ f.n = Head(fifo).n /\ f.kind = Head(fifo).kind
      BY <1>3, <2>1 DEF Frames
    <2>3. toUsb' = Push(toUsb, f, ToUsbCap) 
      BY <1>4 DEF RxTask, RxTaskH753, TxWritten
    <2>4. ~TxWritten
      <3>1. SUFFICES ASSUME TxWritten PROVE FALSE
        OBVIOUS
      <3>2. fifo' = fifo /\ fifo' = Tail(fifo) /\ fifo # <<>>
        BY <1>4, <3>1 DEF RxTask, RxTaskH753, TxWritten
      <3>3. Len(Tail(fifo)) = Len(fifo) - 1 /\ Len(fifo) \in Nat
        BY <1>3, <3>2, HeadTailProperties, LenProperties
      <3>. QED
        BY <3>2, <3>3
    <2> HIDE DEF f
    <2>5. IF Len(toUsb) < ToUsbCap THEN Pipe' = Append(Pipe, f) ELSE Pipe' = Pipe
      BY <1>1, <1>2, <2>2, <2>3, EnterWay
    <2>. QED
      BY <1>1, <1>2, <2>2, <2>4, <2>5
  <1>5. CASE TxWritten /\ ~RxTask
    <2> DEFINE f == [kind |-> "echo", n |-> writing[1].n, at |-> Stamp, s |-> session]
    <2>1. writing[1] \in Commands
      BY <1>3, <1>5, HeadTail DEF TxWritten, NoFrame
    <2>2. f \in Frames /\ f.s = session /\ f.kind = "echo"
      BY <1>3, <2>1, StampRange DEF Frames, Commands
    <2>3. toUsb' = Push(toUsb, f, ToUsbCap)
      BY <1>5 DEF TxWritten
    <2> HIDE DEF f
    <2>5. IF Len(toUsb) < ToUsbCap THEN Pipe' = Append(Pipe, f) ELSE Pipe' = Pipe
      BY <1>1, <1>2, <2>2, <2>3, EnterWay
    <2>. QED
      BY <1>1, <1>2, <1>5, <2>2, <2>5
  <1>. QED
    BY <1>4, <1>5

\* Every step keeps the sessions apart: between SET_MODE and the drain nothing reaches the
\* host, and the drain leaves nothing of the session before.
LEMMA SessionsKept == TypeOK /\ TypeOK' /\ Stands /\ Sessions /\ [Next]_vars => Sessions'
  <1> SUFFICES ASSUME TypeOK, TypeOK', Stands, Sessions, [Next]_vars, world.board = "h743" PROVE Sessions'
    BY WorldKept DEF Sessions
  <1>0. /\ restart => Range(Front) = {}
        /\ ~restart => \A f \in Range(Pipe) : f.s = session
        /\ \A f \in Range(Front) : f.s = session
    BY DEF Sessions
  <1>a. /\ Range(Pipe) = Range(Front) \cup Range(Back)
        /\ Range(Pipe') = Range(Front') \cup Range(Back')
    <2>1. Front' \in Seq(Frames) /\ Back' \in Seq(Frames)
      BY WayTypes DEF TypeOK, Front, Back
    <2>2. Range(Front' \o Back') = Range(Front') \cup Range(Back')
      BY <2>1, RangeConcatenation
    <2>. QED
      BY <2>2, PipeParts DEF Pipe
  <1>1. CASE Keeps
    <2>1. restart' = restart /\ session' = session
      BY <1>1 DEF Keeps
    <2>2. Range(Front') \subseteq Range(Front) /\ Range(Back') \subseteq Range(Back)
      BY <1>1, RangeEmpty DEF Keeps, Thinner
    <2>. QED
      BY <1>0, <1>a, <2>1, <2>2 DEF Sessions
  <1>2. CASE OpenSetMode
    <2>1. restart' = TRUE /\ seen' = <<>> /\ rxq' = <<>>
      BY <1>2 DEF OpenSetMode, Stands
    <2>2. Range(Front') = {}
      BY <2>1, RangeEmpty DEF Front
    <2>. QED
      BY <2>1, <2>2 DEF Sessions
  <1>3. CASE ReaderRead /\ Reads
    <2>1. restart' = restart /\ session' = session /\ ~restart /\ Pipe' = Pipe
      BY <1>3, ReadWay DEF ReaderRead, Reads
    <2>. QED
      BY <1>0, <1>a, <2>1 DEF Sessions
  <1>4. CASE Restart
    <2>1. /\ restart /\ restart' = FALSE /\ UNCHANGED <<session, seen, rxq>> /\ ep1' = <<>> /\ inFlight' = <<>> /\ toUsb' = <<>>
      BY <1>4 DEF Restart, NoFrame, IoUnchanged, adapter
    <2>2. Front' = Front /\ Range(Front) = {}
      BY <1>0, <2>1 DEF Front
    <2>3. Range(Back') = {}
      BY <2>1, RangeEmpty DEF Back
    <2>. QED
      BY <1>a, <2>1, <2>2, <2>3 DEF Sessions
  <1>5. CASE RestartH753
    BY <1>5 DEF RestartH753
  <1>6. CASE RxTask \/ RxTaskH753 \/ TxWritten
    <2>1. UNCHANGED <<restart, session, Front>>
      BY <1>6, EntersSession
    <2>2. PICK f \in Frames : f.s = session /\ (Pipe' = Append(Pipe, f) \/ Pipe' = Pipe)
      BY <1>6, EntersSession
    <2>3. Range(Pipe') \subseteq Range(Pipe) \cup {f}
      BY <2>2, WayTypes, RangeAppend
    <2>. QED
      BY <1>0, <2>1, <2>2, <2>3 DEF Sessions
  <1>7. CASE Arrive
    <2>1. UNCHANGED <<restart, session, seen, rxq, ep1, inFlight, toUsb>>
      BY <1>7 DEF Arrive, CanUnchanged, adapter, usb
    <2>. QED
      BY <1>0, <2>1 DEF Sessions, Front, Back, Pipe
  <1>. QED
    BY <1>1, <1>2, <1>3, <1>4, <1>5, <1>6, <1>7, MovesOrKeeps DEF Moves

\* A received frame that leaves the peripheral's queue is on its way or counted.
LEMMA CompleteRx == TypeOK /\ TypeOK' /\ Order /\ Complete /\ RxTask => Complete'
  <1> SUFFICES ASSUME TypeOK, TypeOK', Order, Complete, RxTask PROVE Complete'
    OBVIOUS
  <1>1. /\ fifo \in Seq(Frames) /\ fifo # <<>> /\ fifo' = Tail(fifo) /\ rxCount' = rxCount /\ linked' = linked
        /\ world' = world /\ restart' = restart
        /\ dropped' = IF Len(toUsb) < ToUsbCap THEN dropped ELSE dropped \cup {Head(fifo).n}
    BY DEF TypeOK, RxTask, CanUnchanged, adapter, usb, rest
  <1>2. /\ Range(fifo) = {Head(fifo)} \cup Range(fifo') /\ Head(fifo) \in Frames /\ fifo' \in Seq(Frames)
        /\ Range(fifo) \subseteq Frames
    <2>1. Range(fifo) \subseteq Frames
      BY <1>1, RangeOfSeq
    <2>. QED
      BY <1>1, <2>1, RangeTail, HeadTail
  <1>3. \A g \in Range(fifo') : Head(fifo).n < g.n
    BY <1>1, HeadLeast
  <1>4. PICK x \in Frames : /\ x.n = Head(fifo).n /\ x.kind = "data"
                            /\ IF Len(toUsb) < ToUsbCap THEN Pipe' = Append(Pipe, x) ELSE Pipe' = Pipe
    <2>1. Head(fifo).kind = "data"
      BY <1>2 DEF Order
    <2>. QED
      BY <2>1, EntersSession
  <1>5. Pipe \in Seq(Frames) /\ Pipe' \in Seq(Frames)
    <2>1. Pipe \in Seq(Frames)
      BY WayTypes
    <2>. QED
      BY <1>4, <2>1, AppendProperties
  <1>6. Range(Pipe) \subseteq Range(Pipe') /\ Range(Pipe') \subseteq Range(Pipe) \cup {x}
        /\ (x \in Range(Pipe') \/ Head(fifo).n \in dropped')
    <2>1. Range(Append(Pipe, x)) = Range(Pipe) \cup {x}
      BY <1>5, RangeAppend
    <2>. QED
      BY <1>1, <1>4, <2>1
  <1>7. ASSUME NEW n \in Nat, Has(fifo, n) PROVE n = Head(fifo).n \/ Has(fifo', n)
    <2>1. PICK h \in Range(fifo) : h.kind = "data" /\ h.n = n
      BY <1>1, <1>7, HasRange
    <2>. QED
      BY <1>2, <2>1, HasRange
  <1>8. ASSUME NEW n \in Nat, Has(Pipe, n) PROVE Has(Pipe', n)
    BY <1>5, <1>6, <1>8, HasRange
  <1>9. ASSUME NEW g \in Range(fifo), NEW n \in Nat, g.n < n, n <= rxCount PROVE Has(fifo', n)
    <2>1. Has(fifo, n)
      BY <1>9 DEF Complete
    <2>2. n # Head(fifo).n
      <3>1. g.n \in Nat /\ Head(fifo).n \in Nat
        BY <1>2 DEF Frames
      <3>2. Head(fifo).n <= g.n
        BY <1>2, <1>3, <3>1
      <3>. QED
        BY <1>9, <3>1, <3>2
    <2>. QED
      BY <1>7, <2>1, <2>2
  <1>10. ASSUME world.board = "h743", linked, ~restart, NEW f \in Range(Pipe'), NEW n \in Nat,
                f.kind = "data", f.n < n, n <= rxCount
         PROVE  n \in dropped' \/ Has(Pipe', n) \/ Has(fifo', n)
    <2>1. CASE f \in Range(Pipe)
      <3>1. n \in dropped \/ Has(Pipe, n) \/ Has(fifo, n)
        BY <1>10, <2>1 DEF Complete
      <3>2. n = Head(fifo).n => n \in dropped' \/ Has(Pipe', n)
        BY <1>4, <1>5, <1>6, HasRange
      <3>. QED
        BY <1>1, <1>7, <1>8, <3>1, <3>2
    <2>2. CASE f = x
      BY <1>2, <1>4, <1>9, <1>10, <2>2
    <2>. QED
      BY <1>6, <2>1, <2>2
  <1>. QED
    BY <1>1, <1>2, <1>9, <1>10 DEF Complete

\* On the other board the same holds of the peripheral's queue.
LEMMA CompleteRxH753 == TypeOK /\ Order /\ Complete /\ RxTaskH753 => Complete'
  <1> SUFFICES ASSUME TypeOK, Order, Complete, RxTaskH753 PROVE Complete'
    OBVIOUS
  <1>1. /\ fifo \in Seq(Frames) /\ fifo # <<>> /\ fifo' = Tail(fifo) /\ rxCount' = rxCount
        /\ world' = world /\ world.board = "h753"
    BY DEF TypeOK, RxTaskH753, CanUnchanged, rest
  <1>2. /\ Range(fifo) = {Head(fifo)} \cup Range(fifo') /\ Head(fifo) \in Frames /\ fifo' \in Seq(Frames)
        /\ Range(fifo) \subseteq Frames
    <2>1. Range(fifo) \subseteq Frames
      BY <1>1, RangeOfSeq
    <2>. QED
      BY <1>1, <2>1, RangeTail, HeadTail
  <1>3. \A g \in Range(fifo') : Head(fifo).n < g.n
    BY <1>1, HeadLeast
  <1>4. ASSUME NEW g \in Range(fifo'), NEW n \in Nat, g.n < n, n <= rxCount PROVE Has(fifo', n)
    <2>1. Has(fifo, n)
      BY <1>2, <1>4 DEF Complete
    <2>2. PICK h \in Range(fifo) : h.kind = "data" /\ h.n = n
      BY <1>1, <2>1, HasRange
    <2>3. h # Head(fifo)
      <3>1. g.n \in Nat /\ Head(fifo).n \in Nat /\ Head(fifo).n < g.n
        BY <1>2, <1>3 DEF Frames
      <3>. QED
        BY <1>4, <2>2, <3>1
    <2>. QED
      BY <1>2, <2>2, <2>3, HasRange
  <1>. QED
    BY <1>1, <1>4 DEF Complete

\* A frame that arrives joins those that wait.
LEMMA CompleteArrive == TypeOK /\ Order /\ Complete /\ Arrive => Complete'
  <1> SUFFICES ASSUME TypeOK, Order, Complete, Arrive PROVE Complete'
    OBVIOUS
  <1> DEFINE x == [kind |-> "data", n |-> rxCount + 1, at |-> Stamp, s |-> 0]
  <1>1. fifo \in Seq(Frames) /\ Pipe \in Seq(Frames) /\ rxCount \in Nat
    BY WayTypes DEF TypeOK
  <1>2. x \in Frames /\ x.n = rxCount + 1 /\ x.kind = "data"
    BY <1>1, StampRange DEF Frames
  <1>3. /\ fifo' = Append(fifo, x) /\ rxCount' = rxCount + 1
        /\ UNCHANGED <<seen, rxq, ep1, inFlight, toUsb, dropped, linked, restart, world>>
    BY DEF Arrive, CanUnchanged, adapter, usb, rest
  <1> HIDE DEF x
  <1>4. Pipe' = Pipe
    BY <1>3 DEF Pipe, Front, Back
  <1>5. Range(fifo') = Range(fifo) \cup {x} /\ fifo' \in Seq(Frames)
    BY <1>1, <1>2, <1>3, RangeAppend, AppendProperties
  <1>6. \A n \in Nat : Has(fifo, n) => Has(fifo', n)
    BY <1>1, <1>5, HasRange
  <1>7. ASSUME NEW n \in Nat, n <= rxCount + 1 PROVE n <= rxCount \/ Has(fifo', n)
    <2>1. CASE n = rxCount + 1
      BY <1>2, <1>5, <2>1, HasRange
    <2>. QED
      BY <1>1, <1>7, <2>1
  <1>8. ASSUME NEW g \in Range(fifo'), NEW n \in Nat, g.n < n, n <= rxCount + 1 PROVE Has(fifo', n)
    <2>1. g \in Range(fifo) \/ n > rxCount + 1
      BY <1>1, <1>2, <1>5, <1>8
    <2>2. g \in Range(fifo)
      BY <1>1, <1>8, <2>1
    <2>. QED
      BY <1>6, <1>7, <1>8, <2>2 DEF Complete
  <1>9. ASSUME world.board = "h743", linked, ~restart, NEW f \in Range(Pipe), NEW n \in Nat,
               f.kind = "data", f.n < n, n <= rxCount + 1
        PROVE  n \in dropped \/ Has(Pipe, n) \/ Has(fifo', n)
    BY <1>6, <1>7, <1>9 DEF Complete
  <1>. QED
    BY <1>3, <1>4, <1>8, <1>9 DEF Complete

\* Every step keeps it known what became of the frames received.
LEMMA CompleteKept == TypeOK /\ TypeOK' /\ Order /\ Stands /\ Sessions /\ Complete /\ [Next]_vars => Complete'
  <1> SUFFICES ASSUME TypeOK, TypeOK', Order, Stands, Sessions, Complete, [Next]_vars PROVE Complete'
    OBVIOUS
  <1>0. world' = world /\ Pipe \in Seq(Frames) /\ Front \in Seq(Frames) /\ Back \in Seq(Frames)
    BY WorldKept, WayTypes
  <1>1. CASE Keeps
    <2>1. UNCHANGED <<restart, fifo, rxCount, dropped>> /\ (linked' => linked)
      BY <1>1 DEF Keeps
    <2>2. \A g \in Range(fifo'), n \in Nat : g.n < n /\ n <= rxCount' => Has(fifo', n)
      BY <2>1 DEF Complete
    <2>3. CASE UNCHANGED <<Front, Back>>
      <3>1. Pipe' = Pipe
        BY <2>3 DEF Pipe
      <3>. QED
        BY <1>0, <2>1, <2>2, <3>1 DEF Complete
    <2>4. CASE Front' = <<>> /\ Back' = Back
      <3>1. Pipe' = Back
        BY <1>0, <2>4, ConcatEmptySeq DEF Pipe
      <3>2. ASSUME NEW f \in Range(Back), NEW n \in Nat, f.kind = "data", f.n < n, Has(Pipe, n)
            PROVE  Has(Back, n)
        <4>1. PICK h \in Range(Pipe) : h.kind = "data" /\ h.n = n
          BY <1>0, <3>2, HasRange
        <4>2. h \notin Range(Front)
          <5>1. SUFFICES ASSUME h \in Range(Front) PROVE FALSE
            OBVIOUS
          <5>2. h.n < f.n /\ f.n \in Nat
            <6>1. f \in Frames
              BY PipeParts
            <6>2. h.n < f.n
              BY <3>2, <4>1, <5>1, PipeParts
            <6>. QED
              BY <6>1, <6>2 DEF Frames
          <5>. QED
            BY <3>2, <4>1, <5>2
        <4>3. h \in Range(Back)
          BY <4>2, PipeParts
        <4>. QED
          BY <1>0, <4>1, <4>3, HasRange
      <3>3. ASSUME world.board = "h743", linked', ~restart', NEW f \in Range(Back), NEW n \in Nat,
                   f.kind = "data", f.n < n, n <= rxCount
            PROVE  n \in dropped \/ Has(Back, n) \/ Has(fifo, n)
        <4>1. f \in Range(Pipe)
          BY PipeParts
        <4>2. n \in dropped \/ Has(Pipe, n) \/ Has(fifo, n)
          BY <2>1, <3>3, <4>1 DEF Complete
        <4>. QED
          BY <3>2, <3>3, <4>2
      <3>. QED
        BY <1>0, <2>1, <2>2, <3>1, <3>3 DEF Complete
    <2>5. CASE ~linked'
      BY <2>2, <2>5 DEF Complete
    <2>. QED
      BY <1>1, <2>3, <2>4, <2>5 DEF Keeps
  <1>2. CASE OpenSetMode
    <2>1. restart' = TRUE /\ UNCHANGED <<fifo, rxCount>>
      BY <1>2 DEF OpenSetMode, canSide
    <2>. QED
      BY <2>1 DEF Complete
  <1>3. CASE ReaderRead /\ Reads
    <2>1. Pipe' = Pipe
      BY <1>3, ReadWay
    <2>2. UNCHANGED <<fifo, rxCount, dropped, linked, restart>>
      BY <1>3 DEF ReaderRead, canSide
    <2>. QED
      BY <1>0, <2>1, <2>2 DEF Complete
  <1>4. CASE Restart
    <2>1. /\ restart /\ world.board = "h743" /\ UNCHANGED <<fifo, rxCount, seen, rxq>>
          /\ ep1' = <<>> /\ inFlight' = <<>> /\ toUsb' = <<>>
      BY <1>4 DEF Restart, NoFrame, IoUnchanged, adapter
    <2>2. Back' = <<>> /\ Front' = Front /\ Range(Front) = {}
      BY <2>1 DEF Back, Front, Sessions
    <2>3. Pipe' = Front
      BY <1>0, <2>2, ConcatEmptySeq DEF Pipe
    <2>. QED
      BY <2>1, <2>2, <2>3 DEF Complete
  <1>5. CASE RestartH753
    <2>1. world.board = "h753" /\ UNCHANGED <<fifo, rxCount>>
      BY <1>5 DEF RestartH753, canSide
    <2>. QED
      BY <1>0, <2>1 DEF Complete
  <1>6. CASE RxTask \/ RxTaskH753
    BY <1>6, CompleteRx, CompleteRxH753
  <1>7. CASE TxWritten
    <2>1. UNCHANGED <<fifo, rxCount, dropped, linked, restart>>
      BY <1>7 DEF TxWritten, CanUnchanged, adapter, usb
    <2>2. PICK f \in Frames : f.kind = "echo" /\ (Pipe' = Append(Pipe, f) \/ Pipe' = Pipe)
      BY <1>7, EntersSession
    <2>3. Pipe' \in Seq(Frames) /\ Range(Pipe) \subseteq Range(Pipe') /\ Range(Pipe') \subseteq Range(Pipe) \cup {f}
      <3>1. Range(Append(Pipe, f)) = Range(Pipe) \cup {f} /\ Append(Pipe, f) \in Seq(Frames)
        BY <1>0, RangeAppend, AppendProperties
      <3>. QED
        BY <1>0, <2>2, <3>1
    <2>4. \A n \in Nat : Has(Pipe, n) => Has(Pipe', n)
      BY <1>0, <2>3, HasRange
    <2>5. \A g \in Range(Pipe') : g.kind = "data" => g \in Range(Pipe)
      BY <2>2, <2>3
    <2>. QED
      BY <1>0, <2>1, <2>4, <2>5 DEF Complete
  <1>8. CASE Arrive
    BY <1>8, CompleteArrive
  <1>. QED
    BY <1>1, <1>2, <1>3, <1>4, <1>5, <1>6, <1>7, <1>8, MovesOrKeeps DEF Moves

\* Every step keeps what reached the host without an uncounted gap: a frame that is read is
\* followed by all that came later.
LEMMA GaplessKept ==
  TypeOK /\ TypeOK' /\ Order /\ Stands /\ Complete /\ Gapless /\ [Next]_vars => Gapless'
  <1> SUFFICES ASSUME TypeOK, TypeOK', Order, Stands, Complete, Gapless, [Next]_vars,
                      world.board = "h743", host' = "open"
               PROVE  Gapless'
    BY WorldKept DEF Gapless
  <1>0. Pipe \in Seq(Frames) /\ Front \in Seq(Frames) /\ inFlight \o toUsb \in Seq(Frames)
    BY WayTypes
  <1>1. CASE Front' = Front /\ dropped \subseteq dropped' /\ (host = "open" \/ Front = <<>>)
    <2>1. CASE host = "open"
      BY <1>1, <2>1 DEF Gapless
    <2>2. CASE Front = <<>>
      BY <1>1, <2>2, RangeEmpty DEF Gapless
    <2>. QED
      BY <1>1, <2>1, <2>2
  <1>2. CASE Keeps
    BY <1>1, <1>2 DEF Keeps
  <1>3. CASE OpenSetMode
    BY <1>3 DEF OpenSetMode
  <1>4. CASE ReaderRead /\ Reads
    <2>1. /\ linked /\ ~restart /\ UNCHANGED dropped
          /\ Front' = Append(Front, ep1[1]) /\ ep1[1] \in Frames /\ Pipe = Front' \o (inFlight \o toUsb)
      BY <1>4, ReadWay DEF ReaderRead, Reads, canSide
    <2>2. Front' \in Seq(Frames)
      BY <1>0, <2>1, AppendProperties
    <2>3. Range(Pipe) = Range(Front') \cup Range(inFlight \o toUsb)
      BY <1>0, <2>1, <2>2, RangeConcatenation
    <2>4. \A f \in Range(Front'), g \in Range(inFlight \o toUsb) : f.kind = "data" /\ g.kind = "data" => f.n < g.n
      <3>1. Rising(Front' \o (inFlight \o toUsb), "data")
        BY <2>1 DEF Order
      <3>2. inFlight \o toUsb \in Seq(Frames)
        BY <1>0
      <3>. QED
        BY <2>2, <3>1, <3>2, RisingConcat
    <2>5. ASSUME NEW f \in Range(Front'), NEW g \in Range(Front'), NEW n \in Nat,
                 f.kind = "data", g.kind = "data", f.n < n, n < g.n
          PROVE  n \in dropped \/ Has(Front', n)
      <3>1. f \in Range(Pipe) /\ g \in Range(Pipe) /\ g \in Frames
        BY <2>3, PipeParts
      <3>2. g.n \in Nat /\ g.n <= rxCount /\ rxCount \in Nat
        BY <2>5, <3>1 DEF Order, Frames, TypeOK
      <3>3. n <= rxCount
        BY <2>5, <3>2
      <3>4. n \in dropped \/ Has(Pipe, n) \/ Has(fifo, n)
        BY <2>1, <2>5, <3>1, <3>3 DEF Complete
      <3>5. ~Has(fifo, n)
        <4>1. SUFFICES ASSUME Has(fifo, n) PROVE FALSE
          OBVIOUS
        <4>2. PICK h \in Range(fifo) : h.n = n
          BY <4>1, HasRange DEF TypeOK
        <4>3. g.n < h.n
          BY <2>5, <3>1 DEF Order
        <4>. QED
          BY <2>5, <3>2, <4>2, <4>3
      <3>6. ASSUME Has(Pipe, n) PROVE Has(Front', n)
        <4>1. PICK h \in Range(Pipe) : h.kind = "data" /\ h.n = n
          BY <1>0, <3>6, HasRange
        <4>2. h \notin Range(inFlight \o toUsb)
          BY <2>4, <2>5, <3>2, <4>1
        <4>. QED
          BY <2>2, <2>3, <4>1, <4>2, HasRange
      <3>. QED
        BY <3>4, <3>5, <3>6
    <2>. QED
      BY <2>1, <2>5 DEF Gapless
  <1>5. CASE Restart \/ RestartH753 \/ Arrive
    <2>1. UNCHANGED <<seen, rxq, dropped, host>>
      BY <1>5 DEF Restart, RestartH753, Arrive, IoUnchanged, CanUnchanged, adapter, canSide
    <2>. QED
      BY <1>1, <2>1 DEF Front
  <1>6. CASE RxTask \/ RxTaskH753 \/ TxWritten
    <2>1. UNCHANGED <<seen, rxq, host>> /\ dropped \subseteq dropped'
      BY <1>6 DEF RxTask, RxTaskH753, TxWritten, CanUnchanged, adapter
    <2>. QED
      BY <1>1, <2>1 DEF Front
  <1>. QED
    BY <1>2, <1>3, <1>4, <1>5, <1>6, MovesOrKeeps DEF Moves

\* At the start nothing is on its way.
LEMMA SeenInit == Init => SeenInv
  <1> SUFFICES ASSUME Init PROVE SeenInv
    OBVIOUS
  <1>1. /\ seen = <<>> /\ rxq = <<>> /\ ep1 = <<>> /\ inFlight = <<>> /\ toUsb = <<>> /\ fifo = <<>>
        /\ writing = <<>> /\ toCan = <<>> /\ txq = <<>>
    BY DEF Init, NoFrame
  <1>2. Front = <<>> /\ Back = <<>> /\ Pipe = <<>> /\ Upstream = <<>>
    BY <1>1 DEF Front, Back, Pipe, Upstream
  <1>3. \A k : Rising(<<>>, k)
    BY RisingShort
  <1>4. Range(<<>>) = {}
    BY RangeEmpty
  <1>5. Order
    BY <1>1, <1>2, <1>3, <1>4 DEF Order, OnlyTx
  <1>6. Stands
    BY <1>1 DEF Init, Stands
  <1>7. Sessions /\ Complete /\ Gapless
    BY <1>1, <1>2, <1>4 DEF Sessions, Complete, Gapless
  <1>. QED
    BY <1>5, <1>6, <1>7 DEF SeenInv

\* What has been shown is the first part of what is on its way.
LEMMA SeenFollows == TypeOK /\ SeenInv => SeenIsTrue
  <1> SUFFICES ASSUME TypeOK, SeenInv PROVE SeenIsTrue
    OBVIOUS
  <1>1. seen \in Seq(Frames) /\ rxq \in Seq(Frames) /\ Front \in Seq(Frames) /\ Back \in Seq(Frames)
    BY WayTypes DEF TypeOK
  <1>2. Range(Front) = Range(seen) \cup Range(rxq) /\ Range(Pipe) = Range(Front) \cup Range(Back)
    BY <1>1, RangeConcatenation, PipeParts DEF Front
  <1>3. ASSUME NEW k \in {"data", "echo"}
        PROVE  /\ Rising(seen, k)
               /\ \A f \in Range(seen), g \in Range(rxq) : f.kind = k /\ g.kind = k => f.n < g.n
    <2>1. Rising(Front \o Back, k)
      BY DEF SeenInv, Order, Pipe
    <2>2. Rising(seen \o rxq, k)
      BY <1>1, <2>1, RisingConcat DEF Front
    <2>. QED
      BY <1>1, <2>2, RisingConcat
  <1>4. \A i \in 1..Len(seen) : seen[i] \in Range(seen) /\ seen[i] \in Frames
    BY <1>1, InRange
  <1>5. \A i \in 1..Len(seen) : seen[i].kind = "echo" => \E j \in 1..Len(onBus) : onBus[j] = seen[i].n
    BY <1>2, <1>4 DEF SeenInv, Order
  <1>6. ASSUME world.board = "h743", NEW i \in 1..Len(seen) PROVE seen[i].s = session
    BY <1>2, <1>4, <1>6 DEF SeenInv, Sessions
  <1>7. ASSUME world.board = "h743", NEW i \in 1..Len(seen), NEW j \in 1..Len(seen),
               seen[i].kind = "data", seen[j].kind = "data", NEW n \in (seen[i].n + 1)..(seen[j].n - 1)
        PROVE  n \in dropped \/ Has(seen, n)
    <2>1. seen[i].n \in Nat /\ seen[j].n \in Nat
      BY <1>4 DEF Frames
    <2>2. n \in Nat /\ seen[i].n < n /\ n < seen[j].n
      BY <2>1
    <2>3. host = "open"
      <3>1. seen # <<>>
        BY <1>7
      <3>. QED
        BY <3>1 DEF SeenInv, Stands, TypeOK
    <2>4. n \in dropped \/ Has(Front, n)
      BY <1>2, <1>4, <1>7, <2>2, <2>3 DEF SeenInv, Gapless
    <2>5. ASSUME Has(Front, n) PROVE Has(seen, n)
      <3>1. PICK h \in Range(Front) : h.kind = "data" /\ h.n = n
        BY <1>1, <2>5, HasRange
      <3>2. h \notin Range(rxq)
        <4>1. h \in Range(rxq) => seen[j].n < h.n
          BY <1>3, <1>4, <1>7, <3>1
        <4>. QED
          BY <2>1, <2>2, <3>1, <4>1
      <3>. QED
        BY <1>1, <1>2, <3>1, <3>2, HasRange
    <2>. QED
      BY <2>4, <2>5
  <1>. QED
    BY <1>3, <1>5, <1>6, <1>7 DEF SeenIsTrue

\* Whatever is lost on the way, restarted or pulled, the session is shown what happened,
\* once, in order, without an uncounted gap and, on the board that drains its queue,
\* nothing of the sessions before.
THEOREM SeenHolds == Spec => []SeenIsTrue
  <1>1. TypeOK /\ TypeOK' /\ SeenInv /\ [Next]_vars => SeenInv'
    BY OrderKept, StandsKept, SessionsKept, CompleteKept, GaplessKept DEF SeenInv
  <1>. QED
    BY TypeCorrect, SeenInit, SeenFollows, <1>1, PTL DEF Spec
=============================================================================
