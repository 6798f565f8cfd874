------------------------------- MODULE LogReplay -------------------------------
(***************************************************************************)
(* The log of a session (logger.rs) and its way back into the sniffer      *)
(* (sniffer-core): entries are buffered and flushed by count and by age,   *)
(* what the disk has is parsed and sorted, and the replay plays it into    *)
(* the table of latest frames, pausing, jumping and changing speed.        *)
(*                                                                         *)
(* Time is in ticks, a byte string is a sequence, a log line is a record.  *)
(***************************************************************************)
EXTENDS Integers, Sequences, FiniteSetsExt, SequencesExt

CONSTANTS
  FlushEntries,  \* entries that force a flush
  FlushAge,      \* age of the last flush that does
  MaxFrames      \* frames a document is cut at

ASSUME LogReplayAssumption == {FlushEntries, FlushAge, MaxFrames} \subseteq Nat \ {0}

-----------------------------------------------------------------------------
(* Log *)

NewLog == [disk |-> <<>>, buffer |-> <<>>, since |-> 0, last |-> 0]

\* Entries of frames carry identifier and bytes, notices neither.
FrameEntry(type, ts, id, raw) == [type |-> type, ts |-> ts, id |-> id, raw |-> raw]
Notice(type, ts) == [type |-> type, ts |-> ts]

Drained(l, now) == [l EXCEPT !.disk = l.disk \o l.buffer, !.buffer = <<>>, !.since = 0, !.last = now]

\* EventLogger::log at the monotonic time now
Logged(l, entry, now) ==
  LET g == [l EXCEPT !.buffer = Append(@, entry), !.since = @ + 1]
  IN  IF g.since >= FlushEntries \/ now - g.last >= FlushAge THEN Drained(g, now) ELSE g

-----------------------------------------------------------------------------
(* Document *)

\* Days since 1970 of a date after year 0, by eras of 400 years that begin in March.
days_from_civil(year, m, d) ==
  LET y == IF m <= 2 THEN year - 1 ELSE year
      era == y \div 400
      yoe == y - era * 400
      doy == (153 * (IF m > 2 THEN m - 3 ELSE m + 9) + 2) \div 5 + d - 1
      doe == yoe * 365 + yoe \div 4 - yoe \div 100 + doy
  IN  era * 146097 + doe - 719468

IsFrame(line) == line.type # "session_start" /\ "id" \in DOMAIN line

parse_line(line) ==
  [ts |-> line.ts, id |-> line.id, bytes |-> line.raw, is_tx |-> line.type \in {"TX", "TX_ECHO"}]

\* Mutant: the frames stay as they were written.
InFileOrder(frames) == frames

\* A stable sort by time stamp.
ByTime(frames) ==
  LET Before(i, j) == frames[i].ts < frames[j].ts \/ (frames[i].ts = frames[j].ts /\ i < j)
      Rank(i) == Cardinality({j \in DOMAIN frames : Before(j, i)}) + 1
  IN  [n \in DOMAIN frames |-> frames[CHOOSE i \in DOMAIN frames : Rank(i) = n]]

parse_document(lines) ==
  LET found == SelectSeq(lines, IsFrame)
      frames == [n \in DOMAIN found |-> parse_line(found[n])]
  IN  ByTime(SubSeq(frames, 1, Min({MaxFrames, Len(frames)})))

-----------------------------------------------------------------------------
(* Replay *)

\* SnifferModel::apply: a row has the latest payload of its identifier.
Applied(rows, f) ==
  [id \in DOMAIN rows \union {f.id} |->
     IF id # f.id THEN rows[id]
     ELSE [bytes |-> f.bytes, is_tx |-> f.is_tx,
           count |-> 1 + (IF id \in DOMAIN rows THEN rows[id].count ELSE 0)]]

BaseOf(frames) == IF frames = <<>> THEN 0 ELSE frames[1].ts

NewReplay(frames) ==
  [frames |-> frames, pos |-> 0, playing |-> FALSE, speed |-> 1, started |-> 0,
   base |-> BaseOf(frames), stream |-> BaseOf(frames), rows |-> <<>>]

Reset(r, now) ==
  [r EXCEPT !.rows = <<>>, !.pos = 0, !.playing = FALSE, !.started = now,
            !.base = BaseOf(r.frames), !.stream = BaseOf(r.frames)]

\* Mutant: a jump adds to the table that is there.
RebuildOnto(r, target, now) ==
  LET n == Min({target, Len(r.frames)})
      at == IF r.frames = <<>> THEN r.base ELSE r.frames[Max({n, 1})].ts
  IN  [r EXCEPT !.rows = FoldLeft(Applied, r.rows, SubSeq(r.frames, 1, n)), !.pos = n,
                !.stream = at, !.base = at, !.started = now]

RebuildTo(r, target, now) ==
  LET n == Min({target, Len(r.frames)})
      at == IF r.frames = <<>> THEN r.base ELSE r.frames[Max({n, 1})].ts
  IN  [r EXCEPT !.rows = FoldLeft(Applied, <<>>, SubSeq(r.frames, 1, n)), !.pos = n,
                !.stream = at, !.base = at, !.started = now]

\* Playing on from the end begins anew.
SetPlaying(r, play, now) ==
  LET s == IF play /\ r.pos >= Len(r.frames) THEN Reset(r, now) ELSE r
  IN  [s EXCEPT !.playing = play, !.base = s.stream, !.started = now]

Advance(r, now) ==
  LET stream == r.base + (now - r.started) * r.speed
      due == {n \in r.pos + 1..Len(r.frames) : \A k \in r.pos + 1..n : r.frames[k].ts <= stream}
      pos == Max(due \union {r.pos})
  IN  IF ~r.playing THEN r
      ELSE [r EXCEPT !.stream = stream, !.pos = pos, !.playing = pos < Len(r.frames),
                     !.rows = FoldLeft(Applied, r.rows, SubSeq(r.frames, r.pos + 1, pos))]

\* replay_controls: the buttons and sliders of one frame of the window, after Advance
Controls(r, now) ==
  {SetPlaying(r, ~r.playing, now), Reset(r, now)}
    \union {[r EXCEPT !.speed = v] : v \in {1, 2}}
    \union {RebuildTo(r, n, now) : n \in 0..Len(r.frames)}
=============================================================================
