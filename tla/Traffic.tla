------------------------------ MODULE Traffic ------------------------------
(***************************************************************************)
(* What the monitor shows of the bus and what it sends by itself: the      *)
(* periodic messages, kept by the window and fired by a thread of their    *)
(* own (session.rs periodic_loop), the bounded tap that feeds the sniffer  *)
(* table (sniffer-core), the decoded events of the other panels (app.rs),  *)
(* and the editing of a DBC signal in its message (gui/mod.rs dbc_section).*)
(***************************************************************************)
EXTENDS Integers, SequencesExt

CONSTANTS
  Worlds,
  TapCap,    \* SNIFF_CHANNEL_CAP
  LogCap,    \* PDO_LOG_CAP
  QueueCap   \* a bound of the model: commands and reports waiting

\* The adapter echoes what it sends, the session only listens; and bounds: changes
\* of the periodic list, its length, frames received, edits, sends that fail.
World == [echo : BOOLEAN, listen : BOOLEAN, changes : Nat, rows : 0..2, rx : Nat, edits : Nat, fails : Nat]

ASSUME TrafficConstantsOK ==
  Worlds \subseteq World /\ {TapCap, LogCap, QueueCap} \subseteq Nat \ {0}

VARIABLES
  list,     \* the periodic messages of the window
  sig,      \* the schedule last pushed
  ctrl,     \* schedules under way to the thread
  entries,  \* the thread's schedule
  cmds,     \* SendRaw commands for the session
  fired,    \* the thread's reports for the window
  echoes,   \* frames the adapter has sent and will echo
  tap,      \* the sniffer's bounded channel
  evs,      \* decoded events
  rows,     \* the sniffer's table: the payload of an identifier
  raw,      \* last_raw_bytes, the signals of each message as last decoded
  log,      \* the deduplicated PDO log
  compose,  \* the compose panel's drafts, or none
  ui,       \* where the window is in its frame
  last,     \* history: what the session saw last of an identifier
  lossy,    \* history: identifiers whose latest frame did not fit the tap
  count, world

list_vars == <<list, sig, ctrl, entries>>
bus_vars == <<echoes, tap, evs, last, lossy>>
view_vars == <<rows, raw, log>>
vars == <<list_vars, cmds, fired, bus_vars, view_vars, compose, ui, count, world>>

\* "p" is sent periodically, "d" and "e" are messages of nodes; the payload of all
\* is a pair of signals, 0 a value no node sends.
Periodic == "p"
Nodes == {"d", "e"}
Ids == {Periodic} \cup Nodes
Values == 0..3
Unseen == <<0, 0>>

Init ==
  /\ world \in Worlds
  /\ list = <<>> /\ sig = <<>> /\ ctrl = <<>> /\ entries = <<>>
  /\ cmds = <<>> /\ fired = <<>> /\ echoes = <<>> /\ tap = <<>> /\ evs = <<>>
  /\ rows = [i \in Ids |-> Unseen] /\ raw = [i \in Nodes |-> Unseen] /\ log = <<>>
  /\ compose = Unseen /\ ui = "events" /\ last = [i \in Ids |-> Unseen] /\ lossy = {}
  /\ count = [changes |-> 0, rx |-> 0, edits |-> 0, fails |-> 0]

Did(what) == count[what] < world[what] /\ count' = [count EXCEPT ![what] = @ + 1]

-----------------------------------------------------------------------------
(* The window: its periodic messages                                       *)

Change(l) ==
  /\ Did("changes") /\ list' = l
  /\ UNCHANGED <<sig, ctrl, entries, cmds, fired, bus_vars, view_vars, compose, ui, world>>

AddPeriodic(v) ==
  Len(list) < world.rows /\ Change(Append(list, [id |-> Periodic, data |-> <<v, v>>, enabled |-> TRUE]))

Toggle(i) == Change([list EXCEPT ![i].enabled = ~@])

RemovePeriodic(i) == Change(RemoveAt(list, i))

\* periodic_signature: a hash of everything the thread needs
Signature(l) == l

\* Send: the frame is queued and shown at once; nothing is queued if the session
\* only listens.
SendManual(v) ==
  /\ ui = "events" /\ Did("edits")
  /\ rows' = [rows EXCEPT ![Periodic] = <<v, v>>]
  /\ IF world.listen THEN UNCHANGED cmds
     ELSE Len(cmds) < QueueCap /\ cmds' = Append(cmds, [id |-> Periodic, data |-> <<v, v>>])
  /\ UNCHANGED <<list_vars, fired, bus_vars, raw, log, compose, ui, world>>

\* A frame of the window, second half: the schedule is pushed if it has changed,
\* then the thread's reports are taken into the table.
PushSchedule ==
  /\ ui = "push" /\ ui' = "events"
  /\ IF sig # Signature(list) THEN sig' = Signature(list) /\ ctrl' = Append(ctrl, list)
                              ELSE UNCHANGED <<sig, ctrl>>
  /\ rows' = IF fired = <<>> THEN rows ELSE [rows EXCEPT ![Periodic] = Last(fired).data]
  /\ fired' = <<>>
  /\ UNCHANGED <<list, entries, cmds, bus_vars, raw, log, compose, count, world>>

\* A frame, first half: all events, then the tap. The table keeps the latest payload of
\* an identifier, the log drops a payload equal to its last of the identifier.
LastOf(s, i) == SelectLastInSubSeq(s, 1, Len(s), LAMBDA e : e.id = i)

Capped(s) == IF Len(s) > LogCap THEN Tail(s) ELSE s

\* mutant: a payload that is anywhere in the log is not logged again
LoggedOnce(s, ev) == IF ev \in ToSet(s) THEN s ELSE Capped(Append(s, ev))

Logged(s, ev) ==
  LET k == LastOf(s, ev.id) IN IF k # 0 /\ s[k] = ev THEN s ELSE Capped(Append(s, ev))

TakeEvent ==
  /\ ui = "events" /\ evs # <<>> /\ evs' = Tail(evs)
  /\ raw' = [raw EXCEPT ![Head(evs).id] = Head(evs).data] /\ log' = Logged(log, Head(evs))
  /\ UNCHANGED <<list_vars, cmds, fired, echoes, tap, last, lossy, rows, compose, ui, count, world>>

DrainTap ==
  /\ ui = "events" /\ evs = <<>> /\ ui' = "push"
  /\ rows' = [i \in Ids |-> LET k == LastOf(tap, i) IN IF k = 0 THEN rows[i] ELSE tap[k].data]
  /\ tap' = <<>>
  /\ UNCHANGED <<list_vars, cmds, fired, echoes, evs, last, lossy, raw, log, compose, count, world>>

-----------------------------------------------------------------------------
(* The window: a signal is edited, alone or with the whole message         *)

\* mutant: the other signals of the message are sent as zeros
EncodedAlone(base, s, v) == [Unseen EXCEPT ![s] = v]

\* encode_dbc_signal_manual: the bits of one signal in the payload
Encoded(base, s, v) == [base EXCEPT ![s] = v]

Queue(frame) ==
  /\ ~world.listen /\ Len(cmds) < QueueCap /\ Did("edits")
  /\ cmds' = Append(cmds, frame)

\* The base is the payload last decoded; what is sent is not decoded.
EditSignal(i, v) ==
  /\ ui = "events" /\ raw[i] # Unseen
  /\ Queue([id |-> i, data |-> Encoded(raw[i], 1, v)])
  /\ UNCHANGED <<list_vars, fired, bus_vars, view_vars, compose, ui, world>>

OpenCompose ==
  /\ ui = "events" /\ raw["d"] # Unseen /\ compose = Unseen /\ ~world.listen /\ count.edits < world.edits
  /\ compose' = raw["d"]
  /\ UNCHANGED <<list_vars, cmds, fired, bus_vars, view_vars, ui, count, world>>

\* Send All: the draft of every signal; those not touched are as they were when
\* the panel was opened.
SendComposed(v) ==
  /\ ui = "events" /\ compose # Unseen
  /\ Queue([id |-> "d", data |-> Encoded(Encoded(raw["d"], 1, v), 2, compose[2])])
  /\ compose' = Unseen
  /\ UNCHANGED <<list_vars, fired, bus_vars, view_vars, ui, world>>

-----------------------------------------------------------------------------
(* periodic_loop                                                           *)

\* SetAll: the new entries are due at once.
TakeSchedule ==
  /\ ctrl # <<>> /\ ctrl' = Tail(ctrl) /\ entries' = Head(ctrl)
  /\ UNCHANGED <<list, sig, cmds, fired, bus_vars, view_vars, compose, ui, count, world>>

Fires(e) ==
  /\ e.enabled /\ Len(cmds) < QueueCap /\ Len(fired) < QueueCap
  /\ cmds' = IF world.listen THEN cmds ELSE Append(cmds, [id |-> e.id, data |-> e.data])
  /\ fired' = Append(fired, [id |-> e.id, data |-> e.data])

\* mutant: an entry fires once
FireOnce(k) ==
  /\ k \in DOMAIN entries /\ Fires(entries[k]) /\ entries' = [entries EXCEPT ![k].enabled = FALSE]
  /\ UNCHANGED <<list, sig, ctrl, bus_vars, view_vars, compose, ui, count, world>>

\* An entry is due: it is sent, unless the session listens, and reported; then it
\* waits for its next period.
Fire(k) ==
  /\ k \in DOMAIN entries /\ Fires(entries[k])
  /\ UNCHANGED <<list_vars, bus_vars, view_vars, compose, ui, count, world>>

-----------------------------------------------------------------------------
(* recv_loop                                                               *)

\* try_send: what does not fit is dropped
Tapped(frame) ==
  LET fits == Len(tap) < TapCap
  IN /\ last' = [last EXCEPT ![frame.id] = frame.data]
     /\ tap' = IF fits THEN Append(tap, frame) ELSE tap
     /\ lossy' = IF fits THEN lossy \ {frame.id} ELSE lossy \cup {frame.id}

\* SendRaw: sent, and tapped here if the adapter will not echo it; a failure is
\* only printed. A session that listens drops every command.
SendRaw(ok) ==
  /\ cmds # <<>> /\ cmds' = Tail(cmds)
  /\ CASE world.listen \/ ~ok -> UNCHANGED bus_vars
       [] ~world.listen /\ ok /\ world.echo -> Len(echoes) < QueueCap /\ echoes' = Append(echoes, Head(cmds)) /\ UNCHANGED <<tap, evs, last, lossy>>
       [] OTHER -> Tapped(Head(cmds)) /\ UNCHANGED <<echoes, evs>>
  /\ IF ok THEN UNCHANGED count ELSE Did("fails")
  /\ UNCHANGED <<list_vars, fired, view_vars, compose, ui, world>>

\* An echo is tapped and not decoded.
RecvEcho ==
  /\ echoes # <<>> /\ echoes' = Tail(echoes)
  /\ Tapped(Head(echoes))
  /\ UNCHANGED <<list_vars, cmds, fired, evs, view_vars, compose, ui, count, world>>

\* mutant: a frame is tapped only if its decoder knows it
RecvFrameFirst(f) ==
  /\ Did("rx") /\ evs' = Append(evs, f)
  /\ IF raw[f.id] = Unseen THEN Tapped(f)
     ELSE last' = [last EXCEPT ![f.id] = f.data] /\ UNCHANGED <<tap, lossy>>
  /\ UNCHANGED <<list_vars, cmds, fired, echoes, view_vars, compose, ui, world>>

\* A node's frame is tapped, then decoded.
RecvFrame(f) ==
  /\ Did("rx") /\ evs' = Append(evs, f) /\ Tapped(f)
  /\ UNCHANGED <<list_vars, cmds, fired, echoes, view_vars, compose, ui, world>>

-----------------------------------------------------------------------------

User ==
  /\ ui = "events"
  /\ \/ \E v \in 1..2 : AddPeriodic(v)
     \/ \E i \in DOMAIN list : Toggle(i) \/ RemovePeriodic(i)
     \/ \E i \in Nodes : EditSignal(i, 3)
     \/ OpenCompose \/ SendComposed(3) \/ SendManual(3)
Thread == TakeSchedule \/ \E k \in 1..2 : Fire(k)
NodeFrames == [id : {"d"}, data : {<<1, 1>>, <<2, 2>>}] \cup [id : {"e"}, data : {<<1, 1>>}]

Next ==
  \/ User \/ TakeEvent \/ DrainTap \/ PushSchedule \/ Thread
  \/ SendRaw(TRUE) \/ SendRaw(FALSE) \/ RecvEcho
  \/ \E f \in NodeFrames : RecvFrame(f)

Spec == Init /\ [][Next]_vars

\* Frames are drawn, the two threads run, every entry's period elapses.
FairSpec ==
  /\ Spec
  /\ WF_vars(TakeEvent) /\ WF_vars(DrainTap) /\ WF_vars(PushSchedule) /\ WF_vars(TakeSchedule)
  /\ \A k \in 1..2 : SF_vars(Fire(k))
  /\ WF_vars(SendRaw(TRUE)) /\ WF_vars(RecvEcho)

-----------------------------------------------------------------------------
(* Properties                                                              *)

On(v) == \E k \in DOMAIN list : list[k].enabled /\ list[k].data = <<v, v>>
Queued(v) == \E k \in DOMAIN cmds : cmds[k] = [id |-> Periodic, data |-> <<v, v>>]

\* A message that was switched off or removed is no longer sent after a while, and
\* one that stays on is sent again and again (session.rs:183-239).
WireFollowsList ==
  \A v \in 1..2 :
    /\ <>[]~On(v) => <>[]~Queued(v)
    /\ ~world.listen /\ <>[]On(v) => []<>Queued(v)

\* Unless the tap was full, the table shows of a node's message the latest frame
\* there was, its own transmissions included, once the window has caught up
\* (session.rs:122-127, sniffer-core apply).
TableIsLatest ==
  tap = <<>> => \A i \in Nodes \ lossy : rows[i] = last[i]

\* The log of payloads without repetitions still ends, for every message, in the
\* payload the panel shows, or has no room for it (app.rs update_pdo).
LogEndsInLatest ==
  \A i \in Nodes : LET k == LastOf(log, i) IN k # 0 => log[k].data = raw[i]

\* So the window shows the present, not a frame that was overtaken.
ShownIsLatest == TableIsLatest /\ LogEndsInLatest

\* A signal the user has not edited only goes out with a value its node has sent
\* (gui/mod.rs encode_dbc_signal_manual).
OthersAsReceived ==
  \A k \in DOMAIN cmds : cmds[k].id \in Nodes => cmds[k].data[2] # 0

\* "When full, frames are dropped: the aggregated table only cares about the latest
\* payload per ID" (session.rs:124-126).  Does not hold: the latest may be the one dropped.
TableCatchesUp == tap = <<>> /\ ui = "push" => \A i \in Nodes : rows[i] = last[i]
=============================================================================
