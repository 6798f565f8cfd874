----------------------------- MODULE Workbench -----------------------------
(***************************************************************************)
(* The program around a session (gui/mod.rs, session.rs start): the        *)
(* connect form with its probe for adapters, its fallback and its lists,   *)
(* the monitor, the session thread that opens the adapter and opens it     *)
(* again when it was unplugged, the periodic thread that shares the        *)
(* command queue, and the settings kept on disk.                           *)
(***************************************************************************)
EXTENDS Integers, Sequences, FiniteSets

CONSTANTS
  Worlds,
  MaxThreads,   \* sessions a run of the model may start
  MaxQueue,     \* commands waiting for a session
  MaxNodes      \* rows of the node list

\* Whether the program is started to connect by itself, the adapter its settings
\* name, whether periodic messages are sent, whether the queue to a dongle may be full
\* when its adapter is dropped, and bounds: sessions,
\* user's edits, plugs pulled or put in, restarts of the program.
World == [auto : BOOLEAN, kind : {"kcan", "kcanS", "summit", "net"}, periodic : BOOLEAN,
          full : BOOLEAN, sessions : 1..MaxThreads, edits : Nat, moves : Nat, restarts : Nat]

ASSUME WorkbenchConstantsOK ==
  /\ Worlds \subseteq World
  /\ {MaxThreads, MaxQueue, MaxNodes} \subseteq Nat \ {0}

VARIABLES
  plugged,  \* devices that can be reached: dongles "S" and "T", "summit", "net"
  screen,   \* "connect" or "monitor"
  form,     \* the connect form; in the monitor the copy to come back to
  probe,    \* the probe thread: [st, seen]
  disk,     \* the settings on disk
  threads,  \* every session thread ever started; the last is the monitor's
  left,     \* the user has disconnected and not connected since
  count,    \* edits, moves and restarts so far
  world

vars == <<plugged, screen, form, probe, disk, threads, left, count, world>>

\* A row of the node list: empty, a node number or no number at all.
Ids == {0, 1, 255}
Kinds == {"kcan", "kcanS", "summit", "net"}

\* The devices an adapter kind stands for; "kcanS" is pinned to a serial number.
Hits(kind) == CASE kind = "kcan" -> {"S", "T"} [] kind = "kcanS" -> {"S"} [] OTHER -> {kind}

Available(kind, seen) == Hits(kind) \cap seen # {}

NoProbe == [st |-> "none", seen |-> {}]
Filled(ids) == SelectSeq(ids, LAMBDA id : id # 0)
Numbers(ids) == SelectSeq(ids, LAMBDA id : id \in 1..127)
Distinct(s) == Cardinality({s[i] : i \in DOMAIN s}) = Len(s)

\* PersistedConfig: what is kept of a form, and the form it gives
Kept(f) == [kind |-> f.kind, serial |-> f.serial, uri |-> f.uri, ids |-> f.ids]
IntoForm(d, auto) ==
  [kind |-> d.kind, serial |-> d.serial, uri |-> d.uri, ids |-> d.ids, seen |-> {}, detected |-> FALSE,
   auto |-> auto, confirm |-> 0, warn |-> FALSE]

ConfigFile(w) == [kind |-> w.kind, serial |-> IF w.kind = "kcanS" THEN "S" ELSE "",
                  uri |-> IF w.kind = "net" THEN "good" ELSE "none", ids |-> <<1>>]

Init ==
  /\ world \in Worlds
  /\ plugged \in IF world.kind = "net" THEN {{"net"}} ELSE {{"S", "T"}, {"S", "summit"}}
  /\ screen = "connect" /\ form = IntoForm(ConfigFile(world), world.auto)
  /\ probe = NoProbe /\ disk = ConfigFile(world) /\ threads = <<>> /\ left = FALSE
  /\ count = [edits |-> 0, moves |-> 0, restarts |-> 0]

Cur == Len(threads)

-----------------------------------------------------------------------------
(* Connect screen                                                          *)

\* The probe thread looks for every kind of adapter at once.
Launch ==
  /\ screen = "connect" /\ probe.st = "none"
  /\ probe' = [st |-> "running", seen |-> {}]
  /\ UNCHANGED <<plugged, screen, form, disk, threads, left, count, world>>

Probed ==
  /\ probe.st = "running"
  /\ probe' = [st |-> "done", seen |-> IF form.uri = "good" THEN plugged ELSE plugged \ {"net"}]
  /\ UNCHANGED <<plugged, screen, form, disk, threads, left, count, world>>

\* try_fallback_adapter: between a Summit adapter and a dongle, any dongle
Fallback(kind) == CASE kind = "summit" -> {"kcan"} [] kind \in {"kcan", "kcanS"} -> {"summit"} [] OTHER -> {}

\* mutant: a probe that finds nothing ends connecting by itself
DrainedForgets(f, seen) ==
  IF Available(f.kind, seen) THEN [f EXCEPT !.seen = seen \cap {"S", "T"}, !.detected = TRUE]
  ELSE [f EXCEPT !.seen = seen \cap {"S", "T"}, !.detected = FALSE, !.auto = FALSE]

\* The result of a probe: the selected adapter is there, or its address is well
\* formed, or another kind takes its place.
Drained(f, seen) ==
  LET g == [f EXCEPT !.seen = seen \cap {"S", "T"}]
      others == {k \in Fallback(f.kind) : Available(k, seen)}
  IN IF Available(f.kind, seen) \/ (f.kind = "net" /\ f.uri = "good") THEN [g EXCEPT !.detected = TRUE]
     ELSE IF others # {} THEN [g EXCEPT !.detected = TRUE, !.kind = CHOOSE k \in others : TRUE]
     ELSE [g EXCEPT !.detected = FALSE]

\* try_connect: every row that is filled in is a number, none twice.
Acceptable(ids) == Filled(ids) = Numbers(ids) /\ Distinct(Numbers(ids))

NewThread(f) ==
  [pc |-> "opening", kind |-> f.kind, ids |-> Numbers(f.ids), dev |-> "", cmds |-> 0, window |-> TRUE,
   ticking |-> TRUE, evs |-> {}]

Warned(f) == [f EXCEPT !.warn = ~Distinct(Numbers(f.ids))]

\* try_connect with an acceptable form: a session is started, the form is saved, and
\* the monitor keeps a copy of it.
Connected(f) ==
  /\ Cur < world.sessions
  /\ screen' = "monitor" /\ form' = f /\ probe' = NoProbe /\ disk' = Kept(f)
  /\ threads' = Append(threads, NewThread(f))

\* One frame of the screen: the probe's result, then the Connect button, pressed
\* by the user or by itself, then the warnings. The form the monitor will come
\* back to is a copy made before "auto" is cleared.
ConnectFrame(click) ==
  /\ screen = "connect"
  /\ LET f == IF probe.st = "done" THEN Drained(form, probe.seen) ELSE form
         go == f.detected /\ ~f.warn /\ (click \/ f.auto)
     IN /\ probe.st = "done" \/ go
        /\ IF go /\ Acceptable(f.ids)
             THEN Connected(f)
             ELSE /\ form' = Warned([f EXCEPT !.auto = f.auto /\ ~(go /\ click)])
                  /\ probe' = IF probe.st = "done" THEN NoProbe ELSE probe
                  /\ UNCHANGED <<screen, disk, threads>>
        /\ left' = (left /\ ~click)
  /\ UNCHANGED <<plugged, count, world>>

Edit(f) ==
  /\ screen = "connect" /\ count.edits < world.edits
  /\ form' = Warned(f)
  /\ count' = [count EXCEPT !.edits = @ + 1]
  /\ UNCHANGED <<plugged, screen, probe, disk, threads, left, world>>

\* Another adapter: a dongle is the one picked before. Whether it is there is not
\* asked anew until the next probe.
Select(kind) == Edit([form EXCEPT !.kind = IF kind = "kcan" /\ form.serial = "S" THEN "kcanS" ELSE kind])

PickDongle(serial) ==
  /\ form.kind \in {"kcan", "kcanS"} /\ (serial = "" \/ serial \in form.seen)
  /\ Edit([form EXCEPT !.serial = serial, !.kind = IF serial = "" THEN "kcan" ELSE "kcanS"])

ImportQr(uri) == form.kind = "net" /\ Edit([form EXCEPT !.uri = uri])

AddNode == Len(form.ids) < MaxNodes /\ Edit([form EXCEPT !.ids = Append(@, 0)])

EditNode(i, id) == form.ids[i] # id /\ form.confirm # i /\ Edit([form EXCEPT !.ids[i] = id])

AskRemove(i) == form.confirm # i /\ Edit([form EXCEPT !.confirm = i])

CancelRemove == form.confirm # 0 /\ Edit([form EXCEPT !.confirm = 0])

RowsWithout(i) == [j \in 1..(Len(form.ids) - 1) |-> form.ids[IF j < i THEN j ELSE j + 1]]

RemoveNode ==
  form.confirm # 0 /\ Edit([form EXCEPT !.ids = RowsWithout(form.confirm), !.confirm = 0])

-----------------------------------------------------------------------------
(* Monitor screen                                                          *)

\* The monitor goes with its ends of the channels; the form comes back with the
\* detection of before, without a probe.
Leave ==
  /\ screen' = "connect" /\ probe' = NoProbe
  /\ threads' = [threads EXCEPT ![Cur].window = FALSE, ![Cur].evs = {}]
  /\ UNCHANGED <<plugged, form, disk, count, world>>

Disconnect == screen = "monitor" /\ Leave /\ left' = TRUE

\* mutant: the monitor only draws
MonitorFrameDraws == FALSE

\* The events of a frame: an error or a lost adapter ends the monitor.
MonitorFrame ==
  /\ screen = "monitor" /\ threads[Cur].evs # {}
  /\ IF threads[Cur].evs \cap {"error", "lost"} # {}
       THEN Leave
       ELSE /\ threads' = [threads EXCEPT ![Cur].evs = {}]
            /\ UNCHANGED <<plugged, screen, form, probe, disk, count, world>>
  /\ UNCHANGED left

Put(i) == threads[i].cmds < MaxQueue /\ threads' = [threads EXCEPT ![i].cmds = @ + 1]

\* A button of any panel queues a command.
Command ==
  /\ screen = "monitor" /\ threads[Cur].pc # "ended" /\ Put(Cur)
  /\ UNCHANGED <<plugged, screen, form, probe, disk, left, count, world>>

-----------------------------------------------------------------------------
(* Session thread                                                          *)

Held == {threads[i].dev : i \in {j \in DOMAIN threads : threads[j].dev # ""}}

Step(i, t) ==
  /\ threads' = [threads EXCEPT ![i] = t]
  /\ UNCHANGED <<plugged, screen, form, probe, disk, left, count, world>>

Told(t, ev) == [t EXCEPT !.evs = IF t.window THEN @ \cup {ev} ELSE @]

\* open_adapter: a device of the kind that nobody holds, or why not: absent, or
\* held by another thread, whose release may come later
Openings(kind) == (Hits(kind) \cap plugged) \ Held

OpenFirst(i) ==
  LET t == threads[i] IN
  /\ t.pc = "opening"
  /\ \/ \E d \in Openings(t.kind) : Step(i, [t EXCEPT !.pc = "check", !.cmds = 0, !.dev = d])
     \/ /\ (Hits(t.kind) \cap plugged) \cap Held # {} \/ Openings(t.kind) = {}
        /\ Step(i, Told([t EXCEPT !.pc = "ended"], "error"))

Gone(t) == ~t.window /\ ~t.ticking

\* The session ends and drops its adapter. That of a dongle asks its reader to end by a
\* request which a full queue refuses, and waits for the reader all the same.
Dropped(t) ==
  {[t EXCEPT !.pc = "ended", !.dev = ""]}
    \cup (IF world.full /\ t.dev \in {"S", "T"} THEN {[t EXCEPT !.pc = "joining"]} ELSE {})

\* recv_loop, after it has taken every command there was: a look at whether the
\* senders are gone, which takes a command that has just come and drops it ...
Check(i) ==
  LET t == threads[i] IN
  /\ t.pc = "check"
  /\ IF t.cmds > 0 THEN Step(i, [t EXCEPT !.cmds = @ - 1, !.pc = "recv"])
     ELSE IF Gone(t) THEN \E u \in Dropped(t) : Step(i, u)
     ELSE Step(i, [t EXCEPT !.pc = "recv"])

\* The reader ends by itself when the dongle is pulled.
Joined(i) ==
  /\ threads[i].pc = "joining" /\ threads[i].dev \notin plugged
  /\ Step(i, [threads[i] EXCEPT !.pc = "ended", !.dev = ""])

\* ... then a frame, or half a second without one, and all commands there are; or
\* the adapter is gone. A peer in the network that says nothing any more is not missed.
Recv(i) ==
  LET t == threads[i] IN
  /\ t.pc = "recv"
  /\ \/ /\ t.dev \in plugged \cup {"net"}
        /\ Step(i, [t EXCEPT !.pc = "check", !.cmds = 0])
     \/ /\ t.dev \notin plugged
        /\ Step(i, Told([t EXCEPT !.pc = "waiting", !.dev = ""], "lost"))

\* mutant: the thread polls on after its window
RetryAlways(i) ==
  LET t == threads[i] IN
  /\ t.pc = "waiting"
  /\ \/ \E d \in Openings(t.kind) :
          Step(i, Told([t EXCEPT !.cmds = 0, !.pc = "check", !.dev = d], "back"))
     \/ Openings(t.kind) = {} /\ Step(i, [t EXCEPT !.cmds = IF @ > 0 THEN @ - 1 ELSE 0])

\* The reconnect loop: a sleep, the same look that drops a command, another try.
Retry(i) ==
  LET t == threads[i]
      u == [t EXCEPT !.cmds = IF @ > 0 THEN @ - 1 ELSE 0]
  IN /\ t.pc = "waiting"
     /\ IF t.cmds = 0 /\ Gone(t) THEN Step(i, [t EXCEPT !.pc = "ended"])
        ELSE \/ \E d \in Openings(t.kind) : Step(i, Told([u EXCEPT !.pc = "check", !.cmds = 0, !.dev = d], "back"))
             \/ Openings(t.kind) = {} /\ Step(i, u)

\* periodic_loop queues frames until the window is gone, which it sees within
\* 250 ms.
Tick(i) ==
  /\ threads[i].ticking /\ world.periodic /\ threads[i].pc # "ended" /\ Put(i)
  /\ UNCHANGED <<plugged, screen, form, probe, disk, left, count, world>>

TickEnds(i) ==
  threads[i].ticking /\ ~threads[i].window /\ Step(i, [threads[i] EXCEPT !.ticking = FALSE])

-----------------------------------------------------------------------------
(* Outside                                                                 *)

Move(d) ==
  /\ count.moves < world.moves /\ count' = [count EXCEPT !.moves = @ + 1]
  /\ plugged' = IF d \in plugged THEN plugged \ {d} ELSE plugged \cup {d}
  /\ UNCHANGED <<screen, form, probe, disk, threads, left, world>>

\* The program is killed and started again: with its settings file if it was given
\* one, else with what it had saved.
Restart ==
  /\ count.restarts < world.restarts /\ count' = [count EXCEPT !.restarts = @ + 1]
  /\ screen' = "connect" /\ probe' = NoProbe /\ left' = FALSE
  /\ form' = IntoForm(IF world.auto THEN ConfigFile(world) ELSE disk, world.auto)
  /\ threads' = [i \in DOMAIN threads |->
                   [threads[i] EXCEPT !.pc = "ended", !.dev = "", !.window = FALSE, !.ticking = FALSE,
                                      !.cmds = 0, !.evs = {}]]
  /\ UNCHANGED <<plugged, disk, world>>

-----------------------------------------------------------------------------

Frames == ConnectFrame(FALSE) \/ MonitorFrame
Thread(i) ==
  OpenFirst(i) \/ Check(i) \/ Joined(i) \/ Recv(i) \/ Retry(i)
User ==
  \/ ConnectFrame(TRUE) \/ Disconnect \/ Command
  \/ \E k \in {"kcan", "summit", "net"} : Select(k)
  \/ \E s \in {"", "S"} : PickDongle(s)
  \/ \E u \in {"none", "good"} : ImportQr(u)
  \/ AddNode \/ CancelRemove \/ RemoveNode
  \/ \E i \in DOMAIN form.ids : AskRemove(i) \/ \E id \in Ids : EditNode(i, id)

Next ==
  \/ Launch \/ Probed \/ Frames \/ User \/ Restart
  \/ \E d \in Hits(world.kind) \cup Hits("summit") : Move(d)
  \/ \E i \in DOMAIN threads : Thread(i) \/ Tick(i) \/ TickEnds(i)

Spec == Init /\ [][Next]_vars

\* Frames are drawn, threads run. Nothing makes the user or the outside act.
FairSpec ==
  /\ Spec /\ WF_vars(Launch) /\ WF_vars(Probed) /\ WF_vars(Frames)
  /\ \A i \in 1..MaxThreads :
       WF_vars(i \in DOMAIN threads /\ Thread(i)) /\ WF_vars(i \in DOMAIN threads /\ TickEnds(i))

-----------------------------------------------------------------------------
(* Properties                                                              *)

\* The form and the threads have their types; the row a question is about exists
\* (gui/mod.rs:1804-1812).
TypeOK ==
  /\ screen \in {"connect", "monitor"} /\ form.kind \in Kinds
  /\ form.confirm \in 0..Len(form.ids) /\ Len(form.ids) <= MaxNodes
  /\ \A i \in DOMAIN threads : threads[i].pc \in {"opening", "check", "recv", "waiting", "joining", "ended"}
  /\ \A i \in DOMAIN threads : threads[i].cmds \in 0..MaxQueue
  /\ screen = "monitor" => Cur > 0 /\ threads[Cur].window

\* A session whose window is gone ends and frees its adapter, though its queue may
\* still be filled and it may be waiting for the adapter to come back
\* (session.rs:584-587, 1697-1700). Only where the queue to a dongle is full at that
\* moment does it wait, with the dongle, until that is pulled (kcan/mod.rs:259-280).
LeftThreadsEnd ==
  \A i \in 1..MaxThreads :
    LET Is(st) == i \in DOMAIN threads /\ threads[i].pc = st
        Waits == Is("joining") /\ world.full /\ threads[i].dev \in plugged
    IN  /\ (i \in DOMAIN threads /\ ~threads[i].window) ~> (Is("ended") \/ Waits)
        /\ Is("joining") ~> (Is("ended") \/ Waits)

\* The monitor never stays with a session that has lost or never got its adapter
\* (gui/mod.rs:2594-2620), but for one that has lost its peer in the network and does not
\* notice (kcan_net.rs:298-303).
MonitorIsServed ==
  []<>(screen = "connect" \/ (Cur > 0 /\ threads[Cur].dev \in plugged \cup {"net"}))

\* Started to connect by itself, the program does, once the adapter is there for
\* good, with no click (gui/mod.rs:1229-1262).
ConnectsByItself ==
  (world.auto /\ <>[](Available(world.kind, plugged) /\ count.edits = 0)) => <>(screen = "monitor")

\* "there is no reconnect loop after a deliberate disconnect" (gui/mod.rs:1237-1240).
\* Does not hold of a program that was started to connect by itself.
NoReconnect == [][left /\ screen = "connect" /\ screen' = "monitor" => ~left']_vars
=============================================================================
