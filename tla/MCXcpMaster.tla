---------------------------- MODULE MCXcpMaster -----------------------------
(***************************************************************************)
(* Instances of XcpMaster for TLC.                                         *)
(***************************************************************************)
EXTENDS XcpMaster

C(op, addr, len) == [op |-> op, addr |-> addr, len |-> len]

\* A user who waits, a slave of bytes, a faultless bus.
Calm(commands) ==
  [commands |-> commands, hurried |-> FALSE, listen |-> FALSE,
   params |-> [order |-> "little", ag |-> 1, cto |-> 8],
   traffic |-> TRUE, timely |-> TRUE, tool |-> <<>>, maxLoss |-> 0, maxFaults |-> 0, errors |-> FALSE]

Session == {C("connect", 0, 0), C("upload", 1, 10), C("download", 20, 4), C("disconnect", 0, 0)}

\* A slave of words in the other byte order; reads of one and of three chunks,
\* a write too long for a frame, seed and key.
Words ==
  [Calm({C("connect", 0, 0), C("upload", 1, 15), C("upload", 30, 3), C("download", 20, 6),
         C("download", 40, 7), C("getSeed", 0, 1), C("unlock", 0, 4)})
     EXCEPT !.params = [order |-> "big", ag |-> 2, cto |-> 8]]

\* Lost frames, refused sends and errors.
Faulty == [Calm(Session) EXCEPT !.maxLoss = 2, !.maxFaults = 1, !.errors = TRUE]

\* Another tool measures, RustyCAN listens.
Tool(script, order) ==
  [Calm({}) EXCEPT !.listen = TRUE, !.tool = script, !.params = [order |-> order, ag |-> 1, cto |-> 8]]

Connect == Cmd("connect", "tool")
Sync == Cmd("startSync", "tool")
On(op, d) == [Cmd(op, "tool") EXCEPT !.daq = d]
Ptr(d, o) == [On("setDaqPtr", d) EXCEPT !.odt = o]
Entry(a, n) == [Cmd("writeDaq", "tool") EXCEPT !.addr = a, !.n = n]

\* Two lists of one and of two ODTs, one started alone, the other with all that
\* are selected.
TwoLists ==
  <<Connect, Ptr(0, 0), Entry(1, 2), Entry(5, 1), Ptr(0, 1), Entry(30, 4), On("startDaq", 0),
    Ptr(1, 0), Entry(20, 2), Entry(40, 1), On("selectDaq", 1), Sync>>

\* A list is stopped, cleared and configured anew, beside one that runs.
Reconfigured ==
  <<Connect, Ptr(1, 0), Entry(20, 2), On("startDaq", 1), Ptr(0, 0), Entry(1, 2), Entry(5, 1),
    Ptr(0, 1), Entry(40, 1), On("selectDaq", 0), Sync, On("stopDaq", 0), On("clearDaq", 0),
    Ptr(0, 0), Entry(5, 1), On("startDaq", 0)>>

\* A user who reads three objects without waiting; with it SuccessIsTrue does not hold
\* (README, section 6).
Hurried ==
  [Calm({C("connect", 0, 0), C("upload", 1, 3), C("upload", 20, 4), C("upload", 40, 5)})
     EXCEPT !.hurried = TRUE]
HurriedWorlds == {Hurried}

MCWorlds == {Calm(Session), Words, Faulty, Tool(TwoLists, "big"), Tool(Reconfigured, "little")}
MCRegions == {[addr |-> a, size |-> n] : a \in {1, 5, 20, 30, 40}, n \in {1, 2, 4}}
=============================================================================
