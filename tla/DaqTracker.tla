----------------------------- MODULE DaqTracker -----------------------------
(***************************************************************************)
(* What the passive observer of XCP knows of the slave's DAQ lists         *)
(* (xcp/daq.rs): the ODTs configured by the commands seen on the bus and,  *)
(* once a list is started, which packet identifier (PID) carries which of  *)
(* its ODTs.  An ODT is a sequence of entries, regions of memory packed    *)
(* one after the other into a DAQ frame.                                   *)
(***************************************************************************)
EXTENDS Integers, Sequences, FiniteSets, TLC

CONSTANT PidRange   \* number of packet identifiers; a PID is a byte in the code

ASSUME PidRangeOK == PidRange \in Nat \ {0}

NoPid == <<>>

\* OdtEntry; the placeholder below an entry that is written out of order
NoEntry == [addr |-> 0, size |-> 0]

\* DaqList::default and HashMap::entry(..).or_default()
NewList == [odts |-> <<>>, first |-> NoPid]
ListOf(lists, d) == IF d \in DOMAIN lists THEN lists[d] ELSE NewList

\* Vec::resize where it only grows
Grow(s, n, x) ==
  [i \in 1..(IF n > Len(s) THEN n ELSE Len(s)) |-> IF i <= Len(s) THEN s[i] ELSE x]

NewTracker == [lists |-> << >>, ptr |-> <<>>]

\* SET_DAQ_PTR: the pointer moves, the list gets the ODT if it lacks it.
SetPtr(t, d, odt, entry) ==
  LET l == ListOf(t.lists, d)
  IN [lists |-> (d :> [l EXCEPT !.odts = Grow(@, odt + 1, <<>>)]) @@ t.lists,
      ptr |-> <<d, odt, entry>>]

\* mutant: WRITE_DAQ leaves the pointer where it is
WriteNoAdvance(t, addr, size) ==
  IF t.ptr = <<>> THEN t
  ELSE LET d == t.ptr[1]  odt == t.ptr[2]  e == t.ptr[3]
           l == ListOf(t.lists, d)
           odts == Grow(l.odts, odt + 1, <<>>)
           row == [Grow(odts[odt + 1], e + 1, NoEntry) EXCEPT ![e + 1] = [addr |-> addr, size |-> size]]
       IN [lists |-> (d :> [l EXCEPT !.odts = [odts EXCEPT ![odt + 1] = row]]) @@ t.lists,
           ptr |-> t.ptr]

\* WRITE_DAQ: an entry at the pointer, which moves on to the next entry.
Write(t, addr, size) ==
  IF t.ptr = <<>> THEN t
  ELSE LET d == t.ptr[1]  odt == t.ptr[2]  e == t.ptr[3]
           l == ListOf(t.lists, d)
           odts == Grow(l.odts, odt + 1, <<>>)
           row == [Grow(odts[odt + 1], e + 1, NoEntry) EXCEPT ![e + 1] = [addr |-> addr, size |-> size]]
       IN [lists |-> (d :> [l EXCEPT !.odts = [odts EXCEPT ![odt + 1] = row]]) @@ t.lists,
           ptr |-> <<d, odt, e + 1>>]

\* CLEAR_DAQ_LIST; the pointer stays.
Clear(t, d) == [t EXCEPT !.lists = [x \in DOMAIN t.lists \ {d} |-> t.lists[x]]]

\* on_start_pid: a list that is not known is not added.
Started(t, d, pid) ==
  IF d \in DOMAIN t.lists THEN [t EXCEPT !.lists[d].first = <<pid>>] ELSE t

\* rebuild_pid_map: every ODT of a started list claims its PID; a HashMap has
\* no order, so of several claims to a PID any may be the last.
Odts(lists) ==
  UNION {{<<d, o>> : o \in 1..Len(lists[d].odts)} : d \in {x \in DOMAIN lists : lists[x].first # NoPid}}
PidOf(lists, slot) == (lists[slot[1]].first[1] + slot[2] - 1) % PidRange
PidMaps(lists) ==
  LET claimed == {PidOf(lists, s) : s \in Odts(lists)}
  IN {m \in [claimed -> Odts(lists)] : \A p \in claimed : PidOf(lists, m[p]) = p}

\* decode: the entries of the frame's ODT that fit, each with the bytes at its
\* place; placeholders take no room.
Decode(t, pids, pid, bytes) ==
  IF pid \notin DOMAIN pids \/ pids[pid][1] \notin DOMAIN t.lists
     \/ pids[pid][2] > Len(t.lists[pids[pid][1]].odts)
    THEN {}
    ELSE LET odt == t.lists[pids[pid][1]].odts[pids[pid][2]]
             before[i \in 0..Len(odt)] == IF i = 0 THEN 0 ELSE before[i - 1] + odt[i].size
         IN {[addr |-> odt[i].addr, raw |-> SubSeq(bytes, before[i - 1] + 1, before[i])] :
              i \in {j \in 1..Len(odt) : odt[j].size > 0 /\ before[j] <= Len(bytes)}}
=============================================================================
