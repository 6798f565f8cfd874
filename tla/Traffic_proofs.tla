--------------------------- MODULE Traffic_proofs ---------------------------
(***************************************************************************)
(* What the monitor shows is the latest there was, and what it sends of    *)
(* signals nobody edited is what their nodes sent, for every size of the   *)
(* tap, the log and the queues and any number of frames, edits, changes    *)
(* and failures, on either kind of adapter.                                *)
(***************************************************************************)
EXTENDS Traffic, SequenceTheorems, WellFoundedInduction, TLAPS

Pairs == Values \X Values
Frames == [id : Ids, data : Pairs]
Entries == [id : {Periodic}, data : Pairs, enabled : BOOLEAN]

TypeOK ==
  /\ list \in Seq(Entries) /\ sig \in Seq(Entries) /\ entries \in Seq(Entries)
  /\ ctrl \in Seq(Seq(Entries))
  /\ cmds \in Seq(Frames) /\ fired \in Seq(Frames) /\ echoes \in Seq(Frames)
  /\ tap \in Seq(Frames) /\ evs \in Seq(NodeFrames) /\ log \in Seq(NodeFrames)
  /\ rows \in [Ids -> Pairs] /\ raw \in [Nodes -> Pairs] /\ last \in [Ids -> Pairs]
  /\ compose \in Pairs /\ lossy \subseteq Ids /\ world \in World

\* The last element of a queue that is about i, without reference to LastOf.
IsLast(q, k, i) ==
  k \in 1..Len(q) /\ q[k].id = i /\ \A j \in 1..Len(q) : j > k => q[j].id # i

\* Nothing in a queue is about i.
Silent(q, i) == \A k \in 1..Len(q) : q[k].id # i

\* The tap and the table together know the latest frame of i: the last one in the
\* tap, or the row if there is none.
TapTells(i) ==
  /\ \A k \in 1..Len(tap) : IsLast(tap, k, i) => tap[k].data = last[i]
  /\ Silent(tap, i) => rows[i] = last[i]

\* The same of every node whose latest frame was not dropped: TableIsLatest while
\* the tap is not empty.
TableInv == \A i \in Nodes \ lossy : TapTells(i)

\* LogEndsInLatest, by position.
LogInv ==
  \A i \in Nodes : \A k \in 1..Len(log) : IsLast(log, k, i) => log[k].data = raw[i]

\* What was decoded, what is being composed and what is queued for a node carries a
\* second signal a node has sent.
Heard(pair) == pair = Unseen \/ pair[2] # 0
HeardInv ==
  /\ \A i \in Nodes : Heard(raw[i])
  /\ Heard(compose)
  /\ OthersAsReceived

-----------------------------------------------------------------------------
(* Queues                                                                  *)

\* A set of positions of a queue has a greatest one.
LEMMA Greatest ==
  ASSUME NEW n \in Nat, NEW I \in SUBSET (1..n), I # {}
  PROVE  Max(I) \in I /\ \A j \in I : Max(I) >= j
<1> DEFINE R == OpToRel(<, Nat)
           T == {n - k : k \in I}
<1> HIDE DEF R
<1>1. T \subseteq Nat /\ T # {}
  <2>1. ASSUME NEW k \in I PROVE n - k \in Nat
    OBVIOUS
  <2>2. PICK k \in I : TRUE
    OBVIOUS
  <2>3. n - k \in T
    OBVIOUS
  <2> QED
    BY <2>1, <2>3
<1>2. PICK x \in T : \A y \in T : ~ (<<y, x>> \in R)
  <2> HIDE DEF T
  <2> QED
    BY <1>1, NatLessThanWellFounded, WFMin DEF R
<1>3. ASSUME NEW y \in Nat, NEW z \in Nat, y < z
      PROVE  <<y, z>> \in R
  BY <1>3, Zenon DEF R, OpToRel
<1>4. PICK m \in I : x = n - m
  OBVIOUS
<1>5. ASSUME NEW j \in I PROVE m >= j
  <2>1. ~ (<<n - j, x>> \in R)
    BY <1>2
  <2>2. ~ (n - j < x)
    BY <2>1, <1>1, <1>3
  <2> QED
    BY <2>2, <1>4
<1> QED
  BY <1>5 DEF Max

\* LastOf finds the last element about i, and 0 only if there is none.
LEMMA LastOfIs ==
  ASSUME NEW q, Len(q) \in Nat, NEW i
  PROVE  \/ LastOf(q, i) = 0 /\ \A k \in 1..Len(q) : q[k].id # i
         \/ LastOf(q, i) # 0 /\ IsLast(q, LastOf(q, i), i)
<1> DEFINE I == {k \in 1..Len(q) : q[k].id = i}
<1>1. LastOf(q, i) = IF I # {} THEN Max(I) ELSE 0
  BY DEF LastOf, SelectLastInSubSeq
<1>2. CASE I = {}
  BY <1>1, <1>2
<1>3. CASE I # {}
  <2>1. Max(I) \in I /\ \A j \in I : Max(I) >= j
    BY <1>3, Greatest
  <2> DEFINE k == Max(I)
  <2>2. k \in 1..Len(q) /\ q[k].id = i /\ \A j \in I : k >= j
    BY <2>1
  <2>3. LastOf(q, i) = k
    BY <1>1, <1>3
  <2> HIDE DEF k
  <2>4. IsLast(q, k, i)
    BY <2>2 DEF IsLast
  <2> QED
    BY <2>2, <2>3, <2>4
<1> QED
  BY <1>2, <1>3

\* Queue a is q and e after it, as far as i is concerned: e is the last about its own
\* identifier, the last about another is where it was.
Lengthened(a, q, e, i) ==
  /\ \A k \in 1..Len(a) : IsLast(a, k, i) /\ e.id = i => a[k] = e
  /\ \A k \in 1..Len(a) : IsLast(a, k, i) /\ e.id # i => IsLast(q, k, i) /\ a[k] = q[k]
  /\ Silent(a, i) => e.id # i /\ Silent(q, i)

\* That is what adding an element does.
LEMMA LastAfterAppend ==
  ASSUME NEW S, NEW q \in Seq(S), NEW e \in S, NEW i
  PROVE  Append(q, e) \in Seq(S) /\ Lengthened(Append(q, e), q, e, i)
<1> DEFINE a == Append(q, e)
<1>1. /\ a \in Seq(S) /\ Len(q) \in Nat /\ Len(a) = Len(q) + 1 /\ a[Len(q) + 1] = e
      /\ \A j \in 1..Len(q) : a[j] = q[j]
  BY AppendProperties, LenProperties
<1> HIDE DEF a
<1>2. ASSUME NEW k, IsLast(a, k, i), e.id = i PROVE a[k] = e
  <2>1. k \in 1..Len(q) + 1 /\ ~ (Len(q) + 1 > k)
    BY <1>1, <1>2 DEF IsLast
  <2> QED
    BY <1>1, <2>1
<1>3. ASSUME NEW k, IsLast(a, k, i), e.id # i PROVE IsLast(q, k, i) /\ a[k] = q[k]
  <2>1. k \in 1..Len(q)
    BY <1>1, <1>3 DEF IsLast
  <2> QED
    BY <1>1, <1>3, <2>1 DEF IsLast
<1>4. Silent(a, i) => e.id # i /\ Silent(q, i)
  BY <1>1 DEF Silent
<1> QED
  BY <1>1, <1>2, <1>3, <1>4 DEF a, Lengthened

\* The last element about i is still the last when the first of the queue is taken.
LEMMA LastAfterTail ==
  ASSUME NEW S, NEW q \in Seq(S), q # <<>>, NEW i
  PROVE  /\ Tail(q) \in Seq(S)
         /\ \A k : IsLast(Tail(q), k, i) =>
              k + 1 \in 1..Len(q) /\ IsLast(q, k + 1, i) /\ Tail(q)[k] = q[k + 1]
<1> DEFINE t == Tail(q)
<1>1. t \in Seq(S) /\ Len(q) \in Nat /\ Len(t) = Len(q) - 1 /\ \A j \in 1..Len(t) : t[j] = q[j + 1]
  BY HeadTailProperties, LenProperties
<1> HIDE DEF t
<1>2. ASSUME NEW k, IsLast(t, k, i)
      PROVE  k + 1 \in 1..Len(q) /\ IsLast(q, k + 1, i) /\ t[k] = q[k + 1]
  <2>1. k \in 1..Len(t) /\ t[k].id = i /\ t[k] = q[k + 1] /\ k + 1 \in 1..Len(q)
    BY <1>1, <1>2 DEF IsLast
  <2>2. ASSUME NEW j \in 1..Len(q), j > k + 1 PROVE q[j].id # i
    <3>1. j - 1 \in 1..Len(t) /\ j - 1 > k /\ t[j - 1] = q[(j - 1) + 1] /\ (j - 1) + 1 = j
      BY <1>1, <2>1, <2>2
    <3> QED
      BY <1>2, <3>1 DEF IsLast
  <2> QED
    BY <2>1, <2>2 DEF IsLast
<1> QED
  BY <1>1, <1>2 DEF t

\* Taking the first of a queue leaves nothing that was not in it.
LEMMA TailHasNoMore ==
  ASSUME NEW S, NEW q \in Seq(S), q # <<>>
  PROVE  /\ Tail(q) \in Seq(S) /\ Head(q) \in S
         /\ \A k \in DOMAIN Tail(q) : k + 1 \in DOMAIN q /\ Tail(q)[k] = q[k + 1]
  BY HeadTailProperties, LenProperties

\* Adding an element adds it alone.
LEMMA AppendAddsOne ==
  ASSUME NEW S, NEW q \in Seq(S), NEW e \in S
  PROVE  /\ Append(q, e) \in Seq(S)
         /\ \A k \in DOMAIN Append(q, e) :
              Append(q, e)[k] = e \/ (k \in DOMAIN q /\ Append(q, e)[k] = q[k])
  BY AppendProperties, LenProperties

\* The last element of a queue is of the queue.
LEMMA LastIsOf ==
  ASSUME NEW S, NEW q \in Seq(S), q # <<>>
  PROVE  Last(q) \in S
  BY EmptySeq, LenProperties, ElementOfSeq DEF Last

\* A message that is taken off the list leaves a list of messages.
LEMMA RemovedIsList ==
  ASSUME NEW S, NEW q \in Seq(S), NEW i \in DOMAIN q
  PROVE  RemoveAt(q, i) \in Seq(S)
<1> Len(q) \in Nat /\ i \in 1..Len(q) /\ \A j \in 1..Len(q) : q[j] \in S
  BY LenProperties, ElementOfSeq
<1>1. SubSeq(q, 1, i - 1) \in Seq(S)
  <2> i - 1 \in Int /\ \A j \in 1..(i - 1) : q[j] \in S
    OBVIOUS
  <2> QED
    BY SubSeqProperties
<1>2. SubSeq(q, i + 1, Len(q)) \in Seq(S)
  <2> i + 1 \in Int /\ \A j \in (i + 1)..Len(q) : q[j] \in S
    OBVIOUS
  <2> QED
    BY SubSeqProperties
<1> QED
  BY <1>1, <1>2, ConcatProperties DEF RemoveAt

-----------------------------------------------------------------------------
(* Frames and payloads                                                     *)

\* A payload with one signal set is a payload; the other signal is as it was.
LEMMA EncodedIsPair ==
  ASSUME NEW base \in Pairs, NEW v \in Values
  PROVE  /\ Encoded(base, 1, v) \in Pairs /\ Encoded(base, 1, v)[2] = base[2]
         /\ Encoded(base, 2, v) \in Pairs /\ Encoded(base, 2, v)[2] = v
  BY DEF Encoded, Pairs

\* Both halves of a payload are values.
LEMMA PairValues ==
  ASSUME NEW pair \in Pairs
  PROVE  pair[1] \in Values /\ pair[2] \in Values
  BY DEF Pairs

\* What the window writes are payloads.
LEMMA Payloads ==
  /\ Unseen \in Pairs /\ 3 \in Values
  /\ \A v \in 1..3 : <<v, v>> \in Pairs
  BY DEF Unseen, Pairs, Values

\* A node's frame is a frame, and its second signal is not zero.
LEMMA NodeFrame ==
  ASSUME NEW f \in NodeFrames
  PROVE  /\ f \in Frames /\ f.id \in Nodes /\ f.id \in Ids /\ f.data \in Pairs
         /\ Heard(f.data)
  BY DEF NodeFrames, Frames, Nodes, Ids, Pairs, Values, Heard

-----------------------------------------------------------------------------
(* Types                                                                   *)

\* The initial state is well typed.
LEMMA InitTyped == Init => TypeOK
<1> SUFFICES ASSUME Init PROVE TypeOK
  OBVIOUS
<1>1. \A S : <<>> \in Seq(S)
  OBVIOUS
<1>2. world \in World
  BY TrafficConstantsOK DEF Init
<1> QED
  BY <1>1, <1>2, Payloads DEF Init, TypeOK

\* Changes of the periodic list keep it a list of messages.
LEMMA ChangesTyped ==
  ASSUME TypeOK,
         \/ \E v \in 1..2 : AddPeriodic(v)
         \/ \E i \in DOMAIN list : Toggle(i) \/ RemovePeriodic(i)
  PROVE  list' \in Seq(Entries)
<1>1. ASSUME NEW v \in 1..2, AddPeriodic(v) PROVE list' \in Seq(Entries)
  <2>1. [id |-> Periodic, data |-> <<v, v>>, enabled |-> TRUE] \in Entries
    BY Payloads DEF Entries
  <2> QED
    BY <1>1, <2>1, AppendProperties DEF AddPeriodic, Change, TypeOK
<1>2. ASSUME NEW i \in DOMAIN list, Toggle(i) PROVE list' \in Seq(Entries)
  <2> DEFINE e == [list[i] EXCEPT !.enabled = ~@]
  <2>1. list \in Seq(Entries) /\ i \in 1..Len(list) /\ list[i] \in Entries
    BY LenProperties, ElementOfSeq DEF TypeOK
  <2>2. e \in Entries
    BY <2>1 DEF Entries
  <2>3. list' = [list EXCEPT ![i] = e]
    BY <1>2 DEF Toggle, Change
  <2> HIDE DEF e
  <2> QED
    BY <2>1, <2>2, <2>3, ExceptSeq
<1>3. ASSUME NEW i \in DOMAIN list, RemovePeriodic(i) PROVE list' \in Seq(Entries)
  BY <1>3, RemovedIsList DEF RemovePeriodic, Change, TypeOK
<1> QED
  BY <1>1, <1>2, <1>3

\* What a session does with a command.
LEMMA SendRawDoes ==
  ASSUME NEW ok \in BOOLEAN, SendRaw(ok)
  PROVE  /\ cmds # <<>> /\ cmds' = Tail(cmds)
         /\ UNCHANGED <<list_vars, fired, view_vars, compose, ui, world, evs>>
         /\ \/ UNCHANGED bus_vars
            \/ echoes' = Append(echoes, Head(cmds)) /\ UNCHANGED <<tap, last, lossy>>
            \/ Tapped(Head(cmds)) /\ UNCHANGED echoes
<1>1. CASE world.listen \/ ~ok
  BY <1>1 DEF SendRaw, bus_vars
<1>2. CASE ~(world.listen \/ ~ok) /\ world.echo
  BY <1>2 DEF SendRaw, bus_vars
<1>3. CASE ~(world.listen \/ ~ok) /\ ~world.echo
  BY <1>3 DEF SendRaw, bus_vars
<1> QED
  BY <1>1, <1>2, <1>3

\* A frame on the tap keeps the tap, the history and the losses well typed.
LEMMA TappedTyped ==
  ASSUME TypeOK, NEW f \in Frames, Tapped(f)
  PROVE  tap' \in Seq(Frames) /\ last' \in [Ids -> Pairs] /\ lossy' \subseteq Ids
<1>1. f.id \in Ids /\ f.data \in Pairs
  BY DEF Frames
<1>2. Append(tap, f) \in Seq(Frames)
  BY AppendProperties DEF TypeOK
<1> QED
  BY <1>1, <1>2 DEF Tapped, TypeOK

\* Every step keeps the variables well typed.
LEMMA NextTyped == TypeOK /\ [Next]_vars => TypeOK'
<1> SUFFICES ASSUME TypeOK, [Next]_vars PROVE TypeOK'
  OBVIOUS
<1> USE DEF list_vars, bus_vars, view_vars
<1>1. ASSUME \/ \E v \in 1..2 : AddPeriodic(v)
             \/ \E i \in DOMAIN list : Toggle(i) \/ RemovePeriodic(i)
      PROVE  TypeOK'
  <2>1. list' \in Seq(Entries)
    BY <1>1, ChangesTyped
  <2>2. UNCHANGED <<sig, ctrl, entries, cmds, fired, bus_vars, view_vars, compose, world>>
    BY <1>1 DEF AddPeriodic, Toggle, RemovePeriodic, Change
  <2> QED
    BY <2>1, <2>2 DEF TypeOK
<1>2. ASSUME NEW i \in Nodes, EditSignal(i, 3) PROVE TypeOK'
  <2> DEFINE f == [id |-> i, data |-> Encoded(raw[i], 1, 3)]
  <2>1. f \in Frames
    BY EncodedIsPair, Payloads DEF Frames, Ids, TypeOK
  <2>2. cmds' = Append(cmds, f)
    BY <1>2 DEF EditSignal, Queue
  <2> HIDE DEF f
  <2>3. cmds' \in Seq(Frames)
    BY <2>1, <2>2, AppendProperties DEF TypeOK
  <2> QED
    BY <1>2, <2>3 DEF EditSignal, TypeOK
<1>3. ASSUME OpenCompose PROVE TypeOK'
  BY <1>3 DEF OpenCompose, TypeOK, Nodes
<1>4. ASSUME SendComposed(3) PROVE TypeOK'
  <2> DEFINE f == [id |-> "d", data |-> Encoded(Encoded(raw["d"], 1, 3), 2, compose[2])]
  <2>1. f \in Frames
    <3>1. raw["d"] \in Pairs /\ compose[2] \in Values /\ 3 \in Values
      BY PairValues, Payloads DEF TypeOK, Nodes
    <3>2. Encoded(raw["d"], 1, 3) \in Pairs
      BY <3>1, EncodedIsPair
    <3>3. Encoded(Encoded(raw["d"], 1, 3), 2, compose[2]) \in Pairs
      BY <3>1, <3>2, EncodedIsPair
    <3> QED
      BY <3>3 DEF Frames, Ids, Nodes
  <2>2. cmds' = Append(cmds, f)
    BY <1>4 DEF SendComposed, Queue
  <2> HIDE DEF f
  <2>3. cmds' \in Seq(Frames)
    BY <2>1, <2>2, AppendProperties DEF TypeOK
  <2> QED
    BY <1>4, <2>3, Payloads DEF SendComposed, TypeOK
<1>5. ASSUME SendManual(3) PROVE TypeOK'
  <2> DEFINE f == [id |-> Periodic, data |-> <<3, 3>>]
  <2>1. f \in Frames /\ f.data \in Pairs
    BY Payloads DEF Frames, Ids
  <2>2. rows' = [rows EXCEPT ![Periodic] = f.data] /\ (cmds' = cmds \/ cmds' = Append(cmds, f))
    BY <1>5 DEF SendManual
  <2> HIDE DEF f
  <2>3. cmds' \in Seq(Frames)
    <3>1. Append(cmds, f) \in Seq(Frames)
      BY <2>1, AppendProperties DEF TypeOK
    <3> QED
      BY <2>2, <3>1 DEF TypeOK
  <2>4. rows' \in [Ids -> Pairs]
    BY <2>1, <2>2 DEF TypeOK
  <2> QED
    BY <1>5, <2>3, <2>4 DEF SendManual, TypeOK
<1>6. ASSUME TakeEvent PROVE TypeOK'
  <2>1. evs' \in Seq(NodeFrames) /\ Head(evs) \in NodeFrames
    BY <1>6, HeadTailProperties DEF TakeEvent, TypeOK
  <2>2. raw' \in [Nodes -> Pairs]
    BY <1>6, <2>1, NodeFrame DEF TakeEvent, TypeOK
  <2>3. Append(log, Head(evs)) \in Seq(NodeFrames) /\ Append(log, Head(evs)) # <<>>
    <3> log \in Seq(NodeFrames)
      BY DEF TypeOK
    <3> QED
      BY <2>1, AppendProperties
  <2>4. Tail(Append(log, Head(evs))) \in Seq(NodeFrames)
    BY <2>3, HeadTailProperties
  <2>5. log' \in Seq(NodeFrames)
    BY <1>6, <2>3, <2>4 DEF TakeEvent, Logged, Capped, TypeOK
  <2> QED
    BY <1>6, <2>1, <2>2, <2>5 DEF TakeEvent, TypeOK
<1>7. ASSUME DrainTap PROVE TypeOK'
  <2>1. ASSUME NEW i \in Ids, LastOf(tap, i) # 0 PROVE tap[LastOf(tap, i)].data \in Pairs
    <3>1. LastOf(tap, i) \in 1..Len(tap)
      BY <2>1, LastOfIs, LenProperties DEF TypeOK, IsLast
    <3>2. tap[LastOf(tap, i)] \in Frames
      BY <3>1, ElementOfSeq DEF TypeOK
    <3> QED
      BY <3>2 DEF Frames
  <2>2. rows' \in [Ids -> Pairs]
    BY <1>7, <2>1 DEF DrainTap, TypeOK
  <2>3. tap' \in Seq(Frames)
    BY <1>7 DEF DrainTap
  <2> QED
    BY <1>7, <2>2, <2>3 DEF DrainTap, TypeOK
<1>8. ASSUME PushSchedule PROVE TypeOK'
  <2>1. sig' \in Seq(Entries) /\ ctrl' \in Seq(Seq(Entries))
    <3>1. Append(ctrl, list) \in Seq(Seq(Entries))
      BY AppendProperties DEF TypeOK
    <3> QED
      BY <1>8, <3>1 DEF PushSchedule, Signature, TypeOK
  <2>2. rows' \in [Ids -> Pairs]
    <3>1. CASE fired = <<>>
      BY <1>8, <3>1 DEF PushSchedule, TypeOK
    <3>2. CASE fired # <<>>
      <4>1. Last(fired).data \in Pairs
        BY <3>2, LastIsOf DEF TypeOK, Frames
      <4> QED
        BY <1>8, <3>2, <4>1 DEF PushSchedule, TypeOK
    <3> QED
      BY <3>1, <3>2
  <2>3. fired' \in Seq(Frames)
    BY <1>8 DEF PushSchedule
  <2> QED
    BY <1>8, <2>1, <2>2, <2>3 DEF PushSchedule, TypeOK
<1>9. ASSUME TakeSchedule PROVE TypeOK'
  <2>1. ctrl' \in Seq(Seq(Entries)) /\ entries' \in Seq(Entries)
    BY <1>9, HeadTailProperties DEF TakeSchedule, TypeOK
  <2> QED
    BY <1>9, <2>1 DEF TakeSchedule, TypeOK
<1>10. ASSUME NEW k \in 1..2, Fire(k) PROVE TypeOK'
  <2> DEFINE f == [id |-> entries[k].id, data |-> entries[k].data]
  <2>1. entries[k] \in Entries
    BY <1>10, ElementOfSeq, LenProperties DEF Fire, TypeOK
  <2>2. f \in Frames
    BY <2>1 DEF Entries, Frames, Ids
  <2>3. fired' = Append(fired, f) /\ (cmds' = cmds \/ cmds' = Append(cmds, f))
    BY <1>10 DEF Fire, Fires
  <2> HIDE DEF f
  <2>4. fired' \in Seq(Frames) /\ cmds' \in Seq(Frames)
    <3>1. Append(fired, f) \in Seq(Frames) /\ Append(cmds, f) \in Seq(Frames)
      BY <2>2, AppendProperties DEF TypeOK
    <3> QED
      BY <2>3, <3>1 DEF TypeOK
  <2> QED
    BY <1>10, <2>4 DEF Fire, TypeOK
<1>11. ASSUME NEW ok \in BOOLEAN, SendRaw(ok) PROVE TypeOK'
  <2>1. Head(cmds) \in Frames /\ cmds' \in Seq(Frames)
    BY <1>11, SendRawDoes, HeadTailProperties DEF TypeOK
  <2>2. Append(echoes, Head(cmds)) \in Seq(Frames)
    BY <2>1, AppendProperties DEF TypeOK
  <2>3. echoes' \in Seq(Frames)
    BY <1>11, <2>2, SendRawDoes DEF TypeOK
  <2>4. tap' \in Seq(Frames) /\ last' \in [Ids -> Pairs] /\ lossy' \subseteq Ids
    <3>1. CASE Tapped(Head(cmds))
      BY <2>1, <3>1, TappedTyped
    <3>2. CASE UNCHANGED <<tap, last, lossy>>
      BY <3>2 DEF TypeOK
    <3> QED
      BY <1>11, <3>1, <3>2, SendRawDoes
  <2>5. UNCHANGED <<list_vars, fired, view_vars, compose, world, evs>>
    BY <1>11, SendRawDoes
  <2> QED
    BY <2>1, <2>3, <2>4, <2>5 DEF TypeOK
<1>12. ASSUME RecvEcho PROVE TypeOK'
  <2>1. Head(echoes) \in Frames /\ echoes' \in Seq(Frames) /\ Tapped(Head(echoes))
    BY <1>12, HeadTailProperties DEF RecvEcho, TypeOK
  <2>2. tap' \in Seq(Frames) /\ last' \in [Ids -> Pairs] /\ lossy' \subseteq Ids
    BY <2>1, TappedTyped
  <2> QED
    BY <1>12, <2>1, <2>2 DEF RecvEcho, TypeOK
<1>13. ASSUME NEW f \in NodeFrames, RecvFrame(f) PROVE TypeOK'
  <2>1. evs' \in Seq(NodeFrames)
    BY <1>13, AppendProperties DEF RecvFrame, TypeOK
  <2>2. tap' \in Seq(Frames) /\ last' \in [Ids -> Pairs] /\ lossy' \subseteq Ids
    BY <1>13, NodeFrame, TappedTyped DEF RecvFrame
  <2> QED
    BY <1>13, <2>1, <2>2 DEF RecvFrame, TypeOK
<1>14. CASE UNCHANGED vars
  BY <1>14 DEF vars, TypeOK
<1> QED
  BY <1>1, <1>2, <1>3, <1>4, <1>5, <1>6, <1>7, <1>8, <1>9, <1>10, <1>11, <1>12, <1>13, <1>14
     DEF Next, User, Thread

\* In every behaviour the variables have their types.
THEOREM TypeCorrect == Spec => []TypeOK
<1> QED
  BY InitTyped, NextTyped, PTL DEF Spec

-----------------------------------------------------------------------------
(* The table and the tap                                                   *)

\* While a frame goes to the tap, or is dropped there, tap and table go on telling
\* the latest frame of every node it was not dropped for.
LEMMA TappedTells ==
  ASSUME TypeOK, TableInv, NEW f \in Frames, Tapped(f), UNCHANGED rows
  PROVE  TableInv'
<1> SUFFICES ASSUME NEW i \in Nodes, i \notin lossy' PROVE TapTells(i)'
  BY DEF TableInv
<1> USE DEF Ids
<1>1. last' = [last EXCEPT ![f.id] = f.data] /\ i \in DOMAIN last /\ f.id \in DOMAIN last
  BY DEF Tapped, TypeOK, Frames
<1>2. CASE Len(tap) < TapCap
  <2>1. tap' = Append(tap, f) /\ lossy' = lossy \ {f.id} /\ tap \in Seq(Frames)
    BY <1>2 DEF Tapped, TypeOK
  <2>2. Lengthened(tap', tap, f, i)
    BY <2>1, LastAfterAppend
  <2>3. CASE f.id = i
    BY <1>1, <2>2, <2>3 DEF TapTells, Lengthened
  <2>4. CASE f.id # i
    <3>1. TapTells(i) /\ last'[i] = last[i]
      BY <1>1, <2>1, <2>4 DEF TableInv
    <3> QED
      BY <2>2, <2>4, <3>1 DEF TapTells, IsLast, Lengthened
  <2> QED
    BY <2>3, <2>4
<1>3. CASE ~(Len(tap) < TapCap)
  <2>1. tap' = tap /\ lossy' = lossy \cup {f.id}
    BY <1>3 DEF Tapped
  <2>2. TapTells(i) /\ last'[i] = last[i]
    BY <1>1, <2>1 DEF TableInv
  <2> QED
    BY <2>1, <2>2 DEF TapTells
<1> QED
  BY <1>2, <1>3

\* Steps that leave the tap, its history and the rows of nodes alone.
LEMMA TableUntouched ==
  ASSUME TableInv, UNCHANGED <<tap, last, lossy>>, \A i \in Nodes : rows'[i] = rows[i]
  PROVE  TableInv'
  BY DEF TableInv, TapTells

\* The window writes the row of the periodic message, of no node.
LEMMA PeriodicRow ==
  ASSUME TypeOK, NEW v, rows' = [rows EXCEPT ![Periodic] = v]
  PROVE  \A i \in Nodes : rows'[i] = rows[i]
  BY DEF TypeOK, Ids, Nodes, Periodic

\* The table and the tap of a step agree on the latest frames.
LEMMA TableStep == TypeOK /\ TableInv /\ [Next]_vars => TableInv'
<1> SUFFICES ASSUME TypeOK, TableInv, [Next]_vars PROVE TableInv'
  OBVIOUS
<1> USE DEF list_vars, bus_vars, view_vars
<1>1. ASSUME \/ \E v \in 1..2 : AddPeriodic(v)
             \/ \E i \in DOMAIN list : Toggle(i) \/ RemovePeriodic(i)
      PROVE  TableInv'
  BY <1>1, TableUntouched DEF AddPeriodic, Toggle, RemovePeriodic, Change
<1>2. ASSUME (\E i \in Nodes : EditSignal(i, 3)) \/ OpenCompose \/ SendComposed(3)
      PROVE  TableInv'
  BY <1>2, TableUntouched DEF EditSignal, OpenCompose, SendComposed
<1>3. ASSUME SendManual(3) PROVE TableInv'
  BY <1>3, TableUntouched, PeriodicRow DEF SendManual
<1>4. ASSUME TakeEvent PROVE TableInv'
  BY <1>4, TableUntouched DEF TakeEvent
<1>5. ASSUME DrainTap PROVE TableInv'
  <2> SUFFICES ASSUME NEW i \in Nodes \ lossy PROVE TapTells(i)'
    BY <1>5 DEF TableInv, DrainTap
  <2>1. TapTells(i) /\ Len(tap) \in Nat
    BY LenProperties DEF TableInv, TypeOK
  <2>2. rows'[i] = IF LastOf(tap, i) = 0 THEN rows[i] ELSE tap[LastOf(tap, i)].data
    BY <1>5 DEF DrainTap, Ids
  <2>3. rows'[i] = last[i]
    <3>1. CASE LastOf(tap, i) = 0 /\ Silent(tap, i)
      BY <2>1, <2>2, <3>1 DEF TapTells
    <3>2. CASE LastOf(tap, i) # 0 /\ IsLast(tap, LastOf(tap, i), i)
      BY <2>1, <2>2, <3>2 DEF TapTells, IsLast
    <3> QED
      BY <2>1, <3>1, <3>2, LastOfIs DEF Silent
  <2>4. tap' = <<>> /\ last' = last
    BY <1>5 DEF DrainTap
  <2> QED
    BY <2>3, <2>4 DEF TapTells
<1>6. ASSUME PushSchedule PROVE TableInv'
  <2>1. \A i \in Nodes : rows'[i] = rows[i]
    BY <1>6, PeriodicRow DEF PushSchedule
  <2> QED
    BY <1>6, <2>1, TableUntouched DEF PushSchedule
<1>7. ASSUME TakeSchedule \/ \E k \in 1..2 : Fire(k) PROVE TableInv'
  BY <1>7, TableUntouched DEF TakeSchedule, Fire
<1>8. ASSUME NEW ok \in BOOLEAN, SendRaw(ok) PROVE TableInv'
  <2>1. Head(cmds) \in Frames /\ rows' = rows
    BY <1>8, SendRawDoes, HeadTailProperties DEF TypeOK
  <2>2. Tapped(Head(cmds)) \/ UNCHANGED <<tap, last, lossy>>
    BY <1>8, SendRawDoes
  <2> QED
    BY <2>1, <2>2, TappedTells, TableUntouched
<1>9. ASSUME RecvEcho PROVE TableInv'
  <2>1. Head(echoes) \in Frames /\ Tapped(Head(echoes)) /\ rows' = rows
    BY <1>9, HeadTailProperties DEF RecvEcho, TypeOK
  <2> QED
    BY <2>1, TappedTells
<1>10. ASSUME NEW f \in NodeFrames, RecvFrame(f) PROVE TableInv'
  BY <1>10, NodeFrame, TappedTells DEF RecvFrame
<1>11. CASE UNCHANGED vars
  BY <1>11, TableUntouched DEF vars
<1> QED
  BY <1>1, <1>2, <1>3, <1>4, <1>5, <1>6, <1>7, <1>8, <1>9, <1>10, <1>11 DEF Next, User, Thread

-----------------------------------------------------------------------------
(* The log                                                                 *)

\* A payload that is logged, or is the last one logged of its message, leaves the log
\* ending in it; what is logged of others, as far as it is kept, is as it was.
LEMMA LoggedEnds ==
  ASSUME NEW q \in Seq(NodeFrames), NEW ev \in NodeFrames, NEW i \in Nodes,
         NEW k \in 1..Len(Logged(q, ev)), IsLast(Logged(q, ev), k, i)
  PROVE  IF ev.id = i THEN Logged(q, ev)[k].data = ev.data
         ELSE \E j \in 1..Len(q) : IsLast(q, j, i) /\ Logged(q, ev)[k] = q[j]
<1> DEFINE a == Append(q, ev)
           n == LastOf(q, ev.id)
<1>1. Len(q) \in Nat
  BY LenProperties
<1>2. CASE n # 0 /\ q[n] = ev
  <2>1. Logged(q, ev) = q
    BY <1>2 DEF Logged
  <2>2. IsLast(q, n, ev.id)
    BY <1>1, <1>2, LastOfIs
  <2> HIDE DEF n
  <2>3. CASE ev.id = i
    <3>1. k = n
      BY <1>1, <2>1, <2>2, <2>3 DEF IsLast
    <3> QED
      BY <1>2, <2>1, <2>3, <3>1
  <2> QED
    BY <2>1, <2>3
<1>3. CASE ~(n # 0 /\ q[n] = ev)
  <2> HIDE DEF n
  <2>1. Logged(q, ev) = Capped(a)
    BY <1>3 DEF Logged, n
  <2>2. a \in Seq(NodeFrames) /\ a # <<>> /\ Len(a) \in Nat
    BY AppendProperties, LenProperties
  <2>3. /\ \A m \in 1..Len(a) : IsLast(a, m, i) /\ ev.id = i => a[m] = ev
        /\ \A m \in 1..Len(a) : IsLast(a, m, i) /\ ev.id # i => IsLast(q, m, i) /\ a[m] = q[m]
    BY LastAfterAppend DEF Lengthened
  <2> HIDE DEF a
  <2>4. \E m : IsLast(a, m, i) /\ Logged(q, ev)[k] = a[m]
    <3>1. CASE Len(a) > LogCap
      BY <2>1, <2>2, <3>1, LastAfterTail DEF Capped
    <3>2. CASE ~(Len(a) > LogCap)
      BY <2>1, <3>2 DEF Capped
    <3> QED
      BY <3>1, <3>2
  <2> QED
    BY <2>3, <2>4 DEF IsLast
<1> QED
  BY <1>2, <1>3

\* The log of a step ends in what is shown.
LEMMA LogStep == TypeOK /\ LogInv /\ [Next]_vars => LogInv'
<1> SUFFICES ASSUME TypeOK, LogInv, [Next]_vars PROVE LogInv'
  OBVIOUS
<1> USE DEF list_vars, bus_vars, view_vars
<1>1. ASSUME TakeEvent PROVE LogInv'
  <2> DEFINE ev == Head(evs)
  <2>1. ev \in NodeFrames /\ log \in Seq(NodeFrames) /\ ev.id \in Nodes
    BY <1>1, HeadTailProperties, NodeFrame DEF TakeEvent, TypeOK
  <2>2. raw' = [raw EXCEPT ![ev.id] = ev.data] /\ log' = Logged(log, ev) /\ raw \in [Nodes -> Pairs]
    BY <1>1 DEF TakeEvent, TypeOK
  <2> HIDE DEF ev
  <2> SUFFICES ASSUME NEW i \in Nodes, NEW k \in 1..Len(log'), IsLast(log', k, i)
               PROVE  log'[k].data = raw'[i]
    BY DEF LogInv
  <2>3. CASE ev.id = i
    BY <2>1, <2>2, <2>3, LoggedEnds
  <2>4. CASE ev.id # i
    <3>1. PICK j \in 1..Len(log) : IsLast(log, j, i) /\ log'[k] = log[j]
      BY <2>1, <2>2, <2>4, LoggedEnds
    <3>2. log[j].data = raw[i] /\ raw'[i] = raw[i]
      BY <2>2, <2>4, <3>1 DEF LogInv
    <3> QED
      BY <3>1, <3>2
  <2> QED
    BY <2>3, <2>4
<1>2. ASSUME UNCHANGED <<log, raw>> PROVE LogInv'
  BY <1>2 DEF LogInv
<1>3. ASSUME User \/ DrainTap \/ PushSchedule PROVE UNCHANGED <<log, raw>>
  BY <1>3 DEF User, AddPeriodic, Toggle, RemovePeriodic, Change, EditSignal, OpenCompose,
              SendComposed, SendManual, DrainTap, PushSchedule
<1>4. ASSUME Thread \/ RecvEcho \/ \E f \in NodeFrames : RecvFrame(f)
      PROVE  UNCHANGED <<log, raw>>
  BY <1>4 DEF Thread, TakeSchedule, Fire, RecvEcho, RecvFrame
<1>5. ASSUME NEW ok \in BOOLEAN, SendRaw(ok) PROVE UNCHANGED <<log, raw>>
  BY <1>5, SendRawDoes
<1> QED
  BY <1>1, <1>2, <1>3, <1>4, <1>5 DEF Next, vars

\* The last entry of a message in the log is the one the property asks for.
LEMMA LogEnds == TypeOK /\ LogInv => LogEndsInLatest
<1> SUFFICES ASSUME TypeOK, LogInv, NEW i \in Nodes, LastOf(log, i) # 0
             PROVE  log[LastOf(log, i)].data = raw[i]
  BY DEF LogEndsInLatest
<1>1. IsLast(log, LastOf(log, i), i)
  BY LastOfIs, LenProperties DEF TypeOK
<1> QED
  BY <1>1 DEF LogInv, IsLast

\* The window shows the present, not a frame that was overtaken: once the tap is
\* empty its table has of every node's message the latest frame there was, unless
\* that one was dropped, and its log ends in what its panel shows.
THEOREM ShowsLatest == Spec => []ShownIsLatest
<1>1. Init => TypeOK /\ TableInv /\ LogInv
  <2> SUFFICES ASSUME Init PROVE TableInv /\ LogInv
    BY InitTyped
  <2> QED
    BY DEF Init, TableInv, TapTells, LogInv, Ids, IsLast
<1>2. TypeOK /\ TableInv /\ LogInv /\ [Next]_vars => (TypeOK /\ TableInv /\ LogInv)'
  BY NextTyped, TableStep, LogStep
<1>3. TypeOK /\ TableInv /\ LogInv => ShownIsLatest
  <2> SUFFICES ASSUME TypeOK, TableInv, tap = <<>> PROVE TableIsLatest
    BY LogEnds DEF ShownIsLatest, TableIsLatest
  <2> QED
    BY DEF TableInv, TapTells, TableIsLatest, Silent
<1> QED
  BY <1>1, <1>2, <1>3, PTL DEF Spec

-----------------------------------------------------------------------------
(* The signals nobody edited                                               *)

\* A command that may be queued.
Fit(f) == f.id \in Nodes => f.data[2] # 0

\* Queueing a command that is fit, or taking one, leaves only such commands.
LEMMA QueueFit ==
  ASSUME TypeOK, OthersAsReceived, NEW f \in Frames, Fit(f),
         cmds' = cmds \/ cmds' = Append(cmds, f)
  PROVE  OthersAsReceived'
<1>1. \A k \in DOMAIN Append(cmds, f) :
        Append(cmds, f)[k] = f \/ (k \in DOMAIN cmds /\ Append(cmds, f)[k] = cmds[k])
  BY AppendAddsOne DEF TypeOK
<1>2. CASE cmds' = cmds
  BY <1>2 DEF OthersAsReceived
<1>3. CASE cmds' = Append(cmds, f)
  BY <1>1, <1>3 DEF OthersAsReceived, Fit
<1> QED
  BY <1>2, <1>3

\* What waits stays as received while the queue, the decoded payloads and the draft
\* are left alone.
LEMMA HeardUntouched == HeardInv /\ UNCHANGED <<raw, compose, cmds>> => HeardInv'
  BY DEF HeardInv, OthersAsReceived, Heard

\* A step sends of a signal that nobody edited only what its node sent.
LEMMA HeardStep == TypeOK /\ HeardInv /\ [Next]_vars => HeardInv'
<1> SUFFICES ASSUME TypeOK, HeardInv, [Next]_vars PROVE HeardInv'
  OBVIOUS
<1> USE DEF list_vars, bus_vars, view_vars
<1>1. ASSUME NEW i \in Nodes, EditSignal(i, 3) PROVE HeardInv'
  <2> DEFINE f == [id |-> i, data |-> Encoded(raw[i], 1, 3)]
  <2>1. raw[i] \in Pairs /\ raw[i] # Unseen /\ Heard(raw[i])
    BY <1>1 DEF EditSignal, TypeOK, HeardInv
  <2>2. f \in Frames /\ f.data[2] = raw[i][2]
    BY <2>1, EncodedIsPair, Payloads DEF Frames, Ids
  <2>3. Fit(f)
    BY <2>1, <2>2 DEF Fit, Heard
  <2>4. cmds' = Append(cmds, f) /\ UNCHANGED <<raw, compose>>
    BY <1>1 DEF EditSignal, Queue
  <2> HIDE DEF f
  <2>5. OthersAsReceived'
    BY <2>2, <2>3, <2>4, QueueFit DEF HeardInv
  <2> QED
    BY <2>4, <2>5 DEF HeardInv
<1>2. ASSUME OpenCompose PROVE HeardInv'
  BY <1>2 DEF OpenCompose, HeardInv, OthersAsReceived, Nodes
<1>3. ASSUME SendComposed(3) PROVE HeardInv'
  <2> DEFINE f == [id |-> "d", data |-> Encoded(Encoded(raw["d"], 1, 3), 2, compose[2])]
  <2>1. compose # Unseen /\ Heard(compose) /\ compose[2] \in Values /\ raw["d"] \in Pairs
    BY <1>3, PairValues DEF SendComposed, HeardInv, TypeOK, Nodes
  <2>2. Encoded(raw["d"], 1, 3) \in Pairs
    BY <2>1, EncodedIsPair, Payloads
  <2>3. f \in Frames /\ f.data[2] = compose[2]
    BY <2>1, <2>2, EncodedIsPair DEF Frames, Ids, Nodes
  <2>4. Fit(f)
    BY <2>1, <2>3 DEF Fit, Heard
  <2>5. cmds' = Append(cmds, f) /\ compose' = Unseen /\ raw' = raw
    BY <1>3 DEF SendComposed, Queue
  <2> HIDE DEF f
  <2>6. OthersAsReceived'
    BY <2>3, <2>4, <2>5, QueueFit DEF HeardInv
  <2> QED
    BY <2>5, <2>6 DEF HeardInv, Heard
<1>4. ASSUME SendManual(3) PROVE HeardInv'
  <2> DEFINE f == [id |-> Periodic, data |-> <<3, 3>>]
  <2>1. f \in Frames /\ Fit(f)
    BY Payloads DEF Frames, Ids, Fit, Nodes, Periodic
  <2>2. (cmds' = cmds \/ cmds' = Append(cmds, f)) /\ UNCHANGED <<raw, compose>>
    BY <1>4 DEF SendManual
  <2> HIDE DEF f
  <2>3. OthersAsReceived'
    BY <2>1, <2>2, QueueFit DEF HeardInv
  <2> QED
    BY <2>2, <2>3 DEF HeardInv
<1>5. ASSUME TakeEvent PROVE HeardInv'
  <2>1. Head(evs) \in NodeFrames
    BY <1>5, HeadTailProperties DEF TakeEvent, TypeOK
  <2>2. raw' = [raw EXCEPT ![Head(evs).id] = Head(evs).data] /\ Heard(Head(evs).data)
    BY <1>5, <2>1, NodeFrame DEF TakeEvent
  <2>3. ASSUME NEW i \in Nodes PROVE Heard(raw'[i])
    BY <2>2 DEF HeardInv, TypeOK
  <2> QED
    BY <1>5, <2>3 DEF TakeEvent, HeardInv, OthersAsReceived
<1>6. ASSUME NEW k \in 1..2, Fire(k) PROVE HeardInv'
  <2> DEFINE f == [id |-> entries[k].id, data |-> entries[k].data]
  <2>1. entries[k] \in Entries
    BY <1>6, ElementOfSeq, LenProperties DEF Fire, TypeOK
  <2>2. f \in Frames /\ Fit(f)
    BY <2>1 DEF Entries, Frames, Ids, Fit, Nodes, Periodic
  <2>3. (cmds' = cmds \/ cmds' = Append(cmds, f)) /\ UNCHANGED <<raw, compose>>
    BY <1>6 DEF Fire, Fires
  <2> HIDE DEF f
  <2>4. OthersAsReceived'
    BY <2>2, <2>3, QueueFit DEF HeardInv
  <2> QED
    BY <2>3, <2>4 DEF HeardInv
<1>7. ASSUME NEW ok \in BOOLEAN, SendRaw(ok) PROVE HeardInv'
  <2>1. cmds # <<>> /\ cmds' = Tail(cmds) /\ UNCHANGED <<raw, compose>>
    BY <1>7, SendRawDoes
  <2>2. \A k \in DOMAIN Tail(cmds) : k + 1 \in DOMAIN cmds /\ Tail(cmds)[k] = cmds[k + 1]
    BY <2>1, TailHasNoMore DEF TypeOK
  <2>3. OthersAsReceived'
    BY <2>1, <2>2 DEF HeardInv, OthersAsReceived
  <2> QED
    BY <2>1, <2>3 DEF HeardInv
<1>8. ASSUME \/ \E v \in 1..2 : AddPeriodic(v)
             \/ \E i \in DOMAIN list : Toggle(i) \/ RemovePeriodic(i)
             \/ DrainTap \/ PushSchedule \/ TakeSchedule \/ RecvEcho
             \/ \E f \in NodeFrames : RecvFrame(f)
             \/ UNCHANGED vars
      PROVE  HeardInv'
  <2>1. UNCHANGED <<raw, compose, cmds>>
    BY <1>8 DEF AddPeriodic, Toggle, RemovePeriodic, Change, DrainTap, PushSchedule,
                TakeSchedule, RecvEcho, RecvFrame, vars
  <2> QED
    BY <2>1, HeardUntouched
<1> QED
  BY <1>1, <1>2, <1>3, <1>4, <1>5, <1>6, <1>7, <1>8 DEF Next, User, Thread

\* A signal the user has not edited goes out only with a value its node has sent,
\* however late the draft or the command is.
THEOREM OthersKept == Spec => []OthersAsReceived
<1>1. Init => HeardInv
  BY DEF Init, HeardInv, Heard, OthersAsReceived
<1>2. TypeOK /\ HeardInv /\ [Next]_vars => HeardInv'
  BY HeardStep
<1>3. HeardInv => OthersAsReceived
  BY DEF HeardInv
<1> QED
  BY <1>1, <1>2, <1>3, TypeCorrect, PTL DEF Spec
=============================================================================
