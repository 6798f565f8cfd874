------------------------- MODULE SocketCanLock_proofs -------------------------
(***************************************************************************)
(* The lock of a SocketCAN interface is true to its name, for any number   *)
(* of processes of two users, opens, deaths and process numbers given      *)
(* again, as long as no two opens overlap and the numbers can be written.  *)
(***************************************************************************)
EXTENDS SocketCanLock, FiniteSetTheorems, TLAPS

LockSpec == LockInit /\ [][LockNext]_lockVars

\* Process numbers that have been given out; no process gets one of them again.
Last == Cardinality(Processes) + lockCount.deaths

States == {"idle", "create", "write", "read", "remove", "refused", "socket", "open"}

LockTypeOK ==
  /\ file.text \in 0..Last /\ file \in [node : Nat, text : Nat, other : BOOLEAN]
  /\ pc \in [Processes -> States] /\ attempt \in [Processes -> {0, 1}]
  /\ node \in [Processes -> Nat] /\ pid \in [Processes -> 1..Last]
  /\ alive \subseteq 1..Last /\ ifaceUp \in BOOLEAN
  /\ lockCount \in [opens : Nat, deaths : Nat, reuses : Nat, fulls : Nat] /\ lockWorld \in LockWorld

\* Every process has a number of its own, and its number is in /proc.
Numbered ==
  /\ \A p, q \in Processes : pid[p] = pid[q] => p = q
  /\ \A p \in Processes : pid[p] \in alive

\* One process at a time is about to get the lock.
OneOpens == \A p, q \in Processes : Acquiring(p) /\ Acquiring(q) => p = q

\* The file names the process that has the lock, which may remove it, and only that one.
FileTells ==
  \A p \in Processes :
    /\ Holder(p) <=> file.text = pid[p]
    /\ file.text = pid[p] => file.other = Other(p)

\* Between two steps of an open nobody else comes in: the file created is still there without
\* a number, a stale file is still nobody's, and the second attempt finds no file or one
\* that only the other user may remove, still nobody's.
Undisturbed ==
  \A p \in Processes :
    /\ pc[p] = "write" => file.node = node[p] /\ file.text = None /\ file.other = Other(p)
    /\ pc[p] = "remove" => \A q \in Processes : file.text # pid[q]
    /\ pc[p] \in {"create", "read"} /\ attempt[p] = 1 /\ file # NoFile =>
         file.other # Other(p) /\ \A q \in Processes : file.text # pid[q]
    /\ pc[p] = "read" => file # NoFile \/ attempt[p] = 0

LockInv == LockTypeOK /\ Numbered /\ (Orderly => OneOpens /\ FileTells /\ Undisturbed)

-----------------------------------------------------------------------------
(* The start                                                               *)

\* There are numbers enough: the processes can be counted.
LEMMA NumbersExist ==
  \E f \in [Processes -> 1..Cardinality(Processes)] : \A p, q \in Processes : p # q => f[p] # f[q]
<1>1. PICK g \in Bijection(1..Cardinality(Processes), Processes) : TRUE
  BY LockConstantsOK, FS_CardinalityType DEF ExistsBijection
<1> DEFINE D == 1..Cardinality(Processes)
           f == [p \in Processes |-> CHOOSE i \in D : g[i] = p]
<1>2. \A p \in Processes : \E i \in D : g[i] = p
  BY <1>1 DEF Bijection, Surjection
<1>3. \A p \in Processes : f[p] \in D /\ g[f[p]] = p
  BY <1>2
<1>4. f \in [Processes -> D] /\ \A p, q \in Processes : p # q => f[p] # f[q]
  BY <1>3
<1> QED
  BY <1>4

\* The invariant holds when the processes start.
LEMMA InitLocked == LockInit => LockInv
<1> SUFFICES ASSUME LockInit PROVE LockInv
  OBVIOUS
<1>1. Cardinality(Processes) \in Nat
  BY LockConstantsOK, FS_CardinalityType
<1>2. pid \in [Processes -> 1..Cardinality(Processes)] /\ \A p, q \in Processes : p # q => pid[p] # pid[q]
  BY NumbersExist DEF LockInit
<1>3. Last = Cardinality(Processes)
  BY <1>1 DEF Last, LockInit
<1>4. LockTypeOK
  BY <1>1, <1>2, <1>3, LockConstantsOK DEF LockTypeOK, LockInit, NoFile, None, States
<1>5. Numbered
  BY <1>2 DEF Numbered, LockInit
<1>6. OneOpens /\ FileTells /\ Undisturbed
  <2>1. \A p \in Processes : pid[p] # 0 /\ pc[p] = "idle" /\ file.text = 0
    BY <1>1, <1>2 DEF LockInit, NoFile, None
  <2> QED
    BY <2>1 DEF OneOpens, FileTells, Undisturbed, Acquiring, Holder
<1> QED
  BY <1>4, <1>5, <1>6 DEF LockInv

-----------------------------------------------------------------------------
(* Every step                                                              *)

\* The types and the numbers survive every step: a new process has a number nobody ever had.
LEMMA NumbersKept ==
  ASSUME LockTypeOK, Numbered, [LockNext]_lockVars
  PROVE  LockTypeOK' /\ Numbered'
<1> USE DEF LockTypeOK, Last
<1>0. Cardinality(Processes) \in Nat
  BY LockConstantsOK, FS_CardinalityType
<1>1. ASSUME NEW p \in Processes, OpenLock(p) PROVE LockTypeOK'
  BY <1>0, <1>1 DEF OpenLock, States
<1>2. ASSUME NEW p \in Processes, Create(p) PROVE LockTypeOK'
  <2>1. lockCount.opens * 2 + attempt[p] \in Nat
    OBVIOUS
  <2>2. Other(p) \in BOOLEAN
    BY DEF Other
  <2> QED
    BY <1>0, <1>2, <2>1, <2>2 DEF Create, States, None
<1>3. ASSUME NEW p \in Processes, WritePid(p) PROVE LockTypeOK'
  BY <1>0, <1>3 DEF WritePid, States
<1>4. ASSUME NEW p \in Processes, ReadHolder(p) PROVE LockTypeOK'
  BY <1>0, <1>4 DEF ReadHolder, States
<1>5. ASSUME NEW p \in Processes, RemoveStale(p) PROVE LockTypeOK'
  BY <1>0, <1>5 DEF RemoveStale, RemoveFile, States, NoFile, None
<1>6. ASSUME NEW p \in Processes, OpenSocket(p) \/ Release(p) PROVE LockTypeOK'
  <2>1. CASE OpenSocket(p)
    BY <1>0, <2>1 DEF OpenSocket, States
  <2>2. CASE Release(p)
    BY <1>0, <2>2 DEF Release, RemoveFile, States, NoFile, None
  <2> QED
    BY <1>6, <2>1, <2>2
<1>7. ASSUME NEW p \in Processes, Die(p) PROVE LockTypeOK' /\ Numbered'
  <2>1. /\ Last' = Last + 1 /\ Last \in Nat
        /\ pid' = [pid EXCEPT ![p] = Last'] /\ alive' = (alive \ {pid[p]}) \cup {Last'}
    <3>1. lockCount'.deaths = lockCount.deaths + 1
      BY <1>7 DEF Die
    <3>2. pid'[p] = Cardinality(Processes) + lockCount.deaths + 1
      BY <1>7 DEF Die
    <3> QED
      <4> DEFINE n == Cardinality(Processes) + lockCount.deaths + 1
      <4>1. Last' = n /\ n = Last + 1 /\ Last \in Nat
        BY <1>0, <3>1
      <4>2. pid' = [pid EXCEPT ![p] = n] /\ alive' = (alive \ {pid[p]}) \cup {n}
        BY <1>7, <3>2 DEF Die
      <4> QED
        BY <4>1, <4>2
  <2>2. LockTypeOK'
    BY <1>0, <1>7, <2>1 DEF Die, States
  <2>3. \A q \in Processes : pid[q] # Last'
    BY <2>1
  <2>4. Numbered'
    BY <1>7, <2>1, <2>3 DEF Die, Numbered
  <2> QED
    BY <2>2, <2>4
<1>8. ASSUME Reuse PROVE LockTypeOK' /\ Numbered'
  BY <1>0, <1>8 DEF Reuse, Numbered, None
<1>9. ASSUME MoveInterface \/ UNCHANGED lockVars PROVE LockTypeOK' /\ Numbered'
  BY <1>9 DEF MoveInterface, lockVars, Numbered
<1>10. ASSUME NEW p \in Processes,
              OpenLock(p) \/ Create(p) \/ WritePid(p) \/ ReadHolder(p) \/ RemoveStale(p) \/ OpenSocket(p) \/ Release(p)
       PROVE  Numbered'
  BY <1>10 DEF OpenLock, Create, WritePid, ReadHolder, RemoveStale, OpenSocket, Release, Numbered
<1> QED
  BY <1>1, <1>2, <1>3, <1>4, <1>5, <1>6, <1>7, <1>8, <1>9, <1>10 DEF LockNext

\* So does what makes the lock exclusive: of the steps of an open, each finds the file as
\* the one before left it.
LEMMA LockKept ==
  ASSUME LockTypeOK, LockTypeOK', Numbered, Numbered', OneOpens, FileTells, Undisturbed,
         Orderly, Orderly', [LockNext]_lockVars
  PROVE  OneOpens' /\ FileTells' /\ Undisturbed'
<1> USE DEF OneOpens, FileTells, Undisturbed, Acquiring, Holder, Other, Orderly
<1>0. \A p \in Processes : pid[p] # None /\ pc[p] \in States /\ attempt[p] \in {0, 1}
  BY DEF LockTypeOK, None
<1>1. ASSUME NEW p \in Processes, OpenLock(p) PROVE OneOpens' /\ FileTells' /\ Undisturbed'
  BY <1>0, <1>1 DEF OpenLock, LockTypeOK
<1>2. ASSUME NEW p \in Processes, Create(p) PROVE OneOpens' /\ FileTells' /\ Undisturbed'
  BY <1>0, <1>2 DEF Create, LockTypeOK, NoFile
<1>3. ASSUME NEW p \in Processes, WritePid(p) PROVE OneOpens' /\ FileTells' /\ Undisturbed'
  BY <1>0, <1>3 DEF WritePid, LockTypeOK, Numbered
<1>4. ASSUME NEW p \in Processes, ReadHolder(p) PROVE OneOpens' /\ FileTells' /\ Undisturbed'
  BY <1>0, <1>4 DEF ReadHolder, LockTypeOK, Numbered
<1>5. ASSUME NEW p \in Processes, RemoveStale(p) PROVE OneOpens' /\ FileTells' /\ Undisturbed'
  <2>1. \A q \in Processes : file.text # pid[q]
    BY <1>5 DEF RemoveStale
  <2>2. \/ file' = NoFile
        \/ file' = file /\ file.other # Other(p)
    BY <1>5 DEF RemoveStale, RemoveFile
  <2>3. /\ \A q \in Processes : file'.text # pid[q]
        /\ file' # NoFile => file'.other # Other(p)
    BY <1>0, <2>1, <2>2 DEF NoFile
  <2>4. /\ pc' = [pc EXCEPT ![p] = "create"] /\ attempt' = [attempt EXCEPT ![p] = 1]
        /\ UNCHANGED <<node, pid, lockWorld>> /\ pc[p] = "remove"
    BY <1>5 DEF RemoveStale
  <2>5. \A q \in Processes : q # p => pc'[q] = pc[q] /\ ~Acquiring(q)
    BY <2>4 DEF LockTypeOK
  <2> QED
    BY <1>0, <2>3, <2>4, <2>5 DEF LockTypeOK
<1>6. ASSUME NEW p \in Processes, OpenSocket(p) PROVE OneOpens' /\ FileTells' /\ Undisturbed'
  BY <1>0, <1>6 DEF OpenSocket, LockTypeOK
<1>7. ASSUME NEW p \in Processes, Release(p) PROVE OneOpens' /\ FileTells' /\ Undisturbed'
  <2>1. file.text = pid[p] /\ file.other = Other(p)
    BY <1>7 DEF Release
  <2>2. file' = NoFile /\ file'.text = None
    BY <1>7, <2>1 DEF Release, RemoveFile, NoFile
  <2>3. file # NoFile /\ \A q \in Processes : file.text = pid[q] => q = p
    BY <1>0, <2>1 DEF Numbered, NoFile
  <2>4. pc' = [pc EXCEPT ![p] = "idle"] /\ UNCHANGED <<attempt, node, pid, lockWorld>>
    BY <1>7 DEF Release
  <2>5. \A q \in Processes :
          /\ ~Holder(q)' /\ pc'[q] # "write" /\ (pc'[q] = "read" => attempt[q] = 0)
          /\ pc'[q] = pc[q] \/ ~Acquiring(q)'
    BY <1>0, <2>1, <2>3, <2>4 DEF LockTypeOK
  <2> QED
    BY <1>0, <2>2, <2>4, <2>5 DEF LockTypeOK
<1>8. ASSUME NEW p \in Processes, Die(p) PROVE OneOpens' /\ FileTells' /\ Undisturbed'
  <2>1. pid' = [pid EXCEPT ![p] = Last + 1] /\ file.text # Last + 1
    BY <1>8, LockConstantsOK, FS_CardinalityType DEF Die, Last, LockTypeOK
  <2> QED
    BY <1>0, <1>8, <2>1 DEF Die, LockTypeOK
<1>9. ASSUME Reuse \/ MoveInterface \/ UNCHANGED lockVars PROVE OneOpens' /\ FileTells' /\ Undisturbed'
  BY <1>9 DEF Reuse, MoveInterface, lockVars
<1> QED
  BY <1>1, <1>2, <1>3, <1>4, <1>5, <1>6, <1>7, <1>8, <1>9 DEF LockNext

-----------------------------------------------------------------------------
(* What the lock promises                                                  *)

\* A file that names its holder names one.
LEMMA FileNamesOne == LockInv => (Orderly => OneHolder)
  BY DEF LockInv, Numbered, FileTells, OneHolder

\* Who is refused found a live number in the file at the first attempt, and a process of
\* this program with that number has the lock; or it is the second, with a file of the
\* other user.
LEMMA RefusedForCause ==
  ASSUME LockInv, [LockNext]_lockVars, Orderly, NEW p \in Processes, pc[p] = "read", pc'[p] = "refused"
  PROVE  \/ \E q \in Processes : Holder(q)
         \/ file.text \in alive \ {pid[q] : q \in Processes}
         \/ file.other # Other(p)
<1>1. /\ attempt[p] = 0 \/ file.other # Other(p)
      /\ \A q \in Processes : file.text = pid[q] => Holder(q)
  BY DEF LockInv, LockTypeOK, Undisturbed, FileTells
<1>2. ReadHolder(p)
  <2>1. ASSUME NEW q \in Processes,
               OpenLock(q) \/ Create(q) \/ WritePid(q) \/ RemoveStale(q) \/ OpenSocket(q) \/ Release(q) \/ Die(q)
        PROVE  FALSE
    BY <2>1 DEF OpenLock, Create, WritePid, RemoveStale, OpenSocket, Release, Die, Holder, LockInv, LockTypeOK
  <2>2. ASSUME NEW q \in Processes, ReadHolder(q) PROVE q = p
    BY <2>2 DEF ReadHolder, LockInv, LockTypeOK
  <2>3. ~Reuse /\ ~MoveInterface /\ ~UNCHANGED lockVars
    BY DEF Reuse, MoveInterface, lockVars
  <2> QED
    BY <2>1, <2>2, <2>3 DEF LockNext
<1>3. file.text \in alive \/ file.other # Other(p)
  BY <1>1, <1>2 DEF ReadHolder, LockInv, LockTypeOK
<1> QED
  BY <1>1, <1>3

\* Opens that do not overlap, of processes whose numbers could be written, give the
\* interface to one process, and whoever is refused is refused for a process that has it,
\* for a program with the number of a dead one or by a file of the other user: whatever
\* file a death left behind (SocketCanLock::acquire, socketcan_adapter.rs).
THEOREM LockHolds == LockSpec => LockIsTrue
<1>1. LockInit => LockInv
  BY InitLocked
<1>2. LockInv /\ [LockNext]_lockVars => LockInv'
  <2>1. LockInv /\ [LockNext]_lockVars /\ Orderly' => Orderly
    BY DEF LockInv, LockTypeOK, Orderly, LockNext, lockVars, OpenLock, Create, WritePid, ReadHolder, RemoveStale, OpenSocket, Release, Die,
           Reuse, MoveInterface
  <2> QED
    BY <2>1, NumbersKept, LockKept DEF LockInv
<1>3. LockInv => (Orderly => OneHolder)
  BY FileNamesOne
<1>4. LockInv /\ [LockNext]_lockVars =>
        [Orderly =>
           \A p \in Processes :
             pc[p] = "read" /\ pc'[p] = "refused" =>
               \/ \E q \in Processes : Holder(q)
               \/ file.text \in alive \ {pid[q] : q \in Processes}
               \/ file.other # Other(p)]_lockVars
  BY RefusedForCause
<1> QED
  BY <1>1, <1>2, <1>3, <1>4, PTL DEF LockSpec, LockIsTrue
=============================================================================
